---------------------------- MODULE MaterialsStore ----------------------------
(***************************************************************************)
(* MaterialsStore (win11_materials.py): the packages of materials between  *)
(* the cameras, the asynchronous detection (L1) and the L2 thread. A       *)
(* package is made of the frame it came with, its neighbours are frames of *)
(* other packages, and a ledger counts who shows a frame. What is taken is *)
(* a copy, on lease, and is paid for as long as its arrays live.           *)
(*                                                                         *)
(* Every public method holds the lock throughout and is one step. A frame  *)
(* weighs 1 and fits the store, and no two packages are made at one time.  *)
(* Ages are abstracted: the oldest packages may be too old, the oldest     *)
(* that wait may have waited too long, and any lease may be overdue. Left  *)
(* out are the counters of what was refused and the memory of identities   *)
(* already consumed, which only chooses among those counters.              *)
(***************************************************************************)
EXTENDS Integers, FiniteSets

CONSTANTS
    PkgCams,        \* cameras
    Captures,       \* what may be captured: camera, run and configuration (era), and
                    \* the frame (shot), which is also its time of capture
    NearGap,        \* max_adjacent_gap_ms
    PerCamMax,      \* max_packages_per_camera
    StoreCap,       \* max_total_bytes
    LeaseSlots,     \* max_leases
    LeaseCap,       \* max_lease_bytes
    MaxPkgs         \* bound: packages made

ASSUME MaterialsAssumption ==
    /\ IsFiniteSet(PkgCams)
    /\ \A k \in Captures : k.cam \in PkgCams /\ k.era \in Nat /\ k.shot \in Nat
    /\ NearGap \in Nat /\ MaxPkgs \in Nat /\ LeaseCap \in Nat /\ LeaseSlots \in Nat
    /\ PerCamMax \in Nat \ {0} /\ StoreCap \in Nat \ {0}

VARIABLES
    pkg,            \* the packages, by material_id, and their frames, by the same number
    packs,          \* _material_seq
    account,        \* _ledger (refs of each frame) and _total_bytes (bytes)
    lease,          \* the leases: none, leased, expired
    leaseCount,     \* cam["leased"] and cam["lease_expired"]
    alive,          \* arrays of a copy the consumer keeps alive
    dead,           \* _pending_dead: arrays collected and not yet discounted
    billed,         \* _consumer_alive_bytes
    storeOpen       \* _state

matvars == <<pkg, packs, account, lease, leaseCount, alive, dead, billed, storeOpen>>

Pkgs == 1..MaxPkgs
Views == {"prev", "cur", "nxt"}
\* _l1_verdict: an accepted ok, or any other result, rejected ones included.
Verdicts == {"ok", "other"}
OnLease == {"leased", "expired"}

MatInit ==
    /\ pkg = [p \in Pkgs |-> [cam |-> 0, era |-> 0, shot |-> 0, prev |-> 0, cur |-> p,
                              nxt |-> 0, st |-> "gone", why |-> "none", res |-> "none"]]
    /\ packs = 0
    /\ account = [refs |-> [p \in Pkgs |-> 0], bytes |-> 0]
    /\ lease = [p \in Pkgs |-> "none"]
    /\ leaseCount = [c \in PkgCams |-> [leased |-> 0, expired |-> 0]]
    /\ alive = [p \in Pkgs |-> 0] /\ dead = 0 /\ billed = 0 /\ storeOpen = TRUE
-------------------------------------------------------------------------------
(* Rings and the ledger. "m" are the packages as they are at that point of a *)
(* call, "in" the packages still in the store.                              *)

HeldBy(m, c) == {p \in Pkgs : m[p].st # "gone" /\ lease[p] = "none" /\ m[p].cam = c}
Held(m) == {p \in Pkgs : m[p].st # "gone" /\ lease[p] = "none"}

\* A package that left; what is known of its frame stays with those that show it.
Dropped(e) ==
    [e EXCEPT !.st = "gone", !.prev = 0, !.nxt = 0, !.why = "none", !.res = "none"]
Cleared(m, out) == [p \in Pkgs |-> IF p \in out THEN Dropped(m[p]) ELSE m[p]]

\* _unref_locked for every slot of some packages: the last one frees the frame.
ShownAt(m, S, f) == {x \in S \X Views : m[x[1]][x[2]] = f}
Shown(m, S, f) == Cardinality(ShownAt(m, S, f))
Unref(m, b, S) ==
    LET left == [f \in Pkgs |-> IF Shown(m, S, f) >= b.refs[f] THEN 0
                                ELSE b.refs[f] - Shown(m, S, f)]
    IN  [refs |-> left,
         bytes |-> b.bytes - Cardinality({f \in Pkgs : b.refs[f] > 0 /\ left[f] = 0})]

\* _sweep_expired_locked, then _sweep_l1_wait_locked: packages up to x are too old,
\* those up to t have waited too long for their result.
TooOld(x) == {p \in Held(pkg) : p <= x}
Swept(x, t) ==
    LET old == TooOld(x)
    IN  [p \in Pkgs |-> IF p \in old THEN Dropped(pkg[p])
                        ELSE IF pkg[p].st = "waiting" /\ p <= t
                        THEN [pkg[p] EXCEPT !.st = "fallback", !.why = "timeout"]
                        ELSE pkg[p]]
SweptAccount(x) == Unref(pkg, account, TooOld(x))

\* _sweep_leases_locked: leases found overdue.
Overdue(late) == [p \in Pkgs |-> IF p \in late THEN "expired" ELSE lease[p]]
Recounted(late) ==
    [c \in PkgCams |->
        LET n == Cardinality({p \in late : pkg[p].cam = c})
        IN [leased |-> leaseCount[c].leased - n, expired |-> leaseCount[c].expired + n]]
Leased == {p \in Pkgs : lease[p] = "leased"}

\* _drain_dead_locked.
Drained == billed - dead
-------------------------------------------------------------------------------
(* The operations. *)

\* A call that comes to nothing beyond the upkeep every call begins with: snapshot,
\* a frame the ring has, a result for no package or a decided one, nothing to take or
\* no lease for it, or a copy that failed and was rolled back.
Upkeep(x, t, late) ==
    /\ pkg' = Swept(x, t) /\ account' = SweptAccount(x)
    /\ lease' = Overdue(late) /\ leaseCount' = Recounted(late)
    /\ billed' = Drained /\ dead' = 0
    /\ UNCHANGED <<packs, alive, storeOpen>>

Known(m, k) == {p \in HeldBy(m, k.cam) : m[p].era = k.era /\ m[p].shot = k.shot}

\* _make_room_locked: a full ring loses its oldest, then the oldest of all go, one by
\* one, until the frames still shown leave room for one more.
Local(m, c) ==
    IF Cardinality(HeldBy(m, c)) < PerCamMax THEN {}
    ELSE {p \in HeldBy(m, c) : \A q \in HeldBy(m, c) : p <= q}
Evicted(m, b, c) ==
    LET first == Local(m, c)
        upto(n) == first \cup {p \in Held(m) : p <= n}
        enough == {n \in 0..packs : Unref(m, b, upto(n)).bytes + 1 <= StoreCap}
    IN  upto(CHOOSE n \in enough : \A k \in enough : n <= k)

\* ingest: a neighbour is the last of the ring, of the same run and configuration, and
\* captured before, not too long ago.
Near(m, q, k) == /\ m[q].era = k.era
                 /\ 0 < k.shot - m[q].shot /\ k.shot - m[q].shot <= NearGap

\* Mutant: the neighbour that gets the new frame as its next one does not count it.
MutantAdded(m, b, k) ==
    LET new == packs + 1
        ring == HeldBy(m, k.cam)
        last == {q \in ring : (\A p \in ring : p <= q) /\ Near(m, q, k)}
        back == {q \in last : m[q].nxt = 0}
    IN  [pkgs |-> [p \in Pkgs |->
            IF p = new
            THEN [cam |-> k.cam, era |-> k.era, shot |-> k.shot, cur |-> new, nxt |-> 0,
                  prev |-> IF last = {} THEN 0 ELSE CHOOSE q \in last : TRUE,
                  st |-> "waiting", why |-> "none", res |-> "none"]
            ELSE IF p \in back THEN [m[p] EXCEPT !.nxt = new]
            ELSE m[p]],
         account |-> [refs |-> [f \in Pkgs |-> IF f = new THEN 1
                                            ELSE IF f \in last THEN b.refs[f] + 1
                                            ELSE b.refs[f]],
                   bytes |-> b.bytes + 1]]

Added(m, b, k) ==
    LET new == packs + 1
        ring == HeldBy(m, k.cam)
        last == {q \in ring : (\A p \in ring : p <= q) /\ Near(m, q, k)}
        back == {q \in last : m[q].nxt = 0}
    IN  [pkgs |-> [p \in Pkgs |->
            IF p = new
            THEN [cam |-> k.cam, era |-> k.era, shot |-> k.shot, cur |-> new, nxt |-> 0,
                  prev |-> IF last = {} THEN 0 ELSE CHOOSE q \in last : TRUE,
                  st |-> "waiting", why |-> "none", res |-> "none"]
            ELSE IF p \in back THEN [m[p] EXCEPT !.nxt = new]
            ELSE m[p]],
         account |-> [refs |-> [f \in Pkgs |-> IF f = new THEN 1 + Cardinality(back)
                                            ELSE IF f \in last THEN b.refs[f] + 1
                                            ELSE b.refs[f]],
                   bytes |-> b.bytes + 1]]

Ingest(k, x, t, late) ==
    /\ storeOpen /\ packs < MaxPkgs /\ Known(Swept(x, t), k) = {}
    /\ LET m == Swept(x, t)
           out == Evicted(m, SweptAccount(x), k.cam)
           room == Cleared(m, out)
           added == Added(room, Unref(m, SweptAccount(x), out), k)
       IN  pkg' = added.pkgs /\ account' = added.account
    /\ packs' = packs + 1
    /\ lease' = Overdue(late) /\ leaseCount' = Recounted(late)
    /\ billed' = Drained /\ dead' = 0
    /\ UNCHANGED <<alive, storeOpen>>

\* attach_result: the verdict on the package of this camera, run, configuration and
\* frame. A decided fallback stays; one for want of a result may be promoted.
VerdictGiven(e) == e.st = "fallback" /\ e.why = "verdict"
Judged(e, v) ==
    IF v = "ok" THEN [e EXCEPT !.st = "consumable", !.why = "none", !.res = v]
    ELSE IF e.st = "fallback" THEN [e EXCEPT !.res = v]
    ELSE [e EXCEPT !.st = "fallback", !.why = "verdict", !.res = v]
Attach(k, v, x, t) ==
    /\ storeOpen
    /\ LET m == Swept(x, t)
       IN  \E p \in Known(m, k) :
            /\ ~VerdictGiven(m[p])
            /\ pkg' = [m EXCEPT ![p] = Judged(@, v)]
    /\ account' = SweptAccount(x)
    /\ billed' = Drained /\ dead' = 0
    /\ UNCHANGED <<packs, lease, leaseCount, alive, storeOpen>>

\* take_ready: the oldest package with a result or without hope of one, if the camera
\* has a lease left and the arrays of the copy may live beside those that do.
Take(c, x, t, late) ==
    LET m == Swept(x, t)
        ready == {p \in HeldBy(m, c) : m[p].st \in {"consumable", "fallback"}}
    IN  \E p \in ready :
        LET n == Cardinality({s \in Views : m[p][s] # 0})
        IN  /\ \A q \in ready : p <= q
            /\ Cardinality({q \in Pkgs : pkg[q].cam = c /\ lease[q] \in OnLease})
                    < LeaseSlots
            /\ Drained + n <= LeaseCap
            /\ pkg' = m
            /\ account' = Unref(m, SweptAccount(x), {p})
            /\ lease' = [Overdue(late) EXCEPT ![p] = "leased"]
            /\ leaseCount' = [Recounted(late) EXCEPT ![c].leased = @ + 1]
            /\ alive' = [alive EXCEPT ![p] = n]
            /\ billed' = Drained + n /\ dead' = 0
            /\ UNCHANGED <<packs, storeOpen>>

\* release: the end of the lease, not of the arrays. Rings are not looked at.
ReleasePkg(p, late) ==
    LET was == Overdue(late)[p]
    IN  /\ lease[p] \in OnLease
        /\ lease' = [Overdue(late) EXCEPT ![p] = "none"]
        /\ pkg' = [pkg EXCEPT ![p] = Dropped(@)]
        /\ leaseCount' = [Recounted(late) EXCEPT ![pkg[p].cam][was] = @ - 1]
        /\ billed' = Drained /\ dead' = 0
        /\ UNCHANGED <<packs, account, alive, storeOpen>>

\* The finalizer of an array: the store has no lease on the copy and the consumer
\* dropped the array.
Collect(p) ==
    /\ lease[p] = "none" /\ alive[p] > 0
    /\ alive' = [alive EXCEPT ![p] = @ - 1]
    /\ dead' = dead + 1
    /\ UNCHANGED <<pkg, packs, account, lease, leaseCount, billed, storeOpen>>

\* close: what was not taken is dropped, leases stay.
CloseStore(late) ==
    /\ pkg' = Cleared(pkg, Held(pkg))
    /\ account' = Unref(pkg, account, Held(pkg))
    /\ lease' = Overdue(late) /\ leaseCount' = Recounted(late)
    /\ billed' = Drained /\ dead' = 0
    /\ storeOpen' = FALSE
    /\ UNCHANGED <<packs, alive>>

UpTo(S) == {0} \cup S
\* Those too old are gone before the others are looked at.
Awaiting(x) == {p \in Held(pkg) : p > x /\ pkg[p].st = "waiting"}
MatNext ==
    \/ \E late \in SUBSET Leased :
        \/ \E x \in UpTo(Held(pkg)) : \E t \in UpTo(Awaiting(x)) :
            \/ Upkeep(x, t, late)
            \/ \E c \in PkgCams : Take(c, x, t, late)
            \/ \E k \in Captures : Ingest(k, x, t, late)
        \/ \E p \in Pkgs : ReleasePkg(p, late)
        \/ CloseStore(late)
    \/ \E x \in UpTo(Held(pkg)) : \E t \in UpTo(Awaiting(x)) :
        \E k \in Captures, v \in Verdicts : Attach(k, v, x, t)
    \/ \E p \in Pkgs : Collect(p)
MatSpec == MatInit /\ [][MatNext]_matvars
-------------------------------------------------------------------------------
(* Properties *)

\* What each part of the state may hold.
MatTypeOK ==
    /\ packs \in 0..MaxPkgs /\ dead \in Nat /\ billed \in Nat /\ storeOpen \in BOOLEAN
    /\ \A p \in Pkgs : /\ pkg[p].st \in {"gone", "waiting", "consumable", "fallback"}
                       /\ pkg[p].why \in {"none", "timeout", "verdict"}
                       /\ pkg[p].res \in {"none"} \cup Verdicts
                       /\ {pkg[p].prev, pkg[p].nxt} \subseteq 0..packs
                       /\ lease[p] \in {"none", "leased", "expired"}
                       /\ alive[p] \in 0..3
    /\ account.refs \in [Pkgs -> Nat] /\ account.bytes \in 0..StoreCap
    /\ \A c \in PkgCams : leaseCount[c].leased \in Nat /\ leaseCount[c].expired \in Nat

\* The ledger counts each slot of a package in the store, once, and the bytes are
\* those of the frames shown; a closed store shows none. What consumers keep alive is
\* billed until its end was noticed, within its own limit, and the leases of a camera
\* are counted as they are, overdue ones included.
LiveArrays == {x \in {p \in Pkgs : alive[p] > 0} \X (1..3) : x[2] <= alive[x[1]]}
StoreExact ==
    LET store == Held(pkg)
    IN  /\ \A f \in Pkgs : account.refs[f] = Shown(pkg, store, f)
        /\ account.bytes = Cardinality({f \in Pkgs : account.refs[f] > 0})
        /\ account.bytes <= StoreCap
        /\ ~storeOpen => store = {}
        /\ billed = Cardinality(LiveArrays) + dead /\ billed <= LeaseCap
        /\ \A c \in PkgCams :
            LET of(s) == Cardinality({p \in 1..packs : lease[p] = s /\ pkg[p].cam = c})
            IN  /\ leaseCount[c] = [leased |-> of("leased"), expired |-> of("expired")]
                /\ of("leased") + of("expired") <= LeaseSlots
                /\ Cardinality({p \in store : pkg[p].cam = c}) <= PerCamMax

\* A package goes to L2 as consumable only with an accepted result of its own frame, as
\* a fallback only without; it shows as neighbours frames of its camera, run and
\* configuration captured within the gap, before and after it.
MaterialsHonest ==
    \A p \in 1..packs :
        /\ pkg[p].st = "consumable" => pkg[p].res = "ok"
        /\ pkg[p].st = "fallback" => pkg[p].res # "ok"
        /\ lease[p] # "none" => pkg[p].st \in {"consumable", "fallback"}
        /\ \A s \in {"prev", "nxt"} :
            LET q == pkg[p][s]
                gap == IF s = "prev" THEN pkg[p].shot - pkg[q].shot
                       ELSE pkg[q].shot - pkg[p].shot
            IN  q # 0 => /\ pkg[q].cam = pkg[p].cam /\ pkg[q].era = pkg[p].era
                         /\ 0 < gap /\ gap <= NearGap
===============================================================================
