------------------------------- MODULE Harvest -------------------------------
(***************************************************************************)
(* The materials the window scheduler gives up (L2Runtime, the hand-off of  *)
(* harvested packages): they wait in a bounded queue, are observed once by  *)
(* the material pool, and the pixels the queue keeps alive are on a ledger  *)
(* of their own until the package leaves.                                  *)
(*                                                                         *)
(* The L2 thread gives up packages while it acquires a window, and empties  *)
(* the queue; stop() empties it too, twice, while the L2 thread may still   *)
(* be at work.                                                             *)
(***************************************************************************)
EXTENDS Naturals, Sequences, FiniteSets, SequencesExt

CONSTANTS
    HPkgs,          \* packages the scheduler may give up, each once
    MaterialOf,     \* the material each belongs to
    BuffersOf,      \* the pixel buffers of its frames; packages may share some
    HarvestCap,     \* _harvest_capacity
    ObservedCap     \* _harvest_observed_cap

ASSUME HarvestAssumption ==
    /\ IsFiniteSet(HPkgs)
    /\ \A p \in HPkgs : IsFiniteSet(BuffersOf[p])
    /\ HarvestCap \in Nat /\ ObservedCap \in Nat \ {0}

VARIABLES
    given,          \* packages given up so far
    handoff,        \* _harvest_queue (its length is _harvest_queue_depth)
    ledger,         \* _harvest_ref_ledger: how many packages hold a set of buffers
    heldBytes,      \* _harvest_external_bytes, in buffers
    observed,       \* _harvest_observed, oldest first
    pumps,          \* the batch of each thread that empties the queue
    stopAt,         \* how far stop() is
    rejected        \* packages refused because the queue was full
hvars == <<given, handoff, ledger, heldBytes, observed, pumps, stopAt, rejected>>

Pumpers == {"l2", "stop"}
Materials == {MaterialOf[p] : p \in HPkgs}
BufferSets == {BuffersOf[p] : p \in HPkgs}

HInit ==
    /\ given = {} /\ handoff = <<>> /\ rejected = {}
    /\ ledger = [s \in BufferSets |-> 0] /\ heldBytes = 0
    /\ observed = <<>> /\ pumps = [t \in Pumpers |-> <<>>]
    /\ stopAt = "none"

\* _harvest_ref_charge_locked: the first package with this very set of buffers pays.
Charged(p) ==
    IF BuffersOf[p] = {} THEN UNCHANGED <<ledger, heldBytes>>
    ELSE /\ ledger' = [ledger EXCEPT ![BuffersOf[p]] = @ + 1]
         /\ heldBytes' = heldBytes
              + (IF ledger[BuffersOf[p]] = 0 THEN Cardinality(BuffersOf[p]) ELSE 0)

\* Mutant: the last one to leave does not settle its bytes.
MutantSettled(p) ==
    IF BuffersOf[p] = {} THEN UNCHANGED <<ledger, heldBytes>>
    ELSE /\ ledger' = [ledger EXCEPT ![BuffersOf[p]] = IF @ = 0 THEN 0 ELSE @ - 1]
         /\ UNCHANGED heldBytes

\* _harvest_ref_release_pkg: the last one to leave settles.
Settled(p) ==
    IF BuffersOf[p] = {} THEN UNCHANGED <<ledger, heldBytes>>
    ELSE /\ ledger' = [ledger EXCEPT ![BuffersOf[p]] = IF @ = 0 THEN 0 ELSE @ - 1]
         /\ heldBytes' = heldBytes
              - (IF ledger[BuffersOf[p]] = 1 THEN Cardinality(BuffersOf[p]) ELSE 0)

\* _on_packages_released, called under the lock of the scheduler.
GiveUp(p) ==
    /\ p \notin given
    /\ pumps["l2"] = <<>>
    /\ given' = given \cup {p}
    /\ IF stopAt # "none" THEN UNCHANGED <<handoff, ledger, heldBytes, rejected>>
       ELSE IF Len(handoff) >= HarvestCap
       THEN /\ rejected' = rejected \cup {p}
            /\ UNCHANGED <<handoff, ledger, heldBytes>>
       ELSE /\ handoff' = Append(handoff, p)
            /\ Charged(p)
            /\ UNCHANGED rejected
    /\ UNCHANGED <<observed, pumps, stopAt>>

\* _mark_observed: whether it was known, and the bounded memory of what is.
Remembered(m) ==
    IF m \in ToSet(observed)
    THEN LET i == CHOOSE k \in 1..Len(observed) : observed[k] = m
         IN  Append(RemoveAt(observed, i), m)
    ELSE IF Len(observed) < ObservedCap THEN Append(observed, m)
         ELSE Tail(Append(observed, m))

\* _process_handle: the L2 thread observes a material of its window itself.
ObserveWindow(m) ==
    /\ pumps["l2"] = <<>> /\ stopAt = "none"
    /\ observed' = Remembered(m)
    /\ UNCHANGED <<given, handoff, ledger, heldBytes, pumps, stopAt, rejected>>

\* _pump_harvest_handoff takes the whole queue as a batch ...
TakeBatch(t) ==
    /\ pumps[t] = <<>> /\ handoff # <<>>
    /\ t = "stop" => stopAt \in {"pump1", "pump2"}
    /\ pumps' = [pumps EXCEPT ![t] = handoff]
    /\ handoff' = <<>>
    /\ UNCHANGED <<given, ledger, heldBytes, observed, stopAt, rejected>>

\* ... and takes its packages one by one: dropped when stopping, refused when the
\* camera has another identity, skipped when known, else shown to the pool. Whatever
\* the outcome, its buffers leave the ledger.
PumpOne(t) ==
    /\ pumps[t] # <<>>
    /\ LET p == Head(pumps[t])
           m == MaterialOf[p]
       IN  /\ pumps' = [pumps EXCEPT ![t] = Tail(@)]
           /\ \/ UNCHANGED observed
              \/ stopAt = "none" /\ observed' = Remembered(m)
           /\ Settled(p)
    /\ UNCHANGED <<given, handoff, stopAt, rejected>>

\* stop(): the flag; the first emptying; the joins and the scheduler's close, which
\* gives up what waited; the second emptying.
HarvestStop ==
    /\ \/ stopAt = "none" /\ stopAt' = "pump1"
       \/ stopAt = "pump1" /\ handoff = <<>> /\ pumps["stop"] = <<>> /\ stopAt' = "close"
       \/ stopAt = "close" /\ stopAt' = "pump2"
       \/ stopAt = "pump2" /\ handoff = <<>> /\ pumps["stop"] = <<>> /\ stopAt' = "done"
    /\ UNCHANGED <<given, handoff, ledger, heldBytes, observed, pumps, rejected>>

HNext ==
    \/ \E p \in HPkgs : GiveUp(p)
    \/ \E m \in Materials : ObserveWindow(m)
    \/ \E t \in Pumpers : TakeBatch(t) \/ PumpOne(t)
    \/ HarvestStop
-------------------------------------------------------------------------------
(* Properties *)

HTypeOK ==
    /\ given \subseteq HPkgs /\ rejected \subseteq given
    /\ Len(handoff) <= HarvestCap /\ ToSet(handoff) \subseteq given
    /\ ledger \in [BufferSets -> Nat] /\ heldBytes \in Nat
    /\ Len(observed) <= ObservedCap /\ ToSet(observed) \subseteq Materials
    /\ pumps \in [Pumpers -> Seq(HPkgs)]
    /\ stopAt \in {"none", "pump1", "close", "pump2", "done"}

\* Packages the hand-off still keeps alive.
Alive == ToSet(handoff) \cup UNION {ToSet(pumps[t]) : t \in Pumpers}

\* Their buffers, once for each set.
PaidPixels(P) == UNION {{BuffersOf[p]} \X BuffersOf[p] : p \in P}

\* The ledger of the pixels kept alive agrees with the packages on their way: one
\* reference for each package, the buffers of each set once. It returns to zero when
\* the last one has left, whether it was observed, refused or dropped by stop, and
\* whichever thread had it; and after the first emptying of stop() nothing enters the
\* hand-off any more, though the scheduler still gives packages up.
LedgerExact ==
    /\ LET living == Alive
       IN  /\ \A s \in BufferSets \ {{}} :
                ledger[s] = Cardinality({p \in living : BuffersOf[p] = s})
           /\ heldBytes = Cardinality(PaidPixels(living))
    /\ stopAt \in {"close", "pump2", "done"} => handoff = <<>>

===============================================================================
