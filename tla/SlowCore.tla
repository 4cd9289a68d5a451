------------------------------- MODULE SlowCore -------------------------------
(***************************************************************************)
(* The slow system of one camera: SlowCore instances (slow_core.py), each  *)
(* driven by SlowWorker (slow_worker.py) or run_once (linux_slow_path.py)  *)
(* on a connection of its own, that claim closed review segments, match    *)
(* them against a pattern library kept in memory and write it back, while  *)
(* administrators confirm patterns through the workbench (server.py).      *)
(*                                                                         *)
(* Every action is at most one transaction, or the reads of one, so that   *)
(* instances, administrators, crashes and locked writes fall between any   *)
(* two of them.                                                            *)
(***************************************************************************)
EXTENDS Naturals, FiniteSets

CONSTANTS
    Cores,          \* instances: an instance that is gone does not come back
    Recovering,     \* those called with recover_stale, as SlowWorker does
    Admins,         \* concurrent feedback requests of the workbench
    NumReviews,     \* closed review segments, numbered by t_start
    Limit,          \* batch limit of a round
    MaxRetries,     \* max_retries
    MaxGen          \* bound: feedback ever given

ASSUME SlowAssumption ==
    /\ Recovering \subseteq Cores
    /\ IsFiniteSet(Cores) /\ Cores # {}
    /\ NumReviews \in Nat \ {0}
    /\ Limit \in Nat \ {0}
    /\ MaxRetries \in Nat \ {0}
    /\ MaxGen \in Nat

Reviews == 1 .. NumReviews
\* pat-1, pat-2, ...: no more than one per review, and one for a review that
\* somebody else has settled meanwhile
Pids == 1 .. NumReviews + 1
\* Payload texts of claims.  A text holds owner and microsecond and no two are
\* equal; 0 stands for "no row", and a text nobody holds any more is reused.
Texts == 1 .. Cardinality(Cores) + 1

VARIABLES
    (* the database *)
    seg,        \* segments: none, claim, done (matched, recorded) or failed
    owner,      \* the owner in the claim
    text,       \* the payload text of the claim
    stale,      \* the claim is older than stale_after_s
    pat,        \* pattern_id in the payload of a done segment
    retry,      \* meta slow:retry:<review>
    hits,       \* patterns: the reviews counted in each row, {} when absent
    gold,       \* patterns: the feedback recorded in each row
    gen,        \* meta slow:lib:gen
    (* instances *)
    life,       \* off, up or dead
    phase,      \* idle; round; persist: computed, not written; bump
    plan,       \* rows read by pending_reviews and not looked at yet
    batch,      \* claimed entries still to process
    loaded,     \* self._library is not None
    lib,        \* self._library and _library_generation_seen
    choice,     \* the pattern the review under work was matched to
    val,        \* the count _bump_retry is about to write
    dirty,      \* conn.in_transaction outside any call
    (* workbench *)
    adm,        \* per request: the pattern being confirmed, 0 when there is none
    seen,       \* the row and generation it has loaded
    (* history *)
    tries       \* failed attempts per review, counted up to MaxRetries

db == <<seg, owner, text, stale, pat, retry, hits, gold, gen>>
work == <<life, phase, plan, batch, loaded, lib, choice, val, dirty>>
bench == <<adm, seen>>
vars == <<seg, owner, text, stale, pat, retry, hits, gold, gen,
          life, phase, plan, batch, loaded, lib, choice, val, dirty,
          adm, seen, tries>>

Libraries == [hits : [Pids -> SUBSET Reviews], gold : [Pids -> 0 .. MaxGen],
              gen : 0 .. MaxGen]
NoLibrary == [hits |-> [p \in Pids |-> {}], gold |-> [p \in Pids |-> 0],
              gen |-> 0]
Rows == [r : Reviews, text : Texts \cup {0}, owner : Cores]
Claims == [r : Reviews, text : Texts]

DbTypeOK ==
    /\ seg \in [Reviews -> {"none", "claim", "done", "failed"}]
    /\ owner \in [Reviews -> Cores]
    /\ text \in [Reviews -> Texts \cup {0}]
    /\ stale \in [Reviews -> BOOLEAN]
    /\ pat \in [Reviews -> Pids \cup {0}]
    /\ retry \in [Reviews -> 0 .. MaxRetries]
    /\ hits \in [Pids -> SUBSET Reviews]
    /\ gold \in [Pids -> 0 .. MaxGen]
    /\ gen \in 0 .. MaxGen

RoundTypeOK ==
    /\ life \in [Cores -> {"off", "up", "dead"}]
    /\ phase \in [Cores -> {"idle", "round", "persist", "bump"}]
    /\ plan \in [Cores -> SUBSET Rows]
    /\ batch \in [Cores -> SUBSET Claims]
    /\ val \in [Cores -> 0 .. MaxRetries]
    /\ dirty \in [Cores -> BOOLEAN]

LibTypeOK ==
    /\ loaded \in [Cores -> BOOLEAN]
    /\ lib \in [Cores -> Libraries]
    /\ choice \in [Cores -> Pids \cup {0}]
    /\ adm \in [Admins -> Pids \cup {0}]
    /\ seen \in [Admins -> Libraries]

TypeOK ==
    /\ DbTypeOK
    /\ RoundTypeOK
    /\ LibTypeOK
    /\ tries \in [Reviews -> 0 .. MaxRetries]

Init ==
    /\ seg = [r \in Reviews |-> "none"]
    /\ owner \in [Reviews -> {CHOOSE c \in Cores : TRUE}]
    /\ text = [r \in Reviews |-> 0]
    /\ stale = [r \in Reviews |-> FALSE]
    /\ pat = [r \in Reviews |-> 0]
    /\ retry = [r \in Reviews |-> 0]
    /\ hits = NoLibrary.hits
    /\ gold = NoLibrary.gold
    /\ gen = 0
    /\ life = [c \in Cores |-> "off"]
    /\ phase = [c \in Cores |-> "idle"]
    /\ plan = [c \in Cores |-> {}]
    /\ batch = [c \in Cores |-> {}]
    /\ loaded = [c \in Cores |-> FALSE]
    /\ lib = [c \in Cores |-> NoLibrary]
    /\ choice = [c \in Cores |-> 0]
    /\ val = [c \in Cores |-> 0]
    /\ dirty = [c \in Cores |-> FALSE]
    /\ adm = [a \in Admins |-> 0]
    /\ seen = [a \in Admins |-> NoLibrary]
    /\ tries = [r \in Reviews |-> 0]

Terminal == {"done", "failed"}
\* rows and entries come in the order of t_start
Oldest(e, S) == e \in S /\ \A f \in S : e.r <= f.r
Stored == [hits |-> hits, gold |-> gold, gen |-> gen]

(***************************************************************************)
(* Instances and their rounds.                                             *)
(***************************************************************************)
Start(c) ==
    /\ life[c] = "off"
    /\ life' = [life EXCEPT ![c] = "up"]
    /\ UNCHANGED <<db, phase, plan, batch, loaded, lib, choice, val, dirty,
                   bench, tries>>

\* mutant: the library in memory is kept
UnloadNothing(c) ==
    /\ choice' = [choice EXCEPT ![c] = 0]
    /\ UNCHANGED <<loaded, lib>>

Unload(c) ==
    /\ loaded' = [loaded EXCEPT ![c] = FALSE]
    /\ lib' = [lib EXCEPT ![c] = NoLibrary]
    /\ choice' = [choice EXCEPT ![c] = 0]

Leave(c) ==
    /\ phase' = [phase EXCEPT ![c] = "idle"]
    /\ plan' = [plan EXCEPT ![c] = {}]
    /\ batch' = [batch EXCEPT ![c] = {}]
    /\ val' = [val EXCEPT ![c] = 0]

\* the process goes down; SQLite rolls an open transaction back
Crash(c) ==
    /\ life[c] = "up"
    /\ life' = [life EXCEPT ![c] = "dead"]
    /\ Leave(c)
    /\ Unload(c)
    /\ dirty' = [dirty EXCEPT ![c] = FALSE]
    /\ UNCHANGED <<db, bench, tries>>

\* mutant: the generation is not looked at
CurrentAlways(l) == TRUE

\* the generation of a library is the one of the table
Current(l) == l.gen = gen

\* The rows pending_reviews reads: no row or a claim, the oldest Limit of them.
Open == {r \in Reviews : seg[r] \notin Terminal}
Window == {r \in Open : Cardinality({s \in Open : s < r}) < Limit}

\* A round begins: guard, query, and the library is dropped when the generation
\* has moved.  SlowWorker compares it with the one of its last round and so may
\* drop a library that is current as well.
ReadPending(c) ==
    /\ life[c] = "up" /\ phase[c] = "idle" /\ ~dirty[c]
    /\ Window # {}
    /\ \/ Unload(c)
       \/ (loaded[c] => Current(lib[c])) /\ UNCHANGED <<loaded, lib, choice>>
    /\ plan' = [plan EXCEPT ![c] =
                  {[r |-> r, text |-> text[r],
                    owner |-> IF seg[r] = "none" THEN c ELSE owner[r]]
                   : r \in Window}]
    /\ phase' = [phase EXCEPT ![c] = "round"]
    /\ UNCHANGED <<db, life, batch, val, dirty, bench, tries>>

(***************************************************************************)
(* pending_reviews, one row after the other.                               *)
(***************************************************************************)
Looking(c, e) == life[c] = "up" /\ phase[c] = "round" /\ Oldest(e, plan[c])
Looked(c, e) == plan' = [plan EXCEPT ![c] = @ \ {e}]

\* mutant: the swap compares the status only
AsReadStatus(e) == seg[e.r] = "claim"

\* the compare-and-swap on the whole payload text
AsRead(e) == seg[e.r] = "claim" /\ text[e.r] = e.text
Stale(e) == AsRead(e) /\ stale[e.r]
Exhausted(r) == retry[r] >= MaxRetries

Unused(r, n) ==
    /\ text[r] # n
    /\ \A c \in Cores : \A e \in plan[c] \cup batch[c] :
         e.r = r => e.text # n

\* a claim is written: fresh text, fresh time, and the entry is held
WriteClaim(c, r) ==
    \E n \in Texts :
      /\ Unused(r, n)
      /\ \A m \in Texts : m < n => ~Unused(r, m)
      /\ seg' = [seg EXCEPT ![r] = "claim"]
      /\ owner' = [owner EXCEPT ![r] = c]
      /\ text' = [text EXCEPT ![r] = n]
      /\ stale' = [stale EXCEPT ![r] = FALSE]
      /\ batch' = [batch EXCEPT ![c] = @ \cup {[r |-> r, text |-> n]}]

\* mutant: an exhausted claim is left to its owner
ToFinalizeOwn(c, e) == e.text # 0 /\ Exhausted(e.r) /\ Stale(e) /\ e.owner = c

ToClaim(e) == e.text = 0
ToFinalize(c, e) ==
    /\ e.text # 0 /\ Exhausted(e.r) /\ Stale(e)
    /\ e.owner = c \/ c \in Recovering
ToResume(c, e) == e.text # 0 /\ ~Exhausted(e.r) /\ e.owner = c
ToTakeOver(c, e) ==
    /\ e.text # 0 /\ ~Exhausted(e.r) /\ e.owner # c
    /\ c \in Recovering /\ Stale(e)

\* INSERT OR IGNORE: the row may be there by now
Claim(c, e) ==
    /\ Looking(c, e) /\ ToClaim(e)
    /\ Looked(c, e)
    /\ IF seg[e.r] = "none"
         THEN WriteClaim(c, e.r)
         ELSE UNCHANGED <<seg, owner, text, stale, batch>>
    /\ UNCHANGED <<pat, retry, hits, gold, gen, life, phase, loaded, lib,
                   choice, val, dirty, bench, tries>>

\* the row as read, when this instance owned it: no write, no check
Resume(c, e) ==
    /\ Looking(c, e) /\ ToResume(c, e)
    /\ Looked(c, e)
    /\ batch' = [batch EXCEPT ![c] = @ \cup {[r |-> e.r, text |-> e.text]}]
    /\ UNCHANGED <<db, life, phase, loaded, lib, choice, val, dirty, bench,
                   tries>>

TakeOver(c, e) ==
    /\ Looking(c, e) /\ ToTakeOver(c, e)
    /\ Looked(c, e)
    /\ WriteClaim(c, e.r)
    /\ UNCHANGED <<pat, retry, hits, gold, gen, life, phase, loaded, lib,
                   choice, val, dirty, bench, tries>>

\* _finalize_exhausted_claim
Finalize(c, e) ==
    /\ Looking(c, e) /\ ToFinalize(c, e)
    /\ Looked(c, e)
    /\ seg' = [seg EXCEPT ![e.r] = "failed"]
    /\ text' = [text EXCEPT ![e.r] = 0]
    /\ stale' = [stale EXCEPT ![e.r] = FALSE]
    /\ UNCHANGED <<owner, pat, retry, hits, gold, gen, life, phase, batch,
                   loaded, lib, choice, val, dirty, bench, tries>>

Skip(c, e) ==
    /\ Looking(c, e)
    /\ ~(ToClaim(e) \/ ToFinalize(c, e) \/ ToResume(c, e) \/ ToTakeOver(c, e))
    /\ Looked(c, e)
    /\ UNCHANGED <<db, life, phase, batch, loaded, lib, choice, val, dirty,
                   bench, tries>>

(***************************************************************************)
(* process_one for the entries of the batch.                               *)
(***************************************************************************)
Rounding(c) == life[c] = "up" /\ phase[c] = "round" /\ plan[c] = {}
Working(c, ph, e) == life[c] = "up" /\ phase[c] = ph /\ Oldest(e, batch[c])
Done(c, e) ==
    /\ phase' = [phase EXCEPT ![c] = "round"]
    /\ batch' = [batch EXCEPT ![c] = @ \ {e}]

EndRound(c) ==
    /\ Rounding(c) /\ batch[c] = {}
    /\ phase' = [phase EXCEPT ![c] = "idle"]
    /\ UNCHANGED <<db, life, plan, batch, loaded, lib, choice, val, dirty,
                   bench, tries>>

Known(l) == {p \in Pids : l.hits[p] # {}}
\* an existing pattern, or a draft under the number after the highest
Matches(l) ==
    Known(l) \cup {p \in Pids : /\ p - 1 \in Known(l) \cup {0}
                              /\ \A k \in Known(l) : k < p}

Matched(l, p, r) ==
    [l EXCEPT !.hits = [l.hits EXCEPT ![p] = @ \cup {r}]]

\* load_library when there is none, then match_or_record, in memory only
Compute(c, e) ==
    /\ Rounding(c) /\ Oldest(e, batch[c])
    /\ LET l == IF loaded[c] THEN lib[c] ELSE Stored
       IN \E p \in Matches(l) :
            /\ lib' = [lib EXCEPT ![c] = Matched(l, p, e.r)]
            /\ choice' = [choice EXCEPT ![c] = p]
    /\ loaded' = [loaded EXCEPT ![c] = TRUE]
    /\ phase' = [phase EXCEPT ![c] = "persist"]
    /\ UNCHANGED <<db, life, plan, batch, val, dirty, bench, tries>>

\* _persist_terminal: generation and claim unchanged, then the whole library
\* and the segment in one transaction
Persist(c, e) ==
    /\ Working(c, "persist", e)
    /\ Current(lib[c])
    /\ AsRead(e)
    /\ LET known == Known(lib[c])
       IN /\ hits' = [p \in Pids |-> IF p \in known THEN lib[c].hits[p]
                                                    ELSE hits[p]]
          /\ gold' = [p \in Pids |-> IF p \in known THEN lib[c].gold[p]
                                                    ELSE gold[p]]
    /\ seg' = [seg EXCEPT ![e.r] = "done"]
    /\ pat' = [pat EXCEPT ![e.r] = choice[c]]
    /\ text' = [text EXCEPT ![e.r] = 0]
    /\ stale' = [stale EXCEPT ![e.r] = FALSE]
    /\ Done(c, e)
    /\ choice' = [choice EXCEPT ![c] = 0]
    /\ UNCHANGED <<owner, retry, gen, life, plan, loaded, lib, val, dirty,
                   bench, tries>>

\* mutant: no cap
CappedNot(n) == n

\* the count of attempts, as far as the limit tells it apart
Capped(n) == IF n < MaxRetries THEN n ELSE MaxRetries

\* mutant: a lost claim is counted as a failed attempt
ConflictCounted(c, e) ==
    /\ Working(c, "persist", e)
    /\ ~Current(lib[c]) \/ ~AsRead(e)
    /\ val' = [val EXCEPT ![c] = Capped(retry[e.r] + 1)]
    /\ phase' = [phase EXCEPT ![c] = "bump"]
    /\ Unload(c)
    /\ UNCHANGED <<db, life, plan, batch, dirty, bench, tries>>

\* SlowPersistenceConflict, SlowGenerationConflict: not counted as a retry
Conflict(c, e) ==
    /\ Working(c, "persist", e)
    /\ ~Current(lib[c]) \/ ~AsRead(e)
    /\ Done(c, e)
    /\ Unload(c)
    /\ UNCHANGED <<db, life, plan, val, dirty, bench, tries>>

\* any other exception of the attempt; _bump_retry reads the count
Fail(c, e) ==
    /\ Working(c, "persist", e)
    /\ val' = [val EXCEPT ![c] = Capped(retry[e.r] + 1)]
    /\ tries' = [tries EXCEPT ![e.r] = Capped(@ + 1)]
    /\ phase' = [phase EXCEPT ![c] = "bump"]
    /\ Unload(c)
    /\ UNCHANGED <<db, life, plan, batch, dirty, bench>>

\* ... and writes it
Bump(c, e) ==
    /\ Working(c, "bump", e)
    /\ retry' = [retry EXCEPT ![e.r] = val[c]]
    /\ val' = [val EXCEPT ![c] = 0]
    /\ Done(c, e)
    /\ UNCHANGED <<seg, owner, text, stale, pat, hits, gold, gen, life, plan,
                   loaded, lib, choice, dirty, bench, tries>>

\* "database is locked" at a write outside an explicit transaction: the BEGIN
\* that sqlite3 issues before it has succeeded, and nobody rolls it back
LockedWrite(c) ==
    /\ \/ \E e \in plan[c] : Looking(c, e) /\ (ToClaim(e) \/ ToTakeOver(c, e))
       \/ life[c] = "up" /\ phase[c] = "bump"
    /\ Leave(c)
    /\ dirty' = [dirty EXCEPT ![c] = TRUE]
    /\ UNCHANGED <<db, life, loaded, lib, choice, bench, tries>>

\* at BEGIN IMMEDIATE of the finalization: only the round is lost
LockedBegin(c) ==
    /\ \E e \in plan[c] : Looking(c, e) /\ ToFinalize(c, e)
    /\ Leave(c)
    /\ UNCHANGED <<db, life, loaded, lib, choice, dirty, bench, tries>>

(***************************************************************************)
(* Time, and the workbench.                                                *)
(***************************************************************************)
Age(r) ==
    /\ seg[r] = "claim" /\ ~stale[r]
    /\ stale' = [stale EXCEPT ![r] = TRUE]
    /\ UNCHANGED <<seg, owner, text, pat, retry, hits, gold, gen, work, bench,
                   tries>>

\* confirm_pattern on a SlowCore of the request: load, ...
Load(a, p) ==
    /\ adm[a] = 0
    /\ gen < MaxGen
    /\ hits[p] # {}
    /\ adm' = [adm EXCEPT ![a] = p]
    /\ seen' = [seen EXCEPT ![a] = Stored]
    /\ UNCHANGED <<db, work, tries>>

Return(a) ==
    /\ adm' = [adm EXCEPT ![a] = 0]
    /\ seen' = [seen EXCEPT ![a] = NoLibrary]

\* ... then generation check, the one row and the new generation
Confirm(a) ==
    /\ adm[a] # 0
    /\ Current(seen[a]) /\ gen < MaxGen
    /\ LET p == adm[a]
       IN /\ hits' = [hits EXCEPT ![p] = seen[a].hits[p]]
          /\ gold' = [gold EXCEPT ![p] = seen[a].gold[p] + 1]
    /\ gen' = gen + 1
    /\ Return(a)
    /\ UNCHANGED <<seg, owner, text, stale, pat, retry, work, tries>>

\* conflict or failure: nothing is written
GiveUp(a) ==
    /\ adm[a] # 0
    /\ Return(a)
    /\ UNCHANGED <<db, work, tries>>

(***************************************************************************)
(* The specification.                                                      *)
(***************************************************************************)
Look(c) ==
    \E e \in plan[c] :
      Claim(c, e) \/ Resume(c, e) \/ TakeOver(c, e) \/ Finalize(c, e) \/ Skip(c, e)
Attempt(c) ==
    \E e \in batch[c] :
      Compute(c, e) \/ Persist(c, e) \/ Conflict(c, e) \/ Fail(c, e) \/ Bump(c, e)
Locked(c) == LockedWrite(c) \/ LockedBegin(c)
Step(c) == ReadPending(c) \/ Look(c) \/ Attempt(c) \/ EndRound(c)
Feedback(a) == (\E p \in Pids : Load(a, p)) \/ Confirm(a) \/ GiveUp(a)

Next ==
    \/ \E c \in Cores : Start(c) \/ Crash(c) \/ Step(c) \/ Locked(c)
    \/ \E r \in Reviews : Age(r)
    \/ \E a \in Admins : Feedback(a)

Spec == Init /\ [][Next]_vars

(***************************************************************************)
(* Fairness.  The loop of SlowWorker and time go on.  The rest is what the *)
(* code counts on: the database is not locked for ever, feedback ends      *)
(* (MaxGen), and, eventually, no claim turns stale under an instance that  *)
(* is still at work on it (stale_after_s is longer than a round).          *)
(***************************************************************************)
AtWork(c, r) == \E e \in plan[c] \cup batch[c] : e.r = r

Fairness ==
    /\ \A c \in Cores : WF_vars(Step(c))
    /\ \A r \in Reviews : WF_vars(Age(r))
    /\ <>[][~\E c \in Cores : Locked(c)]_vars
    /\ <>[][\A r \in Reviews : Age(r) => ~AtWork(owner[r], r)]_vars

FairSpec == Spec /\ Fairness

(***************************************************************************)
(* Properties.                                                             *)
(***************************************************************************)
\* No write of a whole library and no feedback of another request takes back
\* feedback an administrator has given (P0-B, the generation check).
FeedbackKept == [][\A p \in Pids : gold[p] <= gold'[p]]_vars

\* A pattern counts a review only when that review is settled with it: what a
\* failed or beaten attempt did to the library in memory is never written.
NoGhost == \A p \in Pids : \A r \in hits[p] : seg[r] = "done" /\ pat[r] = p

\* A settled review is final, and a claim that is not stale is rewritten only
\* by its owner, at the end of its work on exactly this claim.
ClaimHeld ==
    [][\A r \in Reviews :
         /\ seg[r] \in Terminal => seg'[r] = seg[r] /\ pat'[r] = pat[r]
         /\ seg[r] = "claim" /\ ~stale[r] =>
              \/ seg'[r] = seg[r] /\ text'[r] = text[r] /\ owner'[r] = owner[r]
              \/ /\ phase[owner[r]] = "persist"
                 /\ [r |-> r, text |-> text[r]] \in batch[owner[r]]
                 /\ seg'[r] = "done"]_vars

\* A review is given up only after max_retries attempts that really failed:
\* claims lost to others and stale libraries are not counted.
FailedOnlyExhausted ==
    \A r \in Reviews : seg[r] = "failed" => tries[r] = MaxRetries

\* Every closed review is settled, unless in the end no recovering instance is
\* up with a usable connection.
Usable(c) == life[c] = "up" /\ ~dirty[c]
ReviewSettles ==
    \A r \in Reviews :
      \/ <>(seg[r] \in Terminal)
      \/ <>[](\A c \in Recovering : ~Usable(c))

\* What SlowWorker._round says of itself: an exception is isolated and the next
\* round goes on.  Then an instance that is up is enough to settle a review.
RoundGoesOn ==
    \A r \in Reviews :
      \/ <>(seg[r] \in Terminal)
      \/ <>[](\A c \in Recovering : life[c] # "up")

\* What SlowGenerationConflict says of itself: a library in memory that is
\* older than the table is refused.  Then no settled review drops out of the
\* pattern it was settled with.
StaleRefused == \A r \in Reviews : seg[r] = "done" => r \in hits[pat[r]]
=============================================================================
