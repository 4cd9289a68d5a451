---------------------------- MODULE WindowFusion ----------------------------
(***************************************************************************)
(* The fusion of one window (win11_l4.py, and _accumulate_branch_result,   *)
(* _accumulate_window_gap of win11_l2_runtime.py): what is learnt of its   *)
(* branches, one after the other, is added to the materials of its stage,  *)
(* and every new set of materials becomes a version that names a parent.   *)
(*                                                                         *)
(* The L3 thread brings results and gaps, the L2 thread gaps. The stage    *)
(* has no lock, and each of them may stop anywhere in it: between looking  *)
(* for the state of the window and entering one, between the results and   *)
(* the gaps it reads, between its items, the parent it takes and the       *)
(* version it appends. Inside _l4_stage_for the look and the entry are two *)
(* steps, each under _l4_lock.                                             *)
(***************************************************************************)
EXTENDS Naturals, Sequences, FiniteSets

CONSTANTS Parts     \* the branches of the window

ASSUME FusionAssumption == IsFiniteSet(Parts)

VARIABLES
    part,           \* the entry of _open_windows: its branches
    fusionBook,     \* the window: sealed, marked done, gone
    stages,         \* every L4Stage made for it: the state in its _windows, 0 if none
    states,         \* every _WindowState made: materials and versions
    current,        \* _l4_stages: the stage in force, 0 if none
    worker,         \* the two threads
    log             \* l4 records of the understanding history, in whatever order

fusionvars == <<part, fusionBook, stages, states, current, worker, log>>

FusionThreads == {"l2", "l3"}
\* seen: how many versions there were when it began to put its items together.
AtRest == [pc |-> "idle", b |-> "none", stage |-> 0, state |-> 0, id |-> {}, items |-> {},
           seen |-> 0, parent |-> 0, ver |-> 0]
Material(b) == [b |-> b, good |-> part[b] = "ok"]

FusionInit ==
    /\ part = [b \in Parts |-> "pending"] /\ fusionBook = "sealed"
    /\ stages = <<>> /\ states = <<>> /\ current = 0 /\ log = {}
    /\ worker = [t \in FusionThreads |-> AtRest]

WorkerIs(t, w) == worker' = [worker EXCEPT ![t] = w]
To(t, pc) == WorkerIs(t, [worker[t] EXCEPT !.pc = pc])
-------------------------------------------------------------------------------
\* _settle_branch_terminal, _publish_l3_record: a pending branch gets its end; only
\* the L3 thread understands one, and only while the window is not marked.
EndBranch(t, b) ==
    /\ worker[t].pc = "idle" /\ part[b] = "pending" /\ fusionBook = "sealed"
    /\ \/ part' = [part EXCEPT ![b] = "gap"]
       \/ t = "l3" /\ part' = [part EXCEPT ![b] = "ok"]
    /\ WorkerIs(t, [AtRest EXCEPT !.pc = "find", !.b = b])
    /\ UNCHANGED <<fusionBook, stages, states, current, log>>

\* _expire_window: the mark, the branches that were pending one by one, the end.
ExpireFusion ==
    /\ worker["l2"].pc = "idle" /\ fusionBook = "sealed"
    /\ fusionBook' = "done"
    /\ UNCHANGED <<part, stages, states, current, worker, log>>

ExpireBranch(b) ==
    /\ worker["l2"].pc = "idle" /\ fusionBook = "done" /\ part[b] = "pending"
    /\ part' = [part EXCEPT ![b] = "gap"]
    /\ WorkerIs("l2", [AtRest EXCEPT !.pc = "find", !.b = b])
    /\ UNCHANGED <<fusionBook, stages, states, current, log>>

ExpireFusionEnd ==
    /\ worker["l2"].pc = "idle" /\ fusionBook = "done" /\ \A b \in Parts : part[b] # "pending"
    /\ fusionBook' = "gone"
    /\ To("l2", "cleanup")
    /\ UNCHANGED <<part, stages, states, current, log>>

\* _l4_stage_for: the stage in force, or a new one that takes its place.
FindStage(t) ==
    /\ worker[t].pc = "find"
    /\ IF current # 0 THEN WorkerIs(t, [worker[t] EXCEPT !.pc = "open", !.stage = current])
       ELSE To(t, "make")
    /\ UNCHANGED <<part, fusionBook, stages, states, current, log>>

MakeStage(t) ==
    /\ worker[t].pc = "make"
    /\ stages' = Append(stages, 0) /\ current' = Len(stages) + 1
    /\ WorkerIs(t, [worker[t] EXCEPT !.pc = "open", !.stage = current'])
    /\ UNCHANGED <<part, fusionBook, states, log>>

\* accumulate: the state of the window, or a new one that takes its place.
OpenState(t) ==
    /\ worker[t].pc = "open"
    /\ LET n == stages[worker[t].stage]
       IN IF n # 0 THEN WorkerIs(t, [worker[t] EXCEPT !.pc = "add", !.stage = 0, !.state = n])
          ELSE To(t, "enter")
    /\ UNCHANGED <<part, fusionBook, stages, states, current, log>>

EnterState(t) ==
    /\ worker[t].pc = "enter"
    /\ states' = Append(states, [mats |-> {}, vers |-> <<>>])
    /\ stages' = [stages EXCEPT ![worker[t].stage] = Len(states) + 1]
    /\ WorkerIs(t, [worker[t] EXCEPT !.pc = "add", !.stage = 0, !.state = Len(states) + 1])
    /\ UNCHANGED <<part, fusionBook, current, log>>

\* Mutant: the state keeps the latest materials only.
MutantAddMaterials(t) ==
    /\ worker[t].pc = "add"
    /\ states' = [states EXCEPT ![worker[t].state].mats = {Material(worker[t].b)}]
    /\ To(t, "rows")
    /\ UNCHANGED <<part, fusionBook, stages, current, log>>

\* accumulate: add_materials.
AddMaterials(t) ==
    /\ worker[t].pc = "add"
    /\ states' = [states EXCEPT ![worker[t].state].mats = @ \cup {Material(worker[t].b)}]
    /\ To(t, "rows")
    /\ UNCHANGED <<part, fusionBook, stages, current, log>>

Results(s) == {m \in states[s].mats : m.good}
Gaps(s) == {m \in states[s].mats : ~m.good}
\* accumulate, identity_rows: the fingerprint of all results, then of all gaps; the version
\* that has it already is returned.
TakeRows(t) ==
    /\ worker[t].pc = "rows"
    /\ WorkerIs(t, [worker[t] EXCEPT !.pc = "identify", !.id = Results(worker[t].state)])
    /\ UNCHANGED <<part, fusionBook, stages, states, current, log>>

VersionOf(s, id) == {v \in DOMAIN states[s].vers : states[s].vers[v].id = id}
Identify(t) ==
    /\ worker[t].pc = "identify"
    /\ LET s == worker[t].state
           id == worker[t].id \cup Gaps(s)
       IN IF VersionOf(s, id) = {}
          THEN WorkerIs(t, [worker[t] EXCEPT !.pc = "results", !.id = id,
                                             !.seen = Len(states[s].vers)])
          ELSE \E v \in VersionOf(s, id) :
                  WorkerIs(t, [worker[t] EXCEPT !.pc = "write", !.id = {}, !.ver = v])
    /\ UNCHANGED <<part, fusionBook, stages, states, current, log>>

\* accumulate: an item for each result, then for each gap, as there are by now. The other
\* thread may disturb the walk, and the version is given up.
TakeResults(t) ==
    /\ worker[t].pc = "results"
    /\ \/ WorkerIs(t, [worker[t] EXCEPT !.pc = "gaps", !.items = Results(worker[t].state)])
       \/ /\ states[worker[t].state].mats # worker[t].id
          /\ WorkerIs(t, [AtRest EXCEPT !.pc = "settle"])
    /\ UNCHANGED <<part, fusionBook, stages, states, current, log>>

TakeGaps(t) ==
    /\ worker[t].pc = "gaps"
    /\ WorkerIs(t, [worker[t] EXCEPT !.pc = "parent", !.items = @ \cup Gaps(worker[t].state)])
    /\ UNCHANGED <<part, fusionBook, stages, states, current, log>>

\* accumulate: the last version there is now becomes the parent; the version is appended.
TakeParent(t) ==
    /\ worker[t].pc = "parent"
    /\ WorkerIs(t, [worker[t] EXCEPT !.pc = "append",
                                     !.parent = Len(states[worker[t].state].vers)])
    /\ UNCHANGED <<part, fusionBook, stages, states, current, log>>

AppendVersion(t) ==
    /\ worker[t].pc = "append"
    /\ LET w == worker[t]
           v == [id |-> w.id, items |-> w.items, parent |-> w.parent, seen |-> w.seen]
       IN /\ states' = [states EXCEPT ![w.state].vers = Append(@, v)]
          /\ WorkerIs(t, [AtRest EXCEPT !.pc = "write", !.b = w.b, !.state = w.state,
                                         !.ver = Len(states[w.state].vers) + 1])
    /\ UNCHANGED <<part, fusionBook, stages, current, log>>

\* The version is written to the history (the identity is the same throughout).
WriteFusion(t) ==
    /\ worker[t].pc = "write"
    /\ log' = log \cup {[b |-> worker[t].b, state |-> worker[t].state, ver |-> worker[t].ver]}
    /\ WorkerIs(t, [AtRest EXCEPT !.pc = "settle"])
    /\ UNCHANGED <<part, fusionBook, stages, states, current>>

\* _maybe_settle_window: a sealed window without pending branches goes; _cleanup_l4.
SettleFusion(t) ==
    /\ worker[t].pc = "settle"
    /\ IF fusionBook = "sealed" /\ \A b \in Parts : part[b] # "pending"
       THEN fusionBook' = "gone" /\ To(t, "cleanup")
       ELSE WorkerIs(t, AtRest) /\ UNCHANGED fusionBook
    /\ UNCHANGED <<part, stages, states, current, log>>

\* _cleanup_l4: the stage is taken out; cleanup: then the state of the window out of it.
CleanupStage(t) ==
    /\ worker[t].pc = "cleanup" /\ current' = 0
    /\ WorkerIs(t, IF current = 0 THEN AtRest
                   ELSE [AtRest EXCEPT !.pc = "forget", !.stage = current])
    /\ UNCHANGED <<part, fusionBook, stages, states, log>>

ForgetState(t) ==
    /\ worker[t].pc = "forget" /\ WorkerIs(t, AtRest)
    /\ stages' = [stages EXCEPT ![worker[t].stage] = 0]
    /\ UNCHANGED <<part, fusionBook, states, current, log>>

FusionNext ==
    \/ ExpireFusion \/ ExpireFusionEnd \/ \E b \in Parts : ExpireBranch(b)
    \/ \E t \in FusionThreads :
        \/ \E b \in Parts : EndBranch(t, b)
        \/ FindStage(t) \/ MakeStage(t) \/ OpenState(t) \/ EnterState(t) \/ AddMaterials(t)
        \/ TakeRows(t) \/ Identify(t) \/ TakeResults(t) \/ TakeGaps(t) \/ TakeParent(t)
        \/ AppendVersion(t) \/ WriteFusion(t) \/ SettleFusion(t) \/ CleanupStage(t)
        \/ ForgetState(t)
FusionSpec == FusionInit /\ [][FusionNext]_fusionvars
-------------------------------------------------------------------------------
Written(l) == states[l.state].vers[l.ver]

\* What each part of the state may hold.
FusionTypeOK ==
    /\ part \in [Parts -> {"pending", "ok", "gap"}] /\ fusionBook \in {"sealed", "done", "gone"}
    /\ current \in 0..Len(stages)
    /\ \A s \in 1..Len(stages) : stages[s] \in 0..Len(states)
    /\ \A s \in 1..Len(states) : states[s].mats \subseteq [b : Parts, good : BOOLEAN]
    /\ \A l \in log : l.state \in 1..Len(states) /\ l.ver \in 1..Len(states[l.state].vers)

\* What is written as the fusion of a branch's end rests on what became of the branches,
\* never on one still pending or ended otherwise, and on this branch among them; a version
\* holds at least the materials that give it its identity, and all that the versions held
\* that were there when its items were put together. Its parent is none older than these:
\* only from a version the other thread appended meanwhile may it miss anything.
FusionGrows ==
    \A l \in log :
        LET v == Written(l)
            all == states[l.state].vers
        IN  /\ \A m \in v.items : part[m.b] = IF m.good THEN "ok" ELSE "gap"
            /\ v.id \subseteq v.items /\ Material(l.b) \in v.items
            /\ v.parent \in v.seen..(l.ver - 1)
            /\ \A u \in 1..v.seen : all[u].items \subseteq v.items
===============================================================================
