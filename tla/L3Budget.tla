------------------------------- MODULE L3Budget -------------------------------
(***************************************************************************)
(* The frames and tasks a window may cost: L3TaskBudgetLedger of            *)
(* win11_l3_tasks.py, which all packages of a window share, and the tasks   *)
(* built from its plans. L2Runtime asks for one plan per package, gives the *)
(* share of a task back when the task is refused by its queue or driven out *)
(* of it, and forgets the window when it is sealed.                        *)
(*                                                                         *)
(* The limit on source bytes is left out: by default there is none.        *)
(***************************************************************************)
EXTENDS Integers, Sequences, FiniteSets, SequencesExt, FiniteSetsExt

CONSTANTS
    BudgetWins,         \* windows
    MaxTasks,           \* max_tasks_per_window
    MaxFrames,          \* max_total_frames
    PerTask,            \* max_frames_per_task
    MinFrames,          \* min_frames_per_task
    Floor,              \* frames_per_branch_floor
    ForgottenCap,       \* _FORGOTTEN_CAP
    Contents,           \* what the frames of a branch show: its identity, crop and pixels
    WindowPackages,     \* packages of a window, one plan each (max_pending of the scheduler)
    MaxRows             \* bound: branches of a package

ASSUME BudgetAssumption ==
    /\ MaxTasks \in Nat /\ MaxFrames \in Nat /\ PerTask \in Nat /\ MinFrames \in Nat
    /\ Floor \in Nat /\ MaxRows \in Nat /\ WindowPackages \in Nat
    /\ ForgottenCap \in Nat \ {0}

VARIABLES
    page,           \* _windows: the pages of the ledger
    forgotten,      \* _forgotten, oldest first
    spent,          \* tasks planned and not given back: they cost, or will cost, the model
    plans           \* per window: plans so far
bvars == <<page, forgotten, spent, plans>>

NoPage == [open |-> FALSE, tasks |-> 0, frames |-> 0, byIndex |-> <<>>]

BInit ==
    /\ page = [w \in BudgetWins |-> NoPage]
    /\ forgotten = <<>> /\ spent = {} /\ plans = [w \in BudgetWins |-> 0]
-------------------------------------------------------------------------------
\* _branch_rows: the branches of a package with the frames that can be analysed, none
\* of them if the package has no pixels. Branches of unknown content are all different.
Rows == UNION {[1..n -> [content : Contents, frames : 0..PerTask]] : n \in 1..MaxRows}

\* _group_rows: a branch with the identity, the crop and the content of an earlier one
\* of the same package is merged into it.
IsMerged(rows, i) == \E j \in 1..(i - 1) : rows[j] = rows[i] /\ rows[i].frames > 0

\* _grant_frames: what is left, but less than the minimum only for the first branches.
Granted(need, b) ==
    LET most == Min({need, PerTask, MaxFrames - b.frames})
        floor == Max({1, Min({Floor, MaxTasks})})
    IN IF b.tasks >= MaxTasks \/ (most < MinFrames /\ b.tasks >= floor) THEN 0 ELSE most

\* plan, row by row: a branch is merged, dropped, or kept with the frames it gets. The
\* reservation is noted under the index of the branch in its package.
Reserve(b, i, got) ==
    [open |-> TRUE, tasks |-> b.tasks + 1, frames |-> b.frames + got,
     byIndex |-> [k \in DOMAIN b.byIndex \cup {i} |-> IF k = i THEN got ELSE b.byIndex[k]]]
Planned(rows, i, b) ==
    LET got == Granted(rows[i].frames, b)
    IN IF IsMerged(rows, i) \/ got = 0 THEN b ELSE Reserve(b, i, got)
PlannedPage(rows, b) ==
    LET step[i \in 0..Len(rows)] ==
            IF i = 0 THEN [b EXCEPT !.open = TRUE] ELSE Planned(rows, i, step[i - 1])
    IN step

\* tasks_from_package: a window the ledger has forgotten gets nothing; the branches
\* kept become tasks. The L2 thread cuts one window after the other; a window it has
\* sealed could only come back as a repetition.
PlanPackage(w, rows) ==
    /\ plans[w] < WindowPackages /\ \A v \in BudgetWins \ {w} : ~page[v].open
    /\ plans[w] = 0 \/ page[w].open \/ w \in ToSet(forgotten)
    /\ plans' = [plans EXCEPT ![w] = @ + 1]
    /\ IF w \in ToSet(forgotten) THEN UNCHANGED <<page, spent>>
       ELSE LET step == PlannedPage(rows, page[w])
                kept == {i \in 1..Len(rows) : step[i].tasks > step[i - 1].tasks}
            IN  /\ page' = [page EXCEPT ![w] = step[Len(rows)]]
                /\ spent' = spent \cup
                     {[w |-> w, plan |-> plans[w] + 1, index |-> i,
                       frames |-> step[i].frames - step[i - 1].frames] : i \in kept}
    /\ UNCHANGED forgotten

\* release, for a task that was refused by the queue or driven out of it: what is noted
\* under its index is given back.
ReleaseTask(t) ==
    /\ t \in spent
    /\ spent' = spent \ {t}
    /\ LET b == page[t.w]
       IN  page' = IF ~b.open \/ t.index \notin DOMAIN b.byIndex THEN page
                   ELSE [page EXCEPT ![t.w] =
                            [b EXCEPT !.tasks = IF @ = 0 THEN 0 ELSE @ - 1,
                                      !.frames = IF @ < b.byIndex[t.index] THEN 0
                                                 ELSE @ - b.byIndex[t.index],
                                      !.byIndex = [k \in DOMAIN @ \ {t.index} |-> @[k]]]]
    /\ UNCHANGED <<forgotten, plans>>

\* forget: the window is sealed; its account is kept for a while.
ForgetPage(w) ==
    /\ page[w].open
    /\ page' = [page EXCEPT ![w] = NoPage]
    /\ forgotten' = IF Len(forgotten) < ForgottenCap THEN Append(forgotten, w)
                    ELSE Append(Tail(forgotten), w)
    /\ UNCHANGED <<spent, plans>>

BNext ==
    \/ \E w \in BudgetWins : ForgetPage(w) \/ \E rows \in Rows : PlanPackage(w, rows)
    \/ \E t \in spent : ReleaseTask(t)
BudgetSpec == BInit /\ [][BNext]_bvars
-------------------------------------------------------------------------------
(* Properties *)

Mine(w) == {t \in spent : t.w = w}
FramesOf(tasks) == Cardinality({f \in tasks \X (1..PerTask) : f[2] <= f[1].frames})

BTypeOK ==
    /\ \A w \in BudgetWins : page[w].tasks \in 0..MaxTasks /\ page[w].frames \in 0..MaxFrames
    /\ Len(forgotten) <= ForgottenCap
    /\ plans \in [BudgetWins -> 0..WindowPackages]

\* The tasks of a window that were not given back fit in the budget of the window,
\* tasks and frames, however many packages share it and whatever was given back.
NeverOversold ==
    \A w \in BudgetWins :
        Cardinality(Mine(w)) <= MaxTasks /\ FramesOf(Mine(w)) <= MaxFrames
===============================================================================
