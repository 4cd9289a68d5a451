-------------------------- MODULE EnvironmentBaseline --------------------------
(***************************************************************************)
(* The baseline of a camera's scene (server.py, environment.py, db.py,     *)
(* evidence.py). Administrators ask for one in threads of the server, one  *)
(* attempt at a time: a frame is copied and shown to the model, its file   *)
(* is stored under a name of the attempt, and in one transaction the       *)
(* version is added, the one before superseded and the pointer moved. A    *)
(* failed attempt takes its file back, unless a version names it, and      *)
(* leaves a note. The state is read in two queries, then from the file.    *)
(*                                                                         *)
(* Scenes are numbers. The file of an attempt has the attempt's number.    *)
(***************************************************************************)
EXTENDS Integers, Sequences, FiniteSets

CONSTANTS
    Admins,         \* threads that ask
    MaxScenes,      \* bound: scenes the camera shows, one after another
    MaxAttempts,    \* bound: files of attempts
    MaxBaseFaults   \* bound: restarts, failed calls, files harmed from outside

ASSUME BaselineAssumption ==
    /\ IsFiniteSet(Admins) /\ MaxScenes \in Nat /\ MaxAttempts \in Nat /\ MaxBaseFaults \in Nat

VARIABLES
    onCamera,       \* the monitor's latest frame, 0 for none
    profile,        \* table meta, env: the scene of the profile, 0 for none
    versions,       \* environment_baselines of the camera, oldest first
    pointer,        \* table meta: number of the version in force, 0 for none
    failure,        \* table meta: there is a note of a failure
    scenes,         \* files of attempts: the scene shown, or 0: none, -1: damaged
    attempts,       \* bound and name: attempts that reached their file
    building,       \* _baseline_building has the camera
    jobs,           \* of each administrator: pc, what was asked, scene, file, answer
    status,         \* a reader of the state: pc, version and file read, answer, begun at
    marred,         \* history: files harmed from outside
    stray,          \* history: files of attempts left behind
    unsure,         \* history: files whose commit was done and reported as failed
    baseFaults      \* bound: so far

tablesOfBaselines == <<profile, versions, pointer, failure>>
memoryOfBaselines == <<building, jobs, status>>
historyOfBaselines == <<marred, stray, unsure>>
baselinevars == <<onCamera, tablesOfBaselines, scenes, attempts, memoryOfBaselines,
                  historyOfBaselines, baseFaults>>

JobDone(answer) == [pc |-> "idle", asks |-> "none", scene |-> 0, file |-> 0, answer |-> answer]
NoStatus == [pc |-> "idle", version |-> 0, file |-> 0, answer |-> "none", begun |-> 0]
BaselineInit ==
    /\ onCamera = 0 /\ profile = 0 /\ versions = <<>> /\ pointer = 0 /\ failure = FALSE
    /\ scenes = [t \in 1..MaxAttempts |-> 0] /\ attempts = 0 /\ building = FALSE
    /\ jobs = [a \in Admins |-> JobDone("none")] /\ status = NoStatus
    /\ marred = {} /\ stray = {} /\ unsure = {} /\ baseFaults = 0

BaseFault == baseFaults < MaxBaseFaults /\ baseFaults' = baseFaults + 1
Job(a, j) == jobs' = [jobs EXCEPT ![a] = j]
JobGoes(a, pc) == Job(a, [jobs[a] EXCEPT !.pc = pc])
\* The end of a request, in every case: `finally` releases the camera.
JobAnswers(a, answer) ==
    /\ Job(a, [JobDone(answer) EXCEPT !.file = jobs[a].file])
    /\ building' = (building /\ jobs[a].asks # "baseline")
\* A baseline that fails is noted before it is answered, an analysis is not.
FailsWith(a, answer) ==
    IF jobs[a].asks = "baseline"
    THEN Job(a, [jobs[a] EXCEPT !.pc = "note", !.answer = answer]) /\ UNCHANGED building
    ELSE JobAnswers(a, answer)
-------------------------------------------------------------------------------
\* MUTANT of MayBuild: nobody looks whether one is being built.
MutantMayBuild == TRUE
MayBuild == ~building
AskBaseline(a) ==
    /\ jobs[a].pc = "idle" /\ attempts < MaxAttempts
    /\ IF MayBuild
       THEN building' = TRUE /\ Job(a, [JobDone("none") EXCEPT !.pc = "frame", !.asks = "baseline"])
       ELSE Job(a, JobDone("busy")) /\ UNCHANGED building
    /\ UNCHANGED <<onCamera, tablesOfBaselines, scenes, attempts, status, historyOfBaselines,
                   baseFaults>>
AskProfile(a) ==
    /\ jobs[a].pc = "idle" /\ Job(a, [JobDone("none") EXCEPT !.pc = "frame", !.asks = "profile"])
    /\ UNCHANGED <<onCamera, tablesOfBaselines, scenes, attempts, building, status,
                   historyOfBaselines, baseFaults>>
CopyFrame(a) ==
    /\ jobs[a].pc = "frame"
    /\ IF onCamera = 0 THEN FailsWith(a, "unavailable")
       ELSE Job(a, [jobs[a] EXCEPT !.pc = "model", !.scene = onCamera]) /\ UNCHANGED building
    /\ UNCHANGED <<onCamera, tablesOfBaselines, scenes, attempts, status, historyOfBaselines,
                   baseFaults>>
\* analyze: the profile is stored at once; not confirmed, no answer or no valid one: not.
Analyzed(a) ==
    /\ jobs[a].pc = "model" /\ profile' = jobs[a].scene
    /\ IF jobs[a].asks = "baseline" THEN JobGoes(a, "store") /\ UNCHANGED building
       ELSE JobAnswers(a, "ok")
    /\ UNCHANGED <<onCamera, versions, pointer, failure, scenes, attempts, status,
                   historyOfBaselines, baseFaults>>
NotAnalyzed(a) ==
    /\ jobs[a].pc = "model" /\ FailsWith(a, "refused")
    /\ UNCHANGED <<onCamera, tablesOfBaselines, scenes, attempts, status, historyOfBaselines,
                   baseFaults>>
\* save_scene_frame: a name of its own, never over a file that is there.
StoreScene(a) ==
    /\ jobs[a].pc = "store" /\ attempts < MaxAttempts /\ attempts' = attempts + 1
    /\ scenes' = [scenes EXCEPT ![attempts'] = jobs[a].scene]
    /\ Job(a, [jobs[a] EXCEPT !.pc = "commit", !.file = attempts'])
    /\ UNCHANGED <<onCamera, tablesOfBaselines, building, status, historyOfBaselines, baseFaults>>
\* The profile or the file cannot be stored: raised through, without a note.
Raises(a) ==
    /\ jobs[a].pc \in {"model", "store"} /\ BaseFault /\ JobAnswers(a, "raised")
    /\ UNCHANGED <<onCamera, tablesOfBaselines, scenes, attempts, status, historyOfBaselines>>

\* establish_environment_baseline, in BEGIN IMMEDIATE: nobody moves the pointer meanwhile.
Versioned(a) ==
    /\ versions' = Append([i \in 1..Len(versions) |-> [versions[i] EXCEPT !.valid = FALSE]],
                          [file |-> jobs[a].file, scene |-> jobs[a].scene, valid |-> TRUE])
    /\ pointer' = Len(versions) + 1 /\ failure' = FALSE
Establish(a) ==
    /\ jobs[a].pc = "commit" /\ Versioned(a) /\ JobAnswers(a, "ok")
    /\ UNCHANGED <<onCamera, profile, scenes, attempts, status, historyOfBaselines, baseFaults>>
\* It fails and is rolled back, or the failure is reported of a commit that was done.
EstablishFails(a) ==
    /\ jobs[a].pc = "commit" /\ BaseFault /\ JobGoes(a, "discard")
    /\ \/ UNCHANGED <<versions, pointer, failure, unsure>>
       \/ Versioned(a) /\ unsure' = unsure \cup {jobs[a].file}
    /\ UNCHANGED <<onCamera, profile, scenes, attempts, building, status, marred, stray>>
\* MUTANT of MayDiscard: the name of the attempt is enough.
MutantMayDiscard(t) == TRUE
MayDiscard(t) == \A i \in 1..Len(versions) : versions[i].file # t
Discard(a) ==
    /\ jobs[a].pc = "discard" /\ FailsWith(a, "unavailable")
    /\ scenes' = IF MayDiscard(jobs[a].file) THEN [scenes EXCEPT ![jobs[a].file] = 0] ELSE scenes
    /\ UNCHANGED <<onCamera, tablesOfBaselines, attempts, status, historyOfBaselines, baseFaults>>
\* It cannot be found out whether a version names the file: it stays.
DiscardUnsure(a) ==
    /\ jobs[a].pc = "discard" /\ BaseFault /\ FailsWith(a, "unavailable")
    /\ stray' = stray \cup {jobs[a].file}
    /\ UNCHANGED <<onCamera, tablesOfBaselines, scenes, attempts, status, marred, unsure>>
NoteFailure(a) ==
    /\ jobs[a].pc = "note" /\ failure' = TRUE /\ JobAnswers(a, jobs[a].answer)
    /\ UNCHANGED <<onCamera, profile, versions, pointer, scenes, attempts, status,
                   historyOfBaselines, baseFaults>>
-------------------------------------------------------------------------------
(* environment_baseline: the state, in two queries and a look at the file *)

StatusIs(answer) == status' = [status EXCEPT !.pc = "idle", !.answer = answer]
ReadPointer ==
    /\ status.pc = "idle"
    /\ status' = IF pointer = 0
                 THEN [NoStatus EXCEPT !.answer = IF failure THEN "failed" ELSE "required"]
                 ELSE [NoStatus EXCEPT !.pc = "row", !.version = pointer, !.begun = Len(versions)]
    /\ UNCHANGED <<onCamera, tablesOfBaselines, scenes, attempts, building, jobs,
                   historyOfBaselines, baseFaults>>
ReadVersion ==
    /\ status.pc = "row"
    /\ IF versions[status.version].valid
       THEN status' = [status EXCEPT !.pc = "file", !.file = versions[status.version].file]
       ELSE StatusIs("required")
    /\ UNCHANGED <<onCamera, tablesOfBaselines, scenes, attempts, building, jobs,
                   historyOfBaselines, baseFaults>>
ReadScene ==
    /\ status.pc = "file" /\ StatusIs(IF scenes[status.file] > 0 THEN "ready" ELSE "broken")
    /\ UNCHANGED <<onCamera, tablesOfBaselines, scenes, attempts, building, jobs,
                   historyOfBaselines, baseFaults>>
-------------------------------------------------------------------------------
SceneChanges ==
    /\ onCamera < MaxScenes /\ onCamera' = onCamera + 1
    /\ UNCHANGED <<tablesOfBaselines, scenes, attempts, memoryOfBaselines, historyOfBaselines,
                   baseFaults>>
HarmScene(t, how) ==
    /\ scenes[t] > 0 /\ BaseFault /\ scenes' = [scenes EXCEPT ![t] = how]
    /\ marred' = marred \cup {t}
    /\ UNCHANGED <<onCamera, tablesOfBaselines, attempts, memoryOfBaselines, stray, unsure>>
Restart ==
    /\ BaseFault /\ building' = FALSE /\ jobs' = [a \in Admins |-> JobDone("none")]
    /\ status' = NoStatus
    /\ stray' = stray \cup {jobs[a].file :
                              a \in {b \in Admins : jobs[b].pc \in {"commit", "discard"}}}
    /\ UNCHANGED <<onCamera, tablesOfBaselines, scenes, attempts, marred, unsure>>

BaselineNext ==
    \/ \E a \in Admins :
          \/ AskBaseline(a) \/ AskProfile(a) \/ CopyFrame(a) \/ Analyzed(a) \/ NotAnalyzed(a)
          \/ StoreScene(a) \/ Raises(a) \/ Establish(a) \/ EstablishFails(a)
          \/ Discard(a) \/ DiscardUnsure(a) \/ NoteFailure(a)
    \/ ReadPointer \/ ReadVersion \/ ReadScene \/ SceneChanges \/ Restart
    \/ \E t \in 1..MaxAttempts, how \in {0, -1} : HarmScene(t, how)
BaselineSpec == BaselineInit /\ [][BaselineNext]_baselinevars
-------------------------------------------------------------------------------
BaselineTypeOK ==
    /\ onCamera \in 0..MaxScenes /\ profile \in 0..MaxScenes /\ pointer \in 0..MaxAttempts
    /\ scenes \in [1..MaxAttempts -> -1..MaxScenes] /\ attempts \in 0..MaxAttempts
    /\ \A a \in Admins :
          jobs[a].pc \in {"idle", "frame", "model", "store", "commit", "discard", "note"}
    /\ status.pc \in {"idle", "row", "file"}

\* The last version, and no other, is in force; each keeps the scene it was made of.
VersionsKept ==
    /\ pointer = Len(versions)
    /\ \A i \in 1..Len(versions) :
          /\ versions[i].valid <=> i = pointer
          /\ versions[i].file \in marred \/ scenes[versions[i].file] = versions[i].scene
          /\ \A k \in 1..Len(versions) : versions[k].file = versions[i].file => k = i
\* One attempt at a time; a file without a version is of it, or was left behind.
OneAttempt ==
    /\ \A a, b \in Admins : jobs[a].asks = "baseline" /\ jobs[b].asks = "baseline" => a = b
    /\ \A t \in 1..MaxAttempts : scenes[t] # 0 /\ MayDiscard(t) =>
          t \in stray \/ \E a \in Admins : jobs[a].file = t /\ jobs[a].pc \in {"commit", "discard"}
\* Who was told "ok" has a version; who was told that it failed has none, unless the
\* database said so of a commit that was done. The state is "required" with a version in
\* force, or "broken" with a good file, only if the version changed or the file was harmed.
AnswersTrue ==
    /\ \A a \in Admins : jobs[a].pc = "idle" /\ jobs[a].file # 0 =>
          (jobs[a].answer = "ok" <=> ~MayDiscard(jobs[a].file)) \/ jobs[a].file \in unsure
    /\ status.answer = "required" /\ status.begun # 0 => Len(versions) > status.begun
    /\ status.answer = "broken" => status.file \in marred
BaselinesHonest == VersionsKept /\ OneAttempt /\ AnswersTrue
================================================================================
