--------------------------- MODULE EventTruthProofs ---------------------------
(***************************************************************************)
(* Proofs about EventTruth, for any set of tracks and any bounds: its types *)
(* and ownership first, then its inductive invariant, the safety properties *)
(* and the refinement of EventLedger.                                      *)
(***************************************************************************)
EXTENDS EventTruth, TLAPS, SequenceTheorems

\* The objects, events and tasks the actions name are those of the model.
LEMMA EventObject ==
  \A e \in Events : /\ ObjectOf(e) \in Objects
                    /\ e[1] \in Runs /\ e[2] \in Tracks /\ e[3] \in Occs
                    /\ e = <<e[1], e[2], e[3]>>
  BY DEF Events, Objects, ObjectOf

\* A track of a run has an object row.
LEMMA RunObject == \A r \in Runs, t \in Tracks : <<r, t>> \in Objects
  BY DEF Objects

\* An occurrence of a track of a run is an event with these coordinates.
LEMMA RunEvent ==
  \A r \in Runs, t \in Tracks, o \in Occs :
    LET e == <<r, t, o>>
    IN e \in Events /\ e[1] = r /\ e[2] = t /\ e[3] = o
  BY DEF Events

\* What a call of the camera thread is made of.
LEMMA TaskFields ==
  /\ NoTask.op = "idle"
  /\ \A op, e : Task(op, e).op = op /\ Task(op, e).ev = e
  BY DEF NoTask, Task

\* Calls of the model, and their events, are well typed.
LEMMA TaskType ==
  /\ \A op \in {"fact", "desc", "notif", "update", "close"}, e \in Events :
       Task(op, e) \in Tasks
  /\ \A k \in Tasks : k.ev \in Events /\ k # NoTask
                      /\ k.op \in {"fact", "desc", "notif", "update", "close"}
  BY DEF Task, Tasks, NoTask

\* Whoever has something to do for an event works for an event that has begun:
\* what makes the type invariant inductive.
Numbered ==
  /\ \A t \in Tracks : entry[t] # "none" => up /\ occ[t] \in Occs
  /\ \A e \in Events : pend[e] # "no" \/ On(e) => up /\ occ[e[2]] \in Occs

\* The initial state is well typed: nothing is open, nothing is to be done.
LEMMA TypeInit == Init => TypeOK /\ Numbered
<1> SUFFICES ASSUME Init PROVE TypeOK /\ Numbered
  OBVIOUS
<1>1. StoreTypeOK
  BY BoundsAssumption DEF Init, StoreTypeOK, Times
<1>2. up = FALSE /\ run = 0 /\ now = 0 /\ closing = {} /\ stopping = FALSE
      /\ trk = [t \in Tracks |-> "new"] /\ occ = [t \in Tracks |-> 0]
      /\ entry = [t \in Tracks |-> "none"]
  BY DEF Init
<1>3. run \in 0 .. MaxRuns /\ now \in Times /\ occ \in [Tracks -> 0 .. MaxOcc]
  BY <1>2, BoundsAssumption DEF Times
<1>4. ThreadTypeOK
  BY <1>2, <1>3, Zenon DEF ThreadTypeOK
<1>5. ItemsTypeOK
  BY BoundsAssumption DEF Init, ItemsTypeOK, Times
<1>6. Numbered
  BY TaskFields, TaskType DEF Init, Numbered, On
<1> QED BY <1>1, <1>4, <1>5, <1>6 DEF TypeOK

\* Every action keeps the state well typed.
LEMMA TypeStep == TypeOK /\ Numbered /\ [Next]_vars => (TypeOK /\ Numbered)'
<1> SUFFICES ASSUME StoreTypeOK, ThreadTypeOK, ItemsTypeOK, Numbered, [Next]_vars
             PROVE  TypeOK' /\ Numbered'
  BY DEF TypeOK
<1>1. CASE Boot
  <2>1. StoreTypeOK'
    BY <1>1, EventObject, RunObject, RunEvent, TaskFields, TaskType DEF
       Boot, Stale, StoreTypeOK, ThreadTypeOK, ItemsTypeOK
  <2>2. ThreadTypeOK'
    BY <1>1, BoundsAssumption DEF Boot, Runs, Times, ThreadTypeOK
  <2>3. ItemsTypeOK'
    BY <1>1 DEF Boot, FreshAt, Snapshots, StoreTypeOK, ItemsTypeOK
  <2>4. Numbered'
    BY <1>1, EventObject, RunObject, RunEvent, TaskFields, TaskType DEF
       Boot, Stale, ThreadTypeOK, ItemsTypeOK, Numbered, On
  <2> QED BY <2>1, <2>2, <2>3, <2>4 DEF TypeOK
<1>2. CASE Crash \/ Exit
  <2>1. StoreTypeOK'
    BY <1>2, EventObject, RunObject, RunEvent, TaskFields, TaskType DEF
       Crash, Exit, Forget, StoreTypeOK, ThreadTypeOK, ItemsTypeOK
  <2>2. ThreadTypeOK'
    <3>1. up' = FALSE /\ run' = run /\ now' = now /\ closing' = {}
          /\ stopping' = FALSE /\ trk' = [x \in Tracks |-> "new"]
          /\ occ' = [x \in Tracks |-> 0] /\ entry' = [x \in Tracks |-> "none"]
      BY <1>2 DEF Crash, Exit, Forget
    <3>2. occ' \in [Tracks -> 0 .. MaxOcc]
      BY <3>1, BoundsAssumption
    <3> QED BY <3>1, <3>2, Zenon DEF ThreadTypeOK
  <2>3. ItemsTypeOK'
    BY <1>2, EventObject, RunObject, RunEvent, TaskFields, TaskType DEF
       Crash, Exit, Forget, StoreTypeOK, ThreadTypeOK, ItemsTypeOK
  <2>4. Numbered'
    BY <1>2, EventObject, RunObject, RunEvent, TaskFields, TaskType DEF
       Crash, Exit, Forget, ThreadTypeOK, ItemsTypeOK, Numbered, On
  <2> QED BY <2>1, <2>2, <2>3, <2>4 DEF TypeOK
<1>3. ASSUME NEW r \in Results, FinalizeRecovery(r)
      PROVE  TypeOK' /\ Numbered'
  <2>1. StoreTypeOK'
    BY <1>3, EventObject DEF FinalizeRecovery, OldObjects, StoreTypeOK
  <2>2. ThreadTypeOK'
    BY <1>3, EventObject, RunObject, RunEvent, TaskFields, TaskType DEF
       FinalizeRecovery, ThreadTypeOK, ItemsTypeOK
  <2>3. ItemsTypeOK'
    BY <1>3, EventObject, RunObject, RunEvent, TaskFields, TaskType DEF
       FinalizeRecovery, StoreTypeOK, ThreadTypeOK, ItemsTypeOK
  <2>4. Numbered'
    BY <1>3, EventObject, RunObject, RunEvent, TaskFields, TaskType DEF
       FinalizeRecovery, ThreadTypeOK, ItemsTypeOK, Numbered, On
  <2> QED BY <2>1, <2>2, <2>3, <2>4 DEF TypeOK
<1>4. CASE Tick
  <2>1. StoreTypeOK'
    BY <1>4, EventObject, RunObject, RunEvent, TaskFields, TaskType DEF
       Tick, db, mem, Times, StoreTypeOK, ThreadTypeOK, ItemsTypeOK
  <2>2. ThreadTypeOK'
    BY <1>4, BoundsAssumption DEF Tick, mem, Times, ThreadTypeOK
  <2>3. ItemsTypeOK'
    BY <1>4, EventObject, RunObject, RunEvent, TaskFields, TaskType DEF
       Tick, db, mem, Times, StoreTypeOK, ThreadTypeOK, ItemsTypeOK
  <2>4. Numbered'
    BY <1>4, EventObject, RunObject, RunEvent, TaskFields, TaskType DEF
       Tick, db, mem, Times, ThreadTypeOK, ItemsTypeOK, Numbered, On
  <2> QED BY <2>1, <2>2, <2>3, <2>4 DEF TypeOK
<1>5. ASSUME NEW t \in Tracks, Appear(t)
      PROVE  TypeOK' /\ Numbered'
  <2>1. StoreTypeOK'
    BY <1>5, EventObject, RunObject, RunEvent, TaskFields, TaskType DEF
       Appear, db, StoreTypeOK, ThreadTypeOK, ItemsTypeOK
  <2>2. ThreadTypeOK'
    BY <1>5, EventObject, RunObject, RunEvent, TaskFields, TaskType DEF
       Appear, db, ThreadTypeOK, ItemsTypeOK
  <2>3. ItemsTypeOK'
    BY <1>5, EventObject, RunObject, RunEvent, TaskFields, TaskType DEF
       Appear, db, StoreTypeOK, ThreadTypeOK, ItemsTypeOK
  <2>4. Numbered'
    BY <1>5, EventObject, RunObject, RunEvent, TaskFields, TaskType DEF
       Appear, db, ThreadTypeOK, ItemsTypeOK, Numbered, On
  <2> QED BY <2>1, <2>2, <2>3, <2>4 DEF TypeOK
<1>6. ASSUME NEW t \in Tracks, CloseNext(t)
      PROVE  TypeOK' /\ Numbered'
  <2>1. StoreTypeOK'
    BY <1>6, EventObject, RunObject, RunEvent, TaskFields, TaskType DEF
       CloseNext, EndEvent, EventOf, db, Ready, Idle, StoreTypeOK,
       ThreadTypeOK, ItemsTypeOK
  <2>2. ThreadTypeOK'
    BY <1>6, EventObject, RunObject, RunEvent, TaskFields, TaskType DEF
       CloseNext, EndEvent, EventOf, db, Ready, Idle, ThreadTypeOK,
       ItemsTypeOK
  <2>3. ItemsTypeOK'
    <3>1. entry[t] # "none" => EventOf(t) \in Events
      BY RunEvent DEF ThreadTypeOK, Numbered, EventOf
    <3> QED BY <1>6, <3>1, TaskType DEF CloseNext, EndEvent, ThreadTypeOK, ItemsTypeOK
  <2>4. Numbered'
    BY <1>6, EventObject, RunObject, RunEvent, TaskFields, TaskType DEF
       CloseNext, EndEvent, EventOf, db, Ready, Idle, ThreadTypeOK,
       ItemsTypeOK, Numbered, On
  <2> QED BY <2>1, <2>2, <2>3, <2>4 DEF TypeOK
<1>7. ASSUME NEW t \in Tracks, NEW r \in Results, Observe(t, r)
      PROVE  TypeOK' /\ Numbered'
  <2>1. StoreTypeOK'
    BY <1>7, EventObject, RunObject, RunEvent, TaskFields, TaskType DEF
       Observe, ObserveObject, NextWrite, EntryAfter, Ready, Idle,
       StoreTypeOK, ThreadTypeOK, ItemsTypeOK
  <2>2. ThreadTypeOK'
    BY <1>7, EventObject, RunObject, RunEvent, TaskFields, TaskType DEF
       Observe, ObserveObject, NextWrite, EntryAfter, Ready, Idle,
       ThreadTypeOK, ItemsTypeOK
  <2>3. ItemsTypeOK'
    <3> DEFINE o == IF entry[t] = "none" THEN occ[t] + 1 ELSE occ[t]
               e == <<run, t, o>>
    <3>1. run \in Runs /\ o \in Occs
      BY <1>7, BoundsAssumption
      DEF Observe, Ready, Idle, ThreadTypeOK, Numbered, Occs
    <3>2. e \in Events
      BY <3>1, RunEvent
    <3>3. now \in Times /\ \A b \in 0 .. now : b \in Times
      BY BoundsAssumption DEF ThreadTypeOK, Times
    <3>4. born' = born \/ \E b \in 0 .. now : born' = [born EXCEPT ![e] = b]
      BY <1>7 DEF Observe
    <3>5. born' \in [Events -> Times]
      BY <3>3, <3>4 DEF ItemsTypeOK
    <3>6. last' \in [Events -> Times]
      BY <1>7, <3>3 DEF Observe, ItemsTypeOK
    <3>7. pc' = NoTask \/ pc' = Task("fact", e) \/ pc' = Task("update", e)
      BY <1>7 DEF Observe, NextWrite
    <3>8. pc' \in {NoTask} \cup Tasks
      BY <3>2, <3>7, TaskType
    <3>9. pend' = pend /\ snap' = snap
      BY <1>7 DEF Observe
    <3> QED BY <3>5, <3>6, <3>8, <3>9 DEF ItemsTypeOK
  <2>4. Numbered'
    <3> DEFINE o == IF entry[t] = "none" THEN occ[t] + 1 ELSE occ[t]
               e == <<run, t, o>>
    <3>1. run \in Runs /\ o \in Occs
      BY <1>7, BoundsAssumption
      DEF Observe, Ready, Idle, ThreadTypeOK, Numbered, Occs
    <3>2. e \in Events /\ e[2] = t
      BY <3>1, RunEvent
    <3>3. up' /\ up /\ pend' = pend /\ occ' = [occ EXCEPT ![t] = o]
      BY <1>7 DEF Observe, Ready, Idle
    <3>4. pc' = NoTask \/ pc' = Task("fact", e) \/ pc' = Task("update", e)
      BY <1>7 DEF Observe, NextWrite
    <3>5. \A x \in Tracks : entry'[x] # "none" => x = t \/ entry[x] # "none"
      BY <1>7 DEF Observe, ThreadTypeOK
    <3>6. \A x \in Tracks : occ[x] \in Occs => occ'[x] \in Occs
      BY <3>1, <3>3 DEF ThreadTypeOK
    <3>7. occ'[t] \in Occs
      BY <3>1, <3>3 DEF ThreadTypeOK
    <3>8. \A x \in Tracks : entry'[x] # "none" => up' /\ occ'[x] \in Occs
      BY <3>3, <3>5, <3>6, <3>7 DEF Numbered
    <3>9. ASSUME NEW x \in Events, pend'[x] # "no" \/ On(x)'
          PROVE  up' /\ occ'[x[2]] \in Occs
      BY <3>2, <3>3, <3>4, <3>6, <3>7, <3>9, TaskFields, EventObject
      DEF Numbered, On
    <3> QED BY <3>8, <3>9 DEF Numbered
  <2> QED BY <2>1, <2>2, <2>3, <2>4 DEF TypeOK
<1>8. ASSUME NEW t \in Tracks, NEW r \in Results, TrackLost(t, r)
      PROVE  TypeOK' /\ Numbered'
  <2>1. StoreTypeOK'
    BY <1>8, EventObject, RunObject, RunEvent, TaskFields, TaskType DEF
       TrackLost, EndEvent, EventOf, Ready, Idle, StoreTypeOK,
       ThreadTypeOK, ItemsTypeOK
  <2>2. ThreadTypeOK'
    BY <1>8, EventObject, RunObject, RunEvent, TaskFields, TaskType DEF
       TrackLost, EndEvent, EventOf, Ready, Idle, ThreadTypeOK,
       ItemsTypeOK
  <2>3. ItemsTypeOK'
    <3>1. entry[t] # "none" => EventOf(t) \in Events
      BY RunEvent DEF ThreadTypeOK, Numbered, EventOf
    <3> QED BY <1>8, <3>1, TaskType DEF TrackLost, EndEvent, ThreadTypeOK, ItemsTypeOK
  <2>4. Numbered'
    BY <1>8, EventObject, RunObject, RunEvent, TaskFields, TaskType DEF
       TrackLost, EndEvent, EventOf, Ready, Idle, ThreadTypeOK,
       ItemsTypeOK, Numbered, On
  <2> QED BY <2>1, <2>2, <2>3, <2>4 DEF TypeOK
<1>9. CASE StreamLost
  <2>1. StoreTypeOK'
    BY <1>9, EventObject, RunObject, RunEvent, TaskFields, TaskType DEF
       StreamLost, db, StoreTypeOK, ThreadTypeOK, ItemsTypeOK
  <2>2. ThreadTypeOK'
    BY <1>9, EventObject, RunObject, RunEvent, TaskFields, TaskType DEF
       StreamLost, db, ThreadTypeOK, ItemsTypeOK
  <2>3. ItemsTypeOK'
    BY <1>9, EventObject, RunObject, RunEvent, TaskFields, TaskType DEF
       StreamLost, db, StoreTypeOK, ThreadTypeOK, ItemsTypeOK
  <2>4. Numbered'
    BY <1>9, EventObject, RunObject, RunEvent, TaskFields, TaskType DEF
       StreamLost, db, ThreadTypeOK, ItemsTypeOK, Numbered, On
  <2> QED BY <2>1, <2>2, <2>3, <2>4 DEF TypeOK
<1>10. CASE Stop
  <2>1. StoreTypeOK'
    BY <1>10, EventObject, RunObject, RunEvent, TaskFields, TaskType DEF
       Stop, db, StoreTypeOK, ThreadTypeOK, ItemsTypeOK
  <2>2. ThreadTypeOK'
    BY <1>10, EventObject, RunObject, RunEvent, TaskFields, TaskType DEF
       Stop, db, ThreadTypeOK, ItemsTypeOK
  <2>3. ItemsTypeOK'
    BY <1>10, EventObject, RunObject, RunEvent, TaskFields, TaskType DEF
       Stop, db, StoreTypeOK, ThreadTypeOK, ItemsTypeOK
  <2>4. Numbered'
    BY <1>10, EventObject, RunObject, RunEvent, TaskFields, TaskType DEF
       Stop, db, ThreadTypeOK, ItemsTypeOK, Numbered, On
  <2> QED BY <2>1, <2>2, <2>3, <2>4 DEF TypeOK
<1>11. ASSUME NEW r \in Results, OpenFact(r)
      PROVE  TypeOK' /\ Numbered'
  <2>1. StoreTypeOK'
    BY <1>11, EventObject, RunObject, RunEvent, TaskFields, TaskType DEF
       OpenFact, Later, StoreTypeOK, ThreadTypeOK, ItemsTypeOK
  <2>2. ThreadTypeOK'
    BY <1>11, EventObject, RunObject, RunEvent, TaskFields, TaskType DEF
       OpenFact, Later, ThreadTypeOK, ItemsTypeOK
  <2>3. ItemsTypeOK'
    BY <1>11, EventObject, RunObject, RunEvent, TaskFields, TaskType DEF
       OpenFact, Later, StoreTypeOK, ThreadTypeOK, ItemsTypeOK
  <2>4. Numbered'
    BY <1>11, EventObject, RunObject, RunEvent, TaskFields, TaskType DEF
       OpenFact, Later, ThreadTypeOK, ItemsTypeOK, Numbered, On
  <2> QED BY <2>1, <2>2, <2>3, <2>4 DEF TypeOK
<1>12. ASSUME NEW r \in Results, EnsureInitialDescription(r)
      PROVE  TypeOK' /\ Numbered'
  <2>1. StoreTypeOK'
    BY <1>12, EventObject, RunObject, RunEvent, TaskFields, TaskType DEF
       EnsureInitialDescription, WithInitialDescription, StoreTypeOK,
       ThreadTypeOK, ItemsTypeOK
  <2>2. ThreadTypeOK'
    BY <1>12, EventObject, RunObject, RunEvent, TaskFields, TaskType DEF
       EnsureInitialDescription, WithInitialDescription, ThreadTypeOK,
       ItemsTypeOK
  <2>3. ItemsTypeOK'
    BY <1>12, EventObject, RunObject, RunEvent, TaskFields, TaskType DEF
       EnsureInitialDescription, WithInitialDescription, StoreTypeOK,
       ThreadTypeOK, ItemsTypeOK
  <2>4. Numbered'
    BY <1>12, EventObject, RunObject, RunEvent, TaskFields, TaskType DEF
       EnsureInitialDescription, WithInitialDescription, ThreadTypeOK,
       ItemsTypeOK, Numbered, On
  <2> QED BY <2>1, <2>2, <2>3, <2>4 DEF TypeOK
<1>13. ASSUME NEW r \in Results, EnsureInitialNotification(r)
      PROVE  TypeOK' /\ Numbered'
  <2>1. StoreTypeOK'
    BY <1>13, EventObject, RunObject, RunEvent, TaskFields, TaskType DEF
       EnsureInitialNotification, WithInitialNotification, ItemOpened,
       StoreTypeOK, ThreadTypeOK, ItemsTypeOK
  <2>2. ThreadTypeOK'
    BY <1>13, EventObject, RunObject, RunEvent, TaskFields, TaskType DEF
       EnsureInitialNotification, WithInitialNotification, ItemOpened,
       ThreadTypeOK, ItemsTypeOK
  <2>3. ItemsTypeOK'
    <3>1. pc.ev \in Events
      BY <1>13, TaskFields, TaskType DEF EnsureInitialNotification, ItemsTypeOK
    <3>2. ItemOpened(pend[pc.ev]) \in {"no", "object", "open", "update", "close"}
      BY <3>1 DEF ItemOpened, ItemsTypeOK
    <3> QED BY <1>13, <3>1, <3>2, TaskType DEF EnsureInitialNotification, ItemsTypeOK
  <2>4. Numbered'
    BY <1>13, EventObject, RunObject, RunEvent, TaskFields, TaskType DEF
       EnsureInitialNotification, WithInitialNotification, ItemOpened,
       ThreadTypeOK, ItemsTypeOK, Numbered, On
  <2> QED BY <2>1, <2>2, <2>3, <2>4 DEF TypeOK
<1>14. ASSUME NEW r \in Results, UpdateFact(r)
      PROVE  TypeOK' /\ Numbered'
  <2>1. StoreTypeOK'
    BY <1>14, EventObject, RunObject, RunEvent, TaskFields, TaskType DEF
       UpdateFact, EntryOnUpdate, Later, StoreTypeOK, ThreadTypeOK,
       ItemsTypeOK
  <2>2. ThreadTypeOK'
    <3>1. pc.ev \in Events /\ pc.ev[2] \in Tracks
      BY <1>14, TaskFields, TaskType, EventObject DEF UpdateFact, ItemsTypeOK
    <3>2. \A good : EntryOnUpdate(good) \in {"pending-open", "open"}
      BY DEF EntryOnUpdate
    <3>3. entry' \in [Tracks -> {"none", "pending-object", "pending-open", "open"}]
      BY <1>14, <3>1, <3>2 DEF UpdateFact, ThreadTypeOK
    <3> QED BY <1>14, <3>3 DEF UpdateFact, ThreadTypeOK
  <2>3. ItemsTypeOK'
    <3>1. pend' = pend \/ pend' = [pend EXCEPT ![pc.ev] = "close"]
      BY <1>14 DEF UpdateFact
    <3>2. pc' = NoTask /\ born' = born /\ last' = last /\ snap' = snap
      BY <1>14 DEF UpdateFact
    <3> QED BY <3>1, <3>2 DEF ItemsTypeOK
  <2>4. Numbered'
    BY <1>14, EventObject, RunObject, RunEvent, TaskFields, TaskType DEF
       UpdateFact, EntryOnUpdate, Later, ThreadTypeOK, ItemsTypeOK,
       Numbered, On
  <2> QED BY <2>1, <2>2, <2>3, <2>4 DEF TypeOK
<1>15. ASSUME NEW r \in Results, CloseFact(r)
      PROVE  TypeOK' /\ Numbered'
  <2>1. StoreTypeOK'
    BY <1>15, EventObject, RunObject, RunEvent, TaskFields, TaskType DEF
       CloseFact, ItemOnClose, StoreTypeOK, ThreadTypeOK, ItemsTypeOK
  <2>2. ThreadTypeOK'
    BY <1>15, EventObject, RunObject, RunEvent, TaskFields, TaskType DEF
       CloseFact, ItemOnClose, ThreadTypeOK, ItemsTypeOK
  <2>3. ItemsTypeOK'
    BY <1>15, EventObject, RunObject, RunEvent, TaskFields, TaskType DEF
       CloseFact, ItemOnClose, StoreTypeOK, ThreadTypeOK, ItemsTypeOK
  <2>4. Numbered'
    BY <1>15, EventObject, RunObject, RunEvent, TaskFields, TaskType DEF
       CloseFact, ItemOnClose, ThreadTypeOK, ItemsTypeOK, Numbered, On
  <2> QED BY <2>1, <2>2, <2>3, <2>4 DEF TypeOK
<1>16. ASSUME NEW e \in Events, RetryEvent(e)
      PROVE  TypeOK' /\ Numbered'
  <2>1. StoreTypeOK'
    BY <1>16, EventObject, RunObject, RunEvent, TaskFields, TaskType DEF
       RetryEvent, EventStage, db, StoreTypeOK, ThreadTypeOK, ItemsTypeOK
  <2>2. ThreadTypeOK'
    BY <1>16, EventObject, RunObject, RunEvent, TaskFields, TaskType DEF
       RetryEvent, EventStage, db, ThreadTypeOK, ItemsTypeOK
  <2>3. ItemsTypeOK'
    BY <1>16, EventObject, RunObject, RunEvent, TaskFields, TaskType DEF
       RetryEvent, EventStage, db, StoreTypeOK, ThreadTypeOK, ItemsTypeOK
  <2>4. Numbered'
    BY <1>16, EventObject, RunObject, RunEvent, TaskFields, TaskType DEF
       RetryEvent, EventStage, db, ThreadTypeOK, ItemsTypeOK, Numbered, On
  <2> QED BY <2>1, <2>2, <2>3, <2>4 DEF TypeOK
<1>17. ASSUME NEW e \in Events, NEW r \in Results, RetryObserve(e, r)
      PROVE  TypeOK' /\ Numbered'
  <2>1. StoreTypeOK'
    BY <1>17, EventObject, RunObject, RunEvent, TaskFields, TaskType DEF
       RetryObserve, ObserveObject, mem, StoreTypeOK, ThreadTypeOK,
       ItemsTypeOK
  <2>2. ThreadTypeOK'
    BY <1>17, EventObject, RunObject, RunEvent, TaskFields, TaskType DEF
       RetryObserve, ObserveObject, mem, ThreadTypeOK, ItemsTypeOK
  <2>3. ItemsTypeOK'
    BY <1>17, EventObject, RunObject, RunEvent, TaskFields, TaskType DEF
       RetryObserve, ObserveObject, mem, StoreTypeOK, ThreadTypeOK,
       ItemsTypeOK
  <2>4. Numbered'
    BY <1>17, EventObject, RunObject, RunEvent, TaskFields, TaskType DEF
       RetryObserve, ObserveObject, mem, ThreadTypeOK, ItemsTypeOK,
       Numbered, On
  <2> QED BY <2>1, <2>2, <2>3, <2>4 DEF TypeOK
<1>18. ASSUME NEW e \in Events, NEW r \in Results, RetryObject(e, r)
      PROVE  TypeOK' /\ Numbered'
  <2>1. StoreTypeOK'
    BY <1>18, EventObject, RunObject, RunEvent, TaskFields, TaskType DEF
       RetryObject, StoreTypeOK, ThreadTypeOK, ItemsTypeOK
  <2>2. ThreadTypeOK'
    BY <1>18, EventObject, RunObject, RunEvent, TaskFields, TaskType DEF
       RetryObject, ThreadTypeOK, ItemsTypeOK
  <2>3. ItemsTypeOK'
    BY <1>18, EventObject, RunObject, RunEvent, TaskFields, TaskType DEF
       RetryObject, StoreTypeOK, ThreadTypeOK, ItemsTypeOK
  <2>4. Numbered'
    BY <1>18, EventObject, RunObject, RunEvent, TaskFields, TaskType DEF
       RetryObject, ThreadTypeOK, ItemsTypeOK, Numbered, On
  <2> QED BY <2>1, <2>2, <2>3, <2>4 DEF TypeOK
<1>19. ASSUME NEW e \in Events, BackfillDescription(e)
      PROVE  TypeOK' /\ Numbered'
  <2>1. StoreTypeOK'
    BY <1>19, EventObject, RunObject, RunEvent, TaskFields, TaskType DEF
       BackfillDescription, WithInitialDescription, mem, StoreTypeOK,
       ThreadTypeOK, ItemsTypeOK
  <2>2. ThreadTypeOK'
    BY <1>19, EventObject, RunObject, RunEvent, TaskFields, TaskType DEF
       BackfillDescription, WithInitialDescription, mem, ThreadTypeOK,
       ItemsTypeOK
  <2>3. ItemsTypeOK'
    BY <1>19, EventObject, RunObject, RunEvent, TaskFields, TaskType DEF
       BackfillDescription, WithInitialDescription, mem, StoreTypeOK,
       ThreadTypeOK, ItemsTypeOK
  <2>4. Numbered'
    BY <1>19, EventObject, RunObject, RunEvent, TaskFields, TaskType DEF
       BackfillDescription, WithInitialDescription, mem, ThreadTypeOK,
       ItemsTypeOK, Numbered, On
  <2> QED BY <2>1, <2>2, <2>3, <2>4 DEF TypeOK
<1>20. ASSUME NEW e \in Events, BackfillNotification(e)
      PROVE  TypeOK' /\ Numbered'
  <2>1. StoreTypeOK'
    BY <1>20, EventObject, RunObject, RunEvent, TaskFields, TaskType DEF
       BackfillNotification, WithInitialNotification, mem, StoreTypeOK,
       ThreadTypeOK, ItemsTypeOK
  <2>2. ThreadTypeOK'
    BY <1>20, EventObject, RunObject, RunEvent, TaskFields, TaskType DEF
       BackfillNotification, WithInitialNotification, mem, ThreadTypeOK,
       ItemsTypeOK
  <2>3. ItemsTypeOK'
    BY <1>20, EventObject, RunObject, RunEvent, TaskFields, TaskType DEF
       BackfillNotification, WithInitialNotification, mem, StoreTypeOK,
       ThreadTypeOK, ItemsTypeOK
  <2>4. Numbered'
    BY <1>20, EventObject, RunObject, RunEvent, TaskFields, TaskType DEF
       BackfillNotification, WithInitialNotification, mem, ThreadTypeOK,
       ItemsTypeOK, Numbered, On
  <2> QED BY <2>1, <2>2, <2>3, <2>4 DEF TypeOK
<1>21. ASSUME NEW e \in Events, PublishSemanticUpdate(e)
      PROVE  TypeOK' /\ Numbered'
  <2>1. StoreTypeOK'
    BY <1>21, EventObject, RunObject, RunEvent, TaskFields, TaskType DEF
       PublishSemanticUpdate, mem, StoreTypeOK, ThreadTypeOK, ItemsTypeOK
  <2>2. ThreadTypeOK'
    BY <1>21, EventObject, RunObject, RunEvent, TaskFields, TaskType DEF
       PublishSemanticUpdate, mem, ThreadTypeOK, ItemsTypeOK
  <2>3. ItemsTypeOK'
    BY <1>21, EventObject, RunObject, RunEvent, TaskFields, TaskType DEF
       PublishSemanticUpdate, mem, StoreTypeOK, ThreadTypeOK, ItemsTypeOK
  <2>4. Numbered'
    BY <1>21, EventObject, RunObject, RunEvent, TaskFields, TaskType DEF
       PublishSemanticUpdate, mem, ThreadTypeOK, ItemsTypeOK, Numbered, On
  <2> QED BY <2>1, <2>2, <2>3, <2>4 DEF TypeOK
<1>22. ASSUME NEW e \in Events, MarkAvailable(e)
      PROVE  TypeOK' /\ Numbered'
  <2>1. StoreTypeOK'
    BY <1>22, EventObject, RunObject, RunEvent, TaskFields, TaskType DEF
       MarkAvailable, mem, StoreTypeOK, ThreadTypeOK, ItemsTypeOK
  <2>2. ThreadTypeOK'
    BY <1>22, EventObject, RunObject, RunEvent, TaskFields, TaskType DEF
       MarkAvailable, mem, ThreadTypeOK, ItemsTypeOK
  <2>3. ItemsTypeOK'
    BY <1>22, EventObject, RunObject, RunEvent, TaskFields, TaskType DEF
       MarkAvailable, mem, StoreTypeOK, ThreadTypeOK, ItemsTypeOK
  <2>4. Numbered'
    BY <1>22, EventObject, RunObject, RunEvent, TaskFields, TaskType DEF
       MarkAvailable, mem, ThreadTypeOK, ItemsTypeOK, Numbered, On
  <2> QED BY <2>1, <2>2, <2>3, <2>4 DEF TypeOK
<1>23. ASSUME NEW e \in Events, Acknowledge(e)
      PROVE  TypeOK' /\ Numbered'
  <2>1. StoreTypeOK'
    BY <1>23, EventObject, RunObject, RunEvent, TaskFields, TaskType DEF
       Acknowledge, mem, StoreTypeOK, ThreadTypeOK, ItemsTypeOK
  <2>2. ThreadTypeOK'
    BY <1>23, EventObject, RunObject, RunEvent, TaskFields, TaskType DEF
       Acknowledge, mem, ThreadTypeOK, ItemsTypeOK
  <2>3. ItemsTypeOK'
    BY <1>23, EventObject, RunObject, RunEvent, TaskFields, TaskType DEF
       Acknowledge, mem, StoreTypeOK, ThreadTypeOK, ItemsTypeOK
  <2>4. Numbered'
    BY <1>23, EventObject, RunObject, RunEvent, TaskFields, TaskType DEF
       Acknowledge, mem, ThreadTypeOK, ItemsTypeOK, Numbered, On
  <2> QED BY <2>1, <2>2, <2>3, <2>4 DEF TypeOK
<1>24. CASE UNCHANGED vars
  <2>1. StoreTypeOK'
    BY <1>24, EventObject, RunObject, RunEvent, TaskFields, TaskType DEF
       vars, StoreTypeOK, ThreadTypeOK, ItemsTypeOK
  <2>2. ThreadTypeOK'
    BY <1>24, EventObject, RunObject, RunEvent, TaskFields, TaskType DEF
       vars, ThreadTypeOK, ItemsTypeOK
  <2>3. ItemsTypeOK'
    BY <1>24, EventObject, RunObject, RunEvent, TaskFields, TaskType DEF
       vars, StoreTypeOK, ThreadTypeOK, ItemsTypeOK
  <2>4. Numbered'
    BY <1>24 DEF vars, Numbered, On
  <2> QED BY <2>1, <2>2, <2>3, <2>4 DEF TypeOK
<1> QED
  BY <1>1, <1>2, <1>3, <1>4, <1>5, <1>6, <1>7, <1>8, <1>9, <1>10, <1>11,
     <1>12, <1>13, <1>14, <1>15, <1>16, <1>17, <1>18, <1>19, <1>20, <1>21,
     <1>22, <1>23, <1>24 DEF Next, Process, Frame, Call, CallWith, Retry,
     Others

\* The type invariant: no step of the camera thread, of recovery or of another
\* connection leaves a row, an entry or an item in a state it does not have.
THEOREM TypeCorrect == Spec => []TypeOK
<1>1. Spec => [](TypeOK /\ Numbered)
  BY TypeInit, TypeStep, PTL DEF Spec
<1> QED BY <1>1, PTL
-------------------------------------------------------------------------------
(***************************************************************************)
(* The safety properties of EventTruth, proved from one inductive          *)
(* invariant, and its refinement of EventLedger, for any set of tracks and *)
(* any bounds.                                                             *)
(***************************************************************************)

(***************************************************************************)
(* The inductive invariant, one event at a time.                           *)
(***************************************************************************)
\* somebody has still something to do for e
Busy(e) == pend[e] # "no" \/ On(e)
NotBegun(e) == e[1] > run \/ (up /\ e[1] = run /\ e[3] > occ[e[2]])
\* the entry of e, or its item, is where the row is written from
Writing(e) == (Current(e) /\ entry[e[2]] = "pending-open") \/ pend[e] = "open"

\* between two runs nothing is in memory
Empty ==
    ~up => /\ \A t \in Tracks : entry[t] = "none" /\ occ[t] = 0
           /\ \A e \in Events : pend[e] = "no"
           /\ pc = NoTask /\ snap = {}

Begun(e) ==
    /\ Busy(e) => Seen(e)
    /\ NotBegun(e) => fact[e] = "none"

Clocks(e) ==
    /\ born[e] <= last[e] /\ last[e] <= now
    /\ fact[e] # "none" => born[e] <= tLast[e] /\ tLast[e] <= last[e]
    /\ fact[e] = "none" => tLast[e] = 0

Ends(e) ==
    /\ fact[e] = "closed" => tEnd[e] = last[e]
    /\ fact[e] = "recovered" => tEnd[e] = tLast[e] /\ e[1] < run
    /\ \A x \in Times : <<e, x>> \in snap => e[1] < run

CurrentRow(e) ==
    up /\ Current(e) =>
      /\ pend[e] = "no"
      /\ fact[e] \in {"none", "open"}
      /\ entry[e[2]] # "pending-object" => obj[ObjectOf(e)] # "none"
      /\ entry[e[2]] = "open" =>
           /\ fact[e] = "open" /\ Paired(e)
           /\ tLast[e] = last[e] \/ pc = Task("update", e)

CallRow(e) ==
    On(e) =>
      /\ pc.op \in {"fact", "desc", "notif"} => Writing(e)
      /\ pc.op = "fact" => obj[ObjectOf(e)] # "none" /\ fact[e] \in {"none", "open"}
      /\ pc.op \in {"desc", "notif", "update"} => fact[e] = "open"
      /\ pc.op = "notif" => desc[e] # <<>>
      /\ pc.op = "update" =>
           /\ Paired(e)
           /\ (Current(e) /\ entry[e[2]] # "pending-object") \/ pend[e] = "update"
      /\ pc.op = "close" =>
           /\ Paired(e) /\ ~Current(e)
           /\ \/ pend[e] = "close"
              \/ pend[e] = "no" /\ fact[e] = "open" /\ tLast[e] = last[e]

ItemRow(e) ==
    /\ pend[e] # "no" => ~Current(e)
    /\ pend[e] \in {"object", "open"} => fact[e] \in {"none", "open"}
    /\ pend[e] = "open" => obj[ObjectOf(e)] # "none"
    /\ pend[e] = "update" => fact[e] = "open" /\ Paired(e)
    /\ pend[e] = "close" =>
         /\ Paired(e)
         /\ fact[e] = "closed" \/ (fact[e] = "open" /\ tLast[e] = last[e])

EndedRow(e) == Ended(e) /\ ~Busy(e) => fact[e] = "closed" /\ Paired(e)

Row(e) ==
    /\ Begun(e) /\ Clocks(e) /\ Ends(e)
    /\ CurrentRow(e) /\ CallRow(e) /\ ItemRow(e) /\ EndedRow(e)

Inv == Empty /\ \A e \in Events : Row(e)

(***************************************************************************)
(* What keeps the invariant of an event a step does not work for.          *)
(***************************************************************************)
\* The step leaves e, its entry, its item and its call alone.
SameRow(e) ==
    /\ up' = up /\ run' = run /\ now <= now'
    /\ fact'[e] = fact[e] /\ tLast'[e] = tLast[e] /\ tEnd'[e] = tEnd[e]
    /\ born'[e] = born[e] /\ last'[e] = last[e] /\ pend'[e] = pend[e]
    /\ obj[ObjectOf(e)] # "none" => obj'[ObjectOf(e)] # "none"
    /\ desc[e] # <<>> => desc'[e] # <<>>
    /\ notif[e] # "none" => notif'[e] # "none"
    /\ snap' \subseteq snap
SameRole(e) ==
    /\ Seen(e)' <=> Seen(e)
    /\ NotBegun(e)' => NotBegun(e)
    /\ Current(e)' <=> Current(e)
    /\ Current(e) => entry'[e[2]] = entry[e[2]]
    /\ \/ pc' = pc
       \/ ~On(e) /\ ~On(e)'

\* A row whose own state did not move keeps its invariant.
LEMMA RowFrame ==
  ASSUME NEW e \in Events, TypeOK, TypeOK', Row(e), SameRow(e), SameRole(e)
  PROVE  Row(e)'
<1>1. (On(e)' <=> On(e)) /\ (Busy(e)' <=> Busy(e)) /\ (Ended(e)' <=> Ended(e))
      /\ (Writing(e) => Writing(e)') /\ (Paired(e) => Paired(e)')
      /\ (On(e) => pc' = pc)
  BY DEF SameRow, SameRole, On, Busy, Ended, Writing, Paired
<1>2. pc = Task("update", e) => On(e)
  BY TaskType, TaskFields DEF On
<1>3. Begun(e)' /\ EndedRow(e)'
  BY <1>1 DEF Row, Begun, EndedRow, SameRow, SameRole
<1>4. Clocks(e)'
  BY DEF Row, Clocks, SameRow, TypeOK, ThreadTypeOK, ItemsTypeOK, StoreTypeOK, Times
<1>5. Ends(e)'
  BY DEF Row, Ends, SameRow
<1>6. CurrentRow(e)'
  BY <1>1, <1>2 DEF Row, CurrentRow, SameRow, SameRole
<1>7. CallRow(e)'
  BY <1>1 DEF Row, CallRow, SameRow, SameRole
<1>8. ItemRow(e)'
  BY <1>1 DEF Row, ItemRow, SameRow, SameRole
<1> QED BY <1>3, <1>4, <1>5, <1>6, <1>7, <1>8 DEF Row

\* The values of an event's fields, without the functions they come from.
LEMMA Typed ==
  ASSUME TypeOK, NEW e \in Events
  PROVE  /\ tLast[e] \in Nat /\ tLast[e] \in Times /\ tEnd[e] \in Nat
         /\ born[e] \in Nat /\ last[e] \in Nat /\ now \in Nat
         /\ run \in Nat /\ e[1] \in Nat /\ e[3] \in Nat /\ e[2] \in Tracks
         /\ occ[e[2]] \in Nat
         /\ ObjectOf(e) \in Objects
  BY EventObject, BoundsAssumption
  DEF TypeOK, StoreTypeOK, ThreadTypeOK, ItemsTypeOK, Times, Runs, Occs

\* An event of this run that has begun is in no snapshot of the recovery.
LEMMA SeenFacts ==
  ASSUME TypeOK, Inv, NEW e \in Events, Seen(e)
  PROVE  /\ ~NotBegun(e) /\ up /\ e[1] = run
         /\ \A x \in Times : <<e, x>> \notin snap
         /\ fact[e] # "recovered"
  BY Typed DEF Seen, NotBegun, Inv, Row, Ends

(***************************************************************************)
(* Every step keeps the invariant.                                         *)
(***************************************************************************)
LEMMA InvInit == Init => Inv
<1> SUFFICES ASSUME Init PROVE Inv
  OBVIOUS
<1>1. Empty
  BY DEF Init, Empty
<1>2. ASSUME NEW e \in Events PROVE Row(e)
  <2>1. ~On(e) /\ pend[e] = "no" /\ fact[e] = "none" /\ up = FALSE
    BY DEF Init, On
  <2>2. Clocks(e) /\ tLast[e] = 0 /\ snap = {}
    BY DEF Init, Clocks
  <2> QED BY <2>1, <2>2 DEF Row, Begun, Ends, CurrentRow, CallRow, ItemRow,
             EndedRow, Busy, Ended, Seen
<1> QED BY <1>1, <1>2 DEF Inv

\* Steps that no event is written by: the clock, the tracker, the beginning of
\* a loop of closings, an object row, a description or a receipt more.
LEMMA QuietStep ==
  ASSUME TypeOK, TypeOK', Inv,
         UNCHANGED <<fact, tLast, tEnd, up, run, occ, entry, born, last, pend,
                     pc, snap>>,
         now <= now',
         \A o \in Objects : obj[o] # "none" => obj'[o] # "none",
         \A e \in Events : /\ desc[e] # <<>> => desc'[e] # <<>>
                           /\ notif[e] # "none" => notif'[e] # "none"
  PROVE  Inv'
<1>1. Empty'
  BY DEF Inv, Empty
<1>2. ASSUME NEW e \in Events PROVE Row(e)'
  <2>1. SameRow(e)
    BY EventObject DEF SameRow
  <2>2. SameRole(e)
    BY DEF SameRole, Seen, NotBegun, Current
  <2> QED BY <2>1, <2>2, RowFrame DEF Inv
<1> QED BY <1>1, <1>2 DEF Inv

\* The steps of other connections, the clock and the tracker disturb no row.
LEMMA InvQuiet ==
  ASSUME TypeOK, TypeOK', Inv,
         \/ Tick \/ StreamLost \/ Stop \/ UNCHANGED vars
         \/ \E t \in Tracks : Appear(t)
         \/ Others
         \/ \E e \in Events, r \in Results : RetryObserve(e, r)
  PROVE  Inv'
<1>1. UNCHANGED <<fact, tLast, tEnd, up, run, occ, entry, born, last, pend, pc,
                  snap>>
  BY DEF Tick, StreamLost, Stop, vars, Appear, Others, BackfillDescription,
         BackfillNotification, PublishSemanticUpdate, MarkAvailable,
         Acknowledge, RetryObserve, db, mem
<1>2. now <= now'
  BY DEF Tick, StreamLost, Stop, vars, Appear, Others, BackfillDescription,
         BackfillNotification, PublishSemanticUpdate, MarkAvailable,
         Acknowledge, RetryObserve, db, mem, TypeOK, ThreadTypeOK, Times
<1>3. ASSUME NEW o \in Objects, obj[o] # "none" PROVE obj'[o] # "none"
  BY <1>3, EventObject DEF Tick, StreamLost, Stop, vars, Appear, Others,
         BackfillDescription, BackfillNotification, PublishSemanticUpdate,
         MarkAvailable, Acknowledge, RetryObserve, ObserveObject, db, mem,
         TypeOK, StoreTypeOK
<1>4. ASSUME NEW e \in Events
      PROVE  /\ desc[e] # <<>> => desc'[e] # <<>>
             /\ notif[e] # "none" => notif'[e] # "none"
  <2>1. CASE \E k \in Events : BackfillDescription(k)
    BY <2>1 DEF BackfillDescription, WithInitialDescription, TypeOK, StoreTypeOK
  <2>2. CASE \E k \in Events : BackfillNotification(k)
    BY <2>2 DEF BackfillNotification, WithInitialNotification, TypeOK, StoreTypeOK
  <2>3. ASSUME NEW k \in Events, PublishSemanticUpdate(k)
        PROVE  /\ desc[e] # <<>> => desc'[e] # <<>>
               /\ notif[e] # "none" => notif'[e] # "none"
    <3>1. Append(desc[k], "vlm") # <<>>
      <4>1. desc[k] \in Seq({"initial_observation", "vlm"})
        BY DEF TypeOK, StoreTypeOK
      <4> QED BY <4>1, AppendProperties
    <3> QED BY <2>3, <3>1 DEF PublishSemanticUpdate, TypeOK, StoreTypeOK
  <2>4. CASE \E k \in Events : MarkAvailable(k) \/ Acknowledge(k)
    BY <2>4 DEF MarkAvailable, Acknowledge, TypeOK, StoreTypeOK
  <2>5. CASE ~Others
    BY <2>5 DEF Tick, StreamLost, Stop, vars, Appear, RetryObserve, db, mem
  <2> QED BY <2>1, <2>2, <2>3, <2>4, <2>5 DEF Others
<1> QED BY <1>1, <1>2, <1>3, <1>4, QuietStep

\* Boot: every row of an earlier run keeps its interval, none is of this run.
LEMMA InvBoot ==
  ASSUME TypeOK, TypeOK', Inv, Boot
  PROVE  Inv'
<1>1. Empty'
  BY DEF Boot, Empty
<1>2. ASSUME NEW e \in Events PROVE Row(e)'
  <2>1. ~On(e) /\ pc' = pc /\ ~On(e)' /\ pend'[e] = "no" /\ entry'[e[2]] = "none"
    BY EventObject DEF Boot, Inv, Empty, On
  <2>2. occ'[e[2]] = 0 /\ e[3] \in Nat \ {0}
    BY EventObject DEF Boot, Inv, Empty, Occs
  <2>3. ~Seen(e)' /\ ~Busy(e)' /\ ~Current(e)' /\ ~Ended(e)'
    BY <2>1, <2>2 DEF Seen, Busy, Current, Ended
  <2>4. run' = run + 1 /\ run \in Nat /\ e[1] \in Nat
    BY EventObject, BoundsAssumption DEF Boot, TypeOK, ThreadTypeOK, Runs
  <2>5. /\ tLast' = tLast /\ born' = born /\ last' = last
        /\ fact'[e] = IF Stale(e) THEN "recovered" ELSE fact[e]
        /\ tEnd'[e] = IF Stale(e) THEN tLast[e] ELSE tEnd[e]
    BY DEF Boot
  <2>6. e[1] >= run' => fact[e] = "none"
    BY <2>4 DEF Inv, Row, Begun, NotBegun
  <2>7. Begun(e)'
    BY <2>3, <2>4, <2>5, <2>6 DEF Begun, NotBegun, Boot, Stale
  <2>8. Clocks(e)'
    <3>1. now' >= now /\ now \in Nat /\ now' \in Nat /\ last[e] \in Nat
      BY Typed, BoundsAssumption DEF Boot
    <3> QED BY <2>5, <3>1 DEF Inv, Row, Clocks, Stale
  <2>9. Ends(e)'
    <3>1. \A x : <<e, x>> \in snap' => fact[e] = "open"
      BY DEF Boot, FreshAt
    <3> QED BY <2>4, <2>5, <2>6, <3>1 DEF Inv, Row, Ends, Stale
  <2> QED BY <2>1, <2>3, <2>7, <2>8, <2>9 DEF Row, CurrentRow, CallRow, ItemRow,
            EndedRow
<1> QED BY <1>1, <1>2 DEF Inv

\* Crash and Exit: the memory is gone, the rows are as they were.
LEMMA InvForget ==
  ASSUME TypeOK, TypeOK', Inv, up, Forget
  PROVE  Inv'
<1>1. Empty'
  BY DEF Forget, Empty
<1>2. ASSUME NEW e \in Events PROVE Row(e)'
  <2>1. ~On(e)' /\ pend'[e] = "no" /\ up' = FALSE
    BY DEF Forget, On
  <2>2. fact' = fact /\ tLast' = tLast /\ tEnd' = tEnd /\ born' = born
        /\ last' = last /\ now' = now /\ run' = run /\ snap' = {}
    BY DEF Forget
  <2>3. Begun(e)' /\ Clocks(e)' /\ Ends(e)'
    BY <2>1, <2>2 DEF Inv, Row, Begun, Clocks, Ends, NotBegun, Busy
  <2> QED BY <2>1, <2>3 DEF Row, CurrentRow, CallRow, ItemRow, EndedRow, Ended,
             Seen
<1> QED BY <1>1, <1>2 DEF Inv

\* The delayed recovery only ends rows of earlier runs.
LEMMA InvFinalizeRecovery ==
  ASSUME TypeOK, TypeOK', Inv, NEW r \in Results, FinalizeRecovery(r)
  PROVE  Inv'
<1>1. Empty'
  BY DEF FinalizeRecovery, Empty
<1>2. ASSUME NEW e \in Events PROVE Row(e)'
  <2>1. SameRole(e)
    BY DEF FinalizeRecovery, SameRole, Seen, NotBegun, Current
  <2>2. obj[ObjectOf(e)] # "none" => obj'[ObjectOf(e)] # "none"
    BY EventObject DEF FinalizeRecovery, OldObjects
  <2>3. CASE ~(Wrote(r) /\ Unmoved(e))
    <3>1. SameRow(e)
      BY <2>2, <2>3 DEF FinalizeRecovery, SameRow, TypeOK, ThreadTypeOK, Times,
            StoreTypeOK
    <3> QED BY <2>1, <3>1, RowFrame DEF Inv
  <2>4. CASE Wrote(r) /\ Unmoved(e)
    <3>1. e[1] < run /\ up
      BY <2>4, Typed DEF Inv, Row, Ends, Unmoved, FinalizeRecovery
    <3>2. ~Seen(e) /\ ~Current(e) /\ run \in Nat /\ e[1] \in Nat
      BY <3>1, EventObject, BoundsAssumption
      DEF Seen, Current, TypeOK, ThreadTypeOK, Runs
    <3>3. ~Seen(e)' /\ ~Current(e)' /\ ~NotBegun(e)' /\ ~Busy(e)'
      BY <3>1, <3>2, <2>1 DEF SameRole, FinalizeRecovery, NotBegun, Inv, Row,
            Begun, Busy, On
    <3>4. fact'[e] = "recovered" /\ tEnd'[e] = tLast[e] /\ fact[e] = "open"
      BY <2>4 DEF FinalizeRecovery, Unmoved
    <3>5. tLast' = tLast /\ born' = born /\ last' = last /\ now' = now
          /\ run' = run /\ snap' = {}
      BY DEF FinalizeRecovery
    <3>6. Clocks(e)'
      BY <3>4, <3>5 DEF Inv, Row, Clocks
    <3> QED BY <3>1, <3>3, <3>4, <3>5, <3>6 DEF Row, Begun, Ends, CurrentRow,
              CallRow, ItemRow, EndedRow, Ended, Busy
  <2> QED BY <2>3, <2>4
<1> QED BY <1>1, <1>2 DEF Inv

\* A call: pc.ev is an event, the row of which the call may change, and the
\* next call is for the same event.
LEMMA CallEvent ==
  ASSUME TypeOK, pc # NoTask
  PROVE  /\ pc.ev \in Events /\ On(pc.ev)
         /\ \A e \in Events : e # pc.ev => ~On(e)
  BY TaskType DEF TypeOK, ItemsTypeOK, On

\* A call in progress belongs to an event that has begun.
LEMMA OpCall ==
  \A op \in {"fact", "desc", "notif", "update", "close"} :
    pc.op = op => pc # NoTask
  BY TaskFields

\* What the invariant says of the events of a call it is not for.
LEMMA CallFrame ==
  ASSUME TypeOK, TypeOK', Inv, up, pc # NoTask,
         NEW e \in Events, e # pc.ev,
         UNCHANGED <<up, run, now, occ, born, last, snap>>,
         fact'[e] = fact[e], tLast'[e] = tLast[e], tEnd'[e] = tEnd[e],
         pend'[e] = pend[e],
         \A o \in Objects : obj[o] # "none" => obj'[o] # "none",
         desc[e] # <<>> => desc'[e] # <<>>,
         notif[e] # "none" => notif'[e] # "none",
         pc' = NoTask \/ \E op : pc' = Task(op, pc.ev),
         Current(e)' = Current(e),
         Current(e) => entry'[e[2]] = entry[e[2]]
  PROVE  Row(e)'
<1>1. SameRow(e)
  BY EventObject DEF SameRow, TypeOK, ThreadTypeOK, Times
<1>2. ~On(e) /\ ~On(e)'
  BY TaskFields DEF On
<1>3. SameRole(e)
  BY <1>2 DEF SameRole, Seen, NotBegun
<1> QED BY <1>1, <1>3, RowFrame DEF Inv

\* OpenFact stores the event the call is about, and no other.
LEMMA InvOpenFact ==
  ASSUME TypeOK, TypeOK', Inv, NEW r \in Results, OpenFact(r),
         NEW k \in Events, k = pc.ev
  PROVE  Inv'
<1>1. pc # NoTask /\ up
  BY OpCall DEF OpenFact
<1>2. k \in Events /\ On(k)
  BY <1>1, CallEvent
<1>3. UNCHANGED <<obj, tEnd, desc, notif, up, run, now, occ, entry, born, last,
                  pend, snap>>
  BY DEF OpenFact
<1>4. \A x \in Events : Current(x)' = Current(x)
  BY <1>3 DEF Current
<1>5. /\ pc' = NoTask \/ pc' = Task("desc", k)
      /\ pc' # NoTask => fact'[k] = "open"
  BY <1>2 DEF OpenFact, Ok, Wrote, TypeOK, StoreTypeOK
<1>6. Empty'
  BY <1>1, <1>3 DEF Empty
<1>7. ASSUME NEW e \in Events, e # k PROVE Row(e)'
  <2>1. fact'[e] = fact[e] /\ tLast'[e] = tLast[e]
    BY <1>2, <1>7 DEF OpenFact, TypeOK, StoreTypeOK
  <2> QED BY <1>1, <1>3, <1>4, <1>5, <1>7, <2>1, CallFrame
<1>8. Row(k)'
  <2>1. /\ Writing(k) /\ obj[ObjectOf(k)] # "none" /\ fact[k] \in {"none", "open"}
        /\ Seen(k) /\ Busy(k) /\ Row(k)
    BY <1>2 DEF Inv, Row, CallRow, Begun, OpenFact, Busy
  <2>2. \/ fact'[k] = fact[k] /\ tLast'[k] = tLast[k]
        \/ fact'[k] = "open" /\ tLast'[k] = Later(tLast[k], born[k])
    BY <1>2 DEF OpenFact, TypeOK, StoreTypeOK
  <2>3. fact'[k] \in {"none", "open"} /\ (fact[k] = "open" => fact'[k] = "open")
    BY <2>1, <2>2
  <2>4. Clocks(k)'
    <3>1. CASE fact[k] = "none"
      BY <1>2, <1>3, <2>1, <2>2, <3>1, Typed DEF Row, Clocks, Later
    <3>2. CASE fact[k] = "open"
      BY <1>2, <1>3, <2>1, <2>2, <3>2, Typed DEF Row, Clocks, Later
    <3> QED BY <2>1, <3>1, <3>2
  <2>5. Seen(k)' = Seen(k) /\ NotBegun(k)' = NotBegun(k)
    BY <1>3 DEF Seen, NotBegun
  <2>6. Ends(k)' /\ Begun(k)'
    BY <1>2, <1>3, <2>1, <2>3, <2>5, SeenFacts DEF Ends, Begun
  <2>7. Writing(k)' /\ Paired(k)' = Paired(k) /\ ~(Ended(k)' /\ ~Busy(k)')
    BY <1>3, <1>4, <2>1, <2>5 DEF Ended, Busy, Writing, Paired
  <2>8. CurrentRow(k)'
    <3>1. Current(k) => entry[k[2]] = "pending-open" /\ pend[k] = "no"
      BY <2>1, <1>1 DEF Row, CurrentRow, ItemRow, Writing
    <3> QED BY <1>3, <1>4, <2>1, <2>3, <3>1 DEF CurrentRow
  <2>9. ItemRow(k)'
    BY <1>3, <1>4, <2>1, <2>3, <2>7 DEF Row, ItemRow, Writing
  <2>10. CallRow(k)'
    BY <1>5, <2>7, TaskFields DEF CallRow, On
  <2> QED BY <2>4, <2>6, <2>7, <2>8, <2>9, <2>10 DEF Row, EndedRow
<1> QED BY <1>6, <1>7, <1>8 DEF Inv

\* EnsureInitialDescription: the event is stored, its description now too.
LEMMA InvEnsureInitialDescription ==
  ASSUME TypeOK, TypeOK', Inv, NEW r \in Results, EnsureInitialDescription(r),
         NEW k \in Events, k = pc.ev
  PROVE  Inv'
<1>1. pc # NoTask /\ up /\ On(k)
  BY OpCall, CallEvent DEF EnsureInitialDescription
<1>2. UNCHANGED <<obj, fact, tLast, tEnd, notif, up, run, now, occ, entry, born,
                  last, pend, snap>>
  BY DEF EnsureInitialDescription
<1>3. \A x \in Events : Current(x)' = Current(x)
  BY <1>2 DEF Current
<1>4. /\ pc' = NoTask \/ pc' = Task("notif", k)
      /\ pc' # NoTask => desc'[k] # <<>>
      /\ \A x \in Events : desc[x] # <<>> => desc'[x] # <<>>
  BY DEF EnsureInitialDescription, WithInitialDescription, Ok, Wrote, TypeOK,
         StoreTypeOK
<1>5. Empty'
  BY <1>1, <1>2 DEF Empty
<1>6. ASSUME NEW e \in Events, e # k PROVE Row(e)'
  BY <1>1, <1>2, <1>3, <1>4, <1>6, CallFrame
<1>7. Row(k)'
  <2>1. Writing(k) /\ fact[k] = "open" /\ Seen(k) /\ Busy(k) /\ Row(k)
    BY <1>1 DEF Inv, Row, CallRow, Begun, EnsureInitialDescription, Busy
  <2>2. Seen(k)' = Seen(k) /\ NotBegun(k)' = NotBegun(k)
    BY <1>2 DEF Seen, NotBegun
  <2>3. Clocks(k)' /\ Ends(k)' /\ Begun(k)'
    BY <1>2, <2>1, <2>2 DEF Row, Clocks, Ends, Begun
  <2>4. Writing(k)' /\ (Paired(k) => Paired(k)') /\ ~(Ended(k)' /\ ~Busy(k)')
    BY <1>2, <1>3, <1>4, <2>1, <2>2 DEF Ended, Busy, Writing, Paired
  <2>5. CurrentRow(k)'
    <3>1. Current(k) => entry[k[2]] = "pending-open" /\ pend[k] = "no"
      BY <2>1, <1>1 DEF Row, CurrentRow, ItemRow, Writing
    <3> QED BY <1>2, <1>3, <2>1, <3>1 DEF Row, CurrentRow
  <2>6. ItemRow(k)'
    BY <1>2, <1>3, <2>1, <2>4 DEF Row, ItemRow
  <2>7. CallRow(k)'
    BY <1>2, <1>4, <2>1, <2>4, TaskFields DEF CallRow, On
  <2> QED BY <2>3, <2>4, <2>5, <2>6, <2>7 DEF Row, EndedRow
<1> QED BY <1>5, <1>6, <1>7 DEF Inv

\* EnsureInitialNotification: the pair is complete, the item may move on.
LEMMA InvEnsureInitialNotification ==
  ASSUME TypeOK, TypeOK', Inv, NEW r \in Results, EnsureInitialNotification(r),
         NEW k \in Events, k = pc.ev
  PROVE  Inv'
<1>1. pc # NoTask /\ up /\ On(k)
  BY OpCall, CallEvent DEF EnsureInitialNotification
<1>2. UNCHANGED <<obj, fact, tLast, tEnd, desc, up, run, now, occ, entry, born,
                  last, snap>>
  BY DEF EnsureInitialNotification
<1>3. \A x \in Events : Current(x)' = Current(x)
  BY <1>2 DEF Current
<1>4. Writing(k) /\ fact[k] = "open" /\ desc[k] # <<>> /\ Seen(k) /\ Busy(k)
      /\ Row(k)
  BY <1>1 DEF Inv, Row, CallRow, Begun, EnsureInitialNotification, Busy
<1>5. \/ Current(k) /\ entry[k[2]] = "pending-open" /\ pend[k] = "no"
      \/ ~Current(k) /\ pend[k] = "open"
  BY <1>1, <1>4 DEF Row, CurrentRow, ItemRow, Writing
<1>6. /\ pc' = NoTask \/ (pc' = Task("update", k) /\ Ok(r) /\ pend[k] = "no")
      /\ pend'[k] = pend[k] \/ (pend'[k] = "update" /\ Ok(r))
      /\ pend[k] = "no" => pend'[k] = "no"
      /\ \A x \in Events : x # k => pend'[x] = pend[x]
      /\ \A x \in Events : notif[x] # "none" => notif'[x] # "none"
      /\ Ok(r) => notif'[k] # "none"
  BY <1>5 DEF EnsureInitialNotification, WithInitialNotification, ItemOpened, Ok,
              Wrote, TypeOK, StoreTypeOK, ItemsTypeOK
<1>7. Empty'
  BY <1>1, <1>2 DEF Empty
<1>8. ASSUME NEW e \in Events, e # k PROVE Row(e)'
  BY <1>1, <1>2, <1>3, <1>6, <1>8, CallFrame
<1>9. Row(k)'
  <2>1. Seen(k)' = Seen(k) /\ NotBegun(k)' = NotBegun(k)
    BY <1>2 DEF Seen, NotBegun
  <2>2. Clocks(k)' /\ Ends(k)' /\ Begun(k)'
    BY <1>2, <1>4, <2>1 DEF Row, Clocks, Ends, Begun
  <2>3. (Paired(k) => Paired(k)') /\ (Ok(r) => Paired(k)')
    BY <1>2, <1>4, <1>6 DEF Paired
  <2>4. ~(Ended(k)' /\ ~Busy(k)')
    BY <1>3, <1>5, <1>6, <2>1 DEF Ended, Busy
  <2>5. CurrentRow(k)'
    BY <1>2, <1>3, <1>4, <1>5, <1>6 DEF Row, CurrentRow
  <2>6. ItemRow(k)'
    BY <1>2, <1>3, <1>4, <1>5, <1>6, <2>3 DEF Row, ItemRow
  <2>7. CallRow(k)'
    BY <1>2, <1>3, <1>4, <1>5, <1>6, <2>3, TaskFields DEF CallRow, On
  <2> QED BY <2>2, <2>4, <2>5, <2>6, <2>7 DEF Row, EndedRow
<1> QED BY <1>7, <1>8, <1>9 DEF Inv

\* UpdateFact brings the row to the last observation before anyone calls it stored.
LEMMA InvUpdateFact ==
  ASSUME TypeOK, TypeOK', Inv, NEW r \in Results, UpdateFact(r),
         NEW k \in Events, k = pc.ev
  PROVE  Inv'
<1>1. pc # NoTask /\ up /\ On(k) /\ pc' = NoTask
  BY OpCall, CallEvent DEF UpdateFact
<1>2. UNCHANGED <<obj, fact, tEnd, desc, notif, up, run, now, occ, born, last,
                  snap>>
  BY DEF UpdateFact
<1>3. fact[k] = "open" /\ Paired(k) /\ Seen(k) /\ Busy(k) /\ Row(k)
  BY <1>1 DEF Inv, Row, CallRow, Begun, UpdateFact, Busy
<1>4. \/ Current(k) /\ entry[k[2]] # "pending-object" /\ pend[k] = "no"
      \/ ~Current(k) /\ pend[k] = "update"
  BY <1>1, <1>3 DEF Row, CurrentRow, CallRow, ItemRow, UpdateFact
<1>5. /\ tLast'[k] = Later(tLast[k], last[k]) \/ (tLast'[k] = tLast[k] /\ ~Ok(r))
      /\ \A x \in Events : x # k => tLast'[x] = tLast[x]
  BY <1>3 DEF UpdateFact, Ok, Wrote, TypeOK, StoreTypeOK
<1>6. tLast[k] <= last[k] /\ Later(tLast[k], last[k]) = last[k]
  BY <1>3, Typed DEF Row, Clocks, Later
<1>7. \A x \in Tracks : (entry'[x] = "none") = (entry[x] = "none")
  <2>1. entry' = entry \/ (Current(k) /\ entry' = [entry EXCEPT
                                 ![k[2]] = EntryOnUpdate(Ok(r) /\ fact[k] = "open")])
    BY <1>4 DEF UpdateFact
  <2>2. \A good : EntryOnUpdate(good) # "none"
    BY DEF EntryOnUpdate
  <2>3. Current(k) => entry[k[2]] # "none"
    BY DEF Current
  <2> QED BY <2>1, <2>2, <2>3, EventObject DEF TypeOK, ThreadTypeOK
<1>8. \A x \in Events : Current(x)' = Current(x)
  BY <1>2, <1>7, EventObject DEF Current
<1>9. Empty'
  BY <1>1, <1>2 DEF Empty
<1>10. ASSUME NEW e \in Events, e # k PROVE Row(e)'
  <2>1. pend'[e] = pend[e]
    BY <1>10 DEF UpdateFact, TypeOK, ItemsTypeOK
  <2>2. ASSUME Current(e) PROVE entry'[e[2]] = entry[e[2]]
    <3>1. CASE Current(k)
      <4>1. e[2] # k[2]
        BY <1>10, <2>2, <3>1, EventObject DEF Current
      <4> QED BY <4>1, EventObject DEF UpdateFact, TypeOK, ThreadTypeOK
    <3>2. CASE ~Current(k)
      BY <1>4, <3>2 DEF UpdateFact
    <3> QED BY <3>1, <3>2
  <2> QED BY <1>1, <1>2, <1>5, <1>8, <1>10, <2>1, <2>2, CallFrame
<1>11. Row(k)'
  <2>1. Seen(k)' = Seen(k) /\ NotBegun(k)' = NotBegun(k) /\ Paired(k)'
    BY <1>2, <1>3 DEF Seen, NotBegun, Paired
  <2>2. Clocks(k)'
    BY <1>2, <1>3, <1>5, <1>6, Typed DEF Row, Clocks
  <2>3. Ends(k)' /\ Begun(k)'
    BY <1>2, <1>3, <2>1 DEF Row, Ends, Begun
  <2>4. CASE Current(k)
    <3>1. pend' = pend /\ pend[k] = "no"
      BY <1>4, <2>4 DEF UpdateFact
    <3>2. entry'[k[2]] = IF Ok(r) THEN "open" ELSE "pending-open"
      BY <1>3, <3>1, EventObject DEF UpdateFact, EntryOnUpdate, TypeOK, ThreadTypeOK
    <3>3. CurrentRow(k)'
      BY <1>2, <1>3, <1>4, <1>5, <1>6, <2>1, <2>4, <3>1, <3>2
      DEF Row, CurrentRow
    <3> QED BY <1>1, <1>8, <2>2, <2>3, <2>4, <3>1, <3>3
            DEF Row, CallRow, ItemRow, EndedRow, Ended, On
  <2>5. CASE ~Current(k)
    <3>1. pend[k] = "update" /\ (pend'[k] = "update" \/ (pend'[k] = "close" /\ Ok(r)))
      BY <1>4, <2>5 DEF UpdateFact, TypeOK, ItemsTypeOK
    <3>2. ItemRow(k)'
      BY <1>2, <1>3, <1>5, <1>6, <1>8, <2>1, <2>5, <3>1 DEF ItemRow
    <3> QED BY <1>1, <1>8, <2>2, <2>3, <2>5, <3>1, <3>2
            DEF Row, CallRow, CurrentRow, EndedRow, Busy, On
  <2> QED BY <2>4, <2>5
<1> QED BY <1>9, <1>10, <1>11 DEF Inv

\* CloseFact ends the row at its own t_last, which is the last observation.
LEMMA InvCloseFact ==
  ASSUME TypeOK, TypeOK', Inv, NEW r \in Results, CloseFact(r),
         NEW k \in Events, k = pc.ev
  PROVE  Inv'
<1>1. pc # NoTask /\ up /\ On(k) /\ pc' = NoTask
  BY OpCall, CallEvent DEF CloseFact
<1>2. UNCHANGED <<obj, tLast, desc, notif, up, run, now, occ, entry, born, last,
                  snap>>
  BY DEF CloseFact
<1>3. \A x \in Events : Current(x)' = Current(x)
  BY <1>2 DEF Current
<1>4. ~Current(k) /\ Paired(k) /\ Seen(k) /\ Row(k)
      /\ (fact[k] = "closed" \/ (fact[k] = "open" /\ tLast[k] = last[k]))
  BY <1>1 DEF Inv, Row, CallRow, ItemRow, Begun, CloseFact, Busy
<1>5. \/ fact'[k] = fact[k] /\ tEnd'[k] = tEnd[k] /\ pend'[k] = "close"
      \/ fact'[k] = "closed" /\ fact[k] = "open" /\ tEnd'[k] = tLast[k]
         /\ pend'[k] \in {"no", "close"}
  BY <1>4 DEF CloseFact, ItemOnClose, Ok, Wrote, TypeOK, StoreTypeOK, ItemsTypeOK
<1>6. Empty'
  BY <1>1, <1>2 DEF Empty
<1>7. ASSUME NEW e \in Events, e # k PROVE Row(e)'
  <2>1. fact'[e] = fact[e] /\ tEnd'[e] = tEnd[e] /\ pend'[e] = pend[e]
    BY <1>7 DEF CloseFact, TypeOK, StoreTypeOK, ItemsTypeOK
  <2> QED BY <1>1, <1>2, <1>3, <1>7, <2>1, CallFrame
<1>8. Row(k)'
  <2>1. Seen(k)' = Seen(k) /\ NotBegun(k)' = NotBegun(k) /\ Paired(k)'
    BY <1>2, <1>4 DEF Seen, NotBegun, Paired
  <2>2. Clocks(k)'
    BY <1>2, <1>4, <1>5 DEF Row, Clocks
  <2>3. Ends(k)' /\ Begun(k)'
    BY <1>2, <1>4, <1>5, <2>1, SeenFacts DEF Row, Ends, Begun
  <2>4. ItemRow(k)' /\ EndedRow(k)'
    BY <1>2, <1>3, <1>4, <1>5, <2>1 DEF ItemRow, EndedRow, Busy
  <2> QED BY <1>1, <1>3, <1>4, <2>2, <2>3, <2>4 DEF Row, CallRow, CurrentRow, On
<1> QED BY <1>6, <1>7, <1>8 DEF Inv

\* A retry resumes at the stage the item is at.
LEMMA InvRetryEvent ==
  ASSUME TypeOK, TypeOK', Inv, NEW k \in Events, RetryEvent(k)
  PROVE  Inv'
<1>1. UNCHANGED <<obj, fact, tLast, tEnd, desc, notif, up, run, now, occ, entry,
                  born, last, pend, snap>> /\ up /\ pc = NoTask
  BY DEF RetryEvent, db, Ready, Idle
<1>2. \A x \in Events : Current(x)' = Current(x) /\ Seen(x)' = Seen(x)
                        /\ NotBegun(x)' = NotBegun(x) /\ ~On(x)
  BY <1>1 DEF Current, Seen, NotBegun, On
<1>3. pc'.ev = k /\ pc'.op = (IF pend[k] = "open" THEN "fact" ELSE pend[k])
      /\ pend[k] \in {"open", "update", "close"}
  BY TaskFields DEF RetryEvent, EventStage
<1>4. Empty'
  BY <1>1 DEF Empty
<1>5. ASSUME NEW e \in Events, e # k PROVE Row(e)'
  <2>1. ~On(e)'
    BY <1>3, <1>5 DEF On
  <2> QED BY <1>1, <1>2, <2>1, RowFrame, Typed DEF SameRow, SameRole, Inv
<1>6. Row(k)'
  <2>1. Row(k) /\ Seen(k) /\ Busy(k) /\ ~Current(k) /\ Paired(k)' = Paired(k)
    BY <1>1, <1>3 DEF Inv, Row, Begun, ItemRow, Busy, Paired
  <2>2. Begun(k)' /\ Clocks(k)' /\ Ends(k)' /\ EndedRow(k)' /\ ItemRow(k)'
        /\ CurrentRow(k)'
    BY <1>1, <1>2, <1>3, <2>1
    DEF Row, Begun, Clocks, Ends, EndedRow, ItemRow, CurrentRow, Busy
  <2>3. CallRow(k)'
    BY <1>1, <1>2, <1>3, <2>1 DEF Row, ItemRow, CallRow, Writing
  <2> QED BY <2>2, <2>3 DEF Row
<1> QED BY <1>4, <1>5, <1>6 DEF Inv

\* A retry of the object stage touches no event row.
LEMMA InvRetryObject ==
  ASSUME TypeOK, TypeOK', Inv, NEW k \in Events, NEW r \in Results,
         RetryObject(k, r)
  PROVE  Inv'
<1>1. UNCHANGED <<fact, tLast, tEnd, desc, notif, up, run, now, occ, entry,
                  born, last, pc, snap>> /\ up /\ pc = NoTask
  BY DEF RetryObject, Ready, Idle
<1>2. \A x \in Events : /\ Current(x)' <=> Current(x)
                        /\ Seen(x)' <=> Seen(x)
                        /\ NotBegun(x)' <=> NotBegun(x)
                        /\ Paired(x)' <=> Paired(x)
                        /\ ~On(x) /\ ~On(x)'
  BY <1>1 DEF Current, Seen, NotBegun, On, Paired
<1>3. \A o \in Objects : obj[o] # "none" => obj'[o] # "none"
  BY DEF RetryObject, TypeOK, StoreTypeOK
<1>4. /\ pend[k] = "object" /\ pend'[k] \in {"object", "open"}
      /\ obj[ObjectOf(k)] # "none"
      /\ \A x \in Events : x # k => pend'[x] = pend[x]
  BY DEF RetryObject, TypeOK, ItemsTypeOK
<1>5. Empty'
  BY <1>1 DEF Empty
<1>6. ASSUME NEW e \in Events, e # k PROVE Row(e)'
  <2>1. SameRow(e)
    BY <1>1, <1>3, <1>4, <1>6, Typed DEF SameRow
  <2>2. SameRole(e)
    BY <1>1, <1>2 DEF SameRole
  <2> QED BY <2>1, <2>2, RowFrame DEF Inv
<1>7. Row(k)'
  <2>1. Row(k) /\ Seen(k) /\ ~Current(k)
    BY <1>4 DEF Inv, Row, Begun, ItemRow, Busy
  <2>2. ItemRow(k)'
    BY <1>1, <1>2, <1>3, <1>4, <2>1, Typed DEF Row, ItemRow
  <2> QED BY <1>1, <1>2, <1>4, <2>1, <2>2
          DEF Row, Begun, Clocks, Ends, EndedRow, CurrentRow, CallRow, Busy
<1> QED BY <1>5, <1>6, <1>7 DEF Inv

\* The end of an event: its row is closed next, or it becomes an item.
LEMMA InvEndEvent ==
  ASSUME TypeOK, TypeOK', Numbered, Inv, NEW t \in Tracks, EndEvent(t),
         up, pc = NoTask,
         UNCHANGED <<fact, tLast, tEnd, desc, notif, up, run, now, occ, born,
                     last, snap>>,
         \A o \in Objects : obj[o] # "none" => obj'[o] # "none"
  PROVE  Inv'
<1>1. Empty'
  BY DEF Empty
<1>2. \A x \in Events : Seen(x)' = Seen(x) /\ NotBegun(x)' = NotBegun(x) /\ ~On(x)
                        /\ Paired(x)' = Paired(x)
  BY DEF Seen, NotBegun, On, Paired
<1>3. \A x \in Tracks : entry'[x] = IF x = t THEN "none" ELSE entry[x]
  BY DEF EndEvent, TypeOK, ThreadTypeOK
<1>4. ASSUME NEW e \in Events, ~Current(e) PROVE Row(e)'
  <2>1. e # EventOf(t) \/ entry[t] = "none"
    BY <1>4, EventObject DEF Current, EventOf
  <2>2. pend'[e] = pend[e] /\ ~On(e)'
    BY <2>1, TaskFields DEF EndEvent, TypeOK, ItemsTypeOK, On
  <2>3. ~Current(e)'
    BY <1>3, <1>4, EventObject DEF Current
  <2> QED BY <1>2, <1>4, <2>2, <2>3, RowFrame, Typed DEF SameRow, SameRole, Inv
<1>5. ASSUME NEW e \in Events, Current(e), e[2] # t PROVE Row(e)'
  <2>1. e # EventOf(t)
    BY <1>5 DEF EventOf
  <2>2. pend'[e] = pend[e] /\ ~On(e)'
    BY <2>1, TaskFields DEF EndEvent, TypeOK, ItemsTypeOK, On
  <2>3. Current(e)' /\ entry'[e[2]] = entry[e[2]]
    BY <1>3, <1>5, EventObject DEF Current
  <2>4. SameRow(e)
    BY <2>2, Typed DEF SameRow
  <2>5. SameRole(e)
    BY <1>2, <1>5, <2>2, <2>3 DEF SameRole
  <2> QED BY <2>4, <2>5, RowFrame DEF Inv
<1>6. ASSUME NEW e \in Events, Current(e), e[2] = t PROVE Row(e)'
  <2>1. e = EventOf(t) /\ entry[t] # "none"
    BY <1>6, EventObject DEF Current, EventOf
  <2>2. Row(e) /\ pend[e] = "no" /\ fact[e] \in {"none", "open"} /\ Seen(e)
    <3>1. Row(e) /\ pend[e] = "no" /\ fact[e] \in {"none", "open"}
      BY <1>6 DEF Inv, Row, CurrentRow
    <3> QED BY <3>1, <1>6, Typed DEF Seen, Current
  <2>3. ~Current(e)'
    BY <1>3, <1>6, EventObject DEF Current
  <2>4. Begun(e)' /\ Clocks(e)' /\ Ends(e)' /\ CurrentRow(e)'
    BY <1>2, <2>2, <2>3 DEF Row, Begun, Clocks, Ends, CurrentRow
  <2>5. CASE entry[t] = "open"
    <3>1. fact[e] = "open" /\ Paired(e) /\ tLast[e] = last[e]
      BY <1>6, <2>2, <2>5, TaskType DEF Row, CurrentRow
    <3>2. pc' = Task("close", e) /\ pend'[e] = "no"
      BY <2>1, <2>2, <2>5 DEF EndEvent
    <3>3. On(e)' /\ pc'.op = "close"
      BY <3>2, TaskType, TaskFields DEF On
    <3> QED BY <1>2, <2>3, <2>4, <3>1, <3>2, <3>3
            DEF Row, CallRow, ItemRow, EndedRow, Busy
  <2>6. CASE entry[t] # "open"
    <3>1. pc' = NoTask /\ pend'[e] = "object"
      BY <2>1, <2>6 DEF EndEvent, TypeOK, ThreadTypeOK, ItemsTypeOK
    <3> QED BY <2>2, <2>3, <2>4, <3>1
            DEF Row, CallRow, ItemRow, EndedRow, Busy, On
  <2> QED BY <2>5, <2>6
<1> QED BY <1>1, <1>4, <1>5, <1>6 DEF Inv

\* A lost track hands its event to the closing call or to the retry list.
LEMMA InvTrackEnds ==
  ASSUME TypeOK, TypeOK', Numbered, Inv, NEW t \in Tracks,
         CloseNext(t) \/ \E r \in Results : TrackLost(t, r)
  PROVE  Inv'
<1>1. /\ EndEvent(t) /\ up /\ pc = NoTask
      /\ UNCHANGED <<fact, tLast, tEnd, desc, notif, up, run, now, occ, born,
                     last, snap>>
  BY DEF CloseNext, TrackLost, Ready, Idle, db
<1>2. \A o \in Objects : obj[o] # "none" => obj'[o] # "none"
  BY DEF CloseNext, TrackLost, db, TypeOK, StoreTypeOK
<1> QED BY <1>1, <1>2, InvEndEvent

\* A frame opens a new occurrence or moves the last observation of the current one.
LEMMA InvObserve ==
  ASSUME TypeOK, TypeOK', Numbered, Inv, NEW t \in Tracks, NEW r \in Results,
         Observe(t, r)
  PROVE  Inv'
<1> DEFINE o == IF entry[t] = "none" THEN occ[t] + 1 ELSE occ[t]
<1>1. /\ up /\ pc = NoTask /\ o \in Occs
      /\ UNCHANGED <<fact, tLast, tEnd, desc, notif, up, run, now, pend, snap>>
  BY BoundsAssumption DEF Observe, Ready, Idle, Occs, TypeOK, ThreadTypeOK, Numbered
<1>2. PICK k \in Events : k = <<run, t, o>> /\ k[1] = run /\ k[2] = t /\ k[3] = o
  <2>1. run \in Runs
    BY <1>1 DEF TypeOK, ThreadTypeOK
  <2>2. LET e == <<run, t, o>>
        IN e \in Events /\ e[1] = run /\ e[2] = t /\ e[3] = o
    BY <1>1, <2>1, RunEvent
  <2> QED BY <2>2, Zenon
<1>3. Empty'
  BY <1>1 DEF Empty
<1>4. /\ \A x \in Tracks : occ'[x] = IF x = t THEN o ELSE occ[x]
      /\ \A x \in Tracks : x # t => entry'[x] = entry[x]
      /\ entry'[t] = EntryAfter(entry[t], Ok(r))
      /\ \A x \in Objects : obj[x] # "none" => obj'[x] # "none"
      /\ Ok(r) => obj'[ObjectOf(k)] # "none"
  BY <1>2, EventObject DEF Observe, ObserveObject, Ok, Wrote, TypeOK, StoreTypeOK,
     ThreadTypeOK, ObjectOf
<1>5. /\ last'[k] = now /\ \A x \in Events : x # k => last'[x] = last[x]
      /\ IF entry[t] = "none" THEN born'[k] \in 0 .. now ELSE born'[k] = born[k]
      /\ \A x \in Events : x # k => born'[x] = born[x]
  BY <1>2 DEF Observe, TypeOK, ItemsTypeOK
<1>6. /\ pc' = NoTask \/ (\E op : pc' = Task(op, k))
      /\ LET n == NextWrite(entry[t], Ok(r), TRUE)
         IN pc' = NoTask \/ (n # "idle" /\ pc' = Task(n, k))
  BY <1>2 DEF Observe, NextWrite
<1>7. entry'[t] # "none"
  BY <1>4 DEF EntryAfter
<1>8. ASSUME NEW e \in Events, e # k PROVE Row(e)'
  <2>1. ~On(e) /\ ~On(e)'
    BY <1>1, <1>6, <1>8, TaskFields DEF On
  <2>2. (Current(e)' <=> Current(e)) /\ (Current(e) => entry'[e[2]] = entry[e[2]])
    <3>1. CASE e[2] # t
      BY <1>1, <1>4, <3>1, EventObject DEF Current
    <3>2. CASE e[2] = t
      <4>1. ~(e[1] = run /\ e[3] = o)
        BY <1>2, <1>8, <3>2, EventObject
      <4>2. ~Current(e)'
        BY <1>1, <1>4, <3>2, <4>1 DEF Current
      <4>3. ~Current(e)
        BY <3>2, <4>1 DEF Current
      <4> QED BY <4>2, <4>3
    <3> QED BY <3>1, <3>2
  <2>3. Seen(e)' <=> Seen(e)
    <3>1. CASE e[2] # t
      BY <1>1, <1>4, <3>1, EventObject DEF Seen
    <3>2. CASE e[2] = t /\ e[1] = run
      <4>1. e[3] # o
        BY <1>2, <1>8, <3>2, EventObject
      <4>2. e[3] <= o <=> e[3] <= occ[t]
        BY <4>1, <3>2, Typed
      <4> QED BY <1>1, <1>4, <3>2, <4>2 DEF Seen
    <3>3. CASE e[1] # run
      BY <1>1, <3>3 DEF Seen
    <3> QED BY <3>1, <3>2, <3>3
  <2>4. NotBegun(e)' => NotBegun(e)
    <3>1. occ'[e[2]] >= occ[e[2]] /\ occ'[e[2]] \in Nat
      BY <1>4, Typed
    <3> QED BY <1>1, <3>1, Typed DEF NotBegun
  <2> QED BY <1>1, <1>4, <1>5, <1>8, <2>1, <2>2, <2>3, <2>4, RowFrame, Typed
          DEF SameRow, SameRole, Inv
<1>9. Row(k)'
  <2>1. Current(k)' /\ Seen(k)' /\ ~NotBegun(k)'
    BY <1>1, <1>2, <1>4, <1>7, Typed DEF Current, Seen, NotBegun
  <2>2. Row(k) /\ ~On(k)
    BY <1>1 DEF Inv, On
  <2>3. CASE entry[t] = "none"
    <3>1. NotBegun(k) /\ fact[k] = "none" /\ pend[k] = "no"
      BY <1>1, <1>2, <2>2, <2>3, Typed DEF NotBegun, Row, Begun, Seen, Busy
    <3>2. Clocks(k)'
      BY <1>1, <1>5, <2>2, <2>3, <3>1, Typed DEF Row, Clocks
    <3>3. entry'[t] = (IF Ok(r) THEN "pending-open" ELSE "pending-object")
          /\ (pc' = NoTask \/ (Ok(r) /\ pc' = Task("fact", k)))
      BY <1>4, <1>6, <2>3 DEF EntryAfter, NextWrite
    <3>4. \A x \in Times : <<k, x>> \notin snap
      BY <1>2, <2>2, Typed DEF Row, Ends
    <3>5. Begun(k)' /\ Ends(k)' /\ EndedRow(k)' /\ ItemRow(k)'
      BY <1>1, <2>1, <3>1, <3>4
      DEF Begun, Ends, EndedRow, ItemRow, Ended
    <3>6. CurrentRow(k)'
      BY <1>1, <1>2, <1>4, <3>1, <3>3 DEF CurrentRow
    <3>7. CallRow(k)'
      BY <1>1, <1>2, <1>4, <2>1, <3>1, <3>3, TaskFields
      DEF CallRow, On, Writing
    <3> QED BY <3>2, <3>5, <3>6, <3>7 DEF Row
  <2>4. CASE entry[t] # "none"
    <3>1. Current(k) /\ pend[k] = "no" /\ fact[k] \in {"none", "open"}
          /\ (entry[t] # "pending-object" => obj[ObjectOf(k)] # "none")
          /\ (entry[t] = "open" => fact[k] = "open" /\ Paired(k))
      BY <1>1, <1>2, <2>2, <2>4 DEF Current, Row, CurrentRow
    <3>2. Clocks(k)'
      BY <1>1, <1>5, <2>2, <2>4, <3>1, Typed DEF Row, Clocks
    <3>3. \/ entry[t] = "open" /\ entry'[t] = "open" /\ (pc' = NoTask \/ pc' = Task("update", k))
          \/ entry[t] = "pending-open" /\ entry'[t] = "pending-open"
             /\ (pc' = NoTask \/ pc' = Task("fact", k))
          \/ entry[t] = "pending-object" /\ ~Ok(r) /\ entry'[t] = "pending-object"
             /\ pc' = NoTask
          \/ entry[t] = "pending-object" /\ Ok(r) /\ entry'[t] = "pending-open"
             /\ (pc' = NoTask \/ pc' = Task("fact", k))
      BY <1>4, <1>6, <2>4 DEF EntryAfter, NextWrite, TypeOK, ThreadTypeOK
    <3>4. entry[t] = "open" => pc' = Task("update", k)
      BY <1>2 DEF Observe, NextWrite
    <3>5. \A x \in Times : <<k, x>> \notin snap
      BY <1>2, <2>2, Typed DEF Row, Ends
    <3>6. Begun(k)' /\ Ends(k)' /\ EndedRow(k)' /\ ItemRow(k)' /\ Paired(k)' = Paired(k)
      BY <1>1, <2>1, <3>1, <3>5
      DEF Begun, Ends, EndedRow, ItemRow, Ended, Paired
    <3>7. CurrentRow(k)'
      BY <1>1, <1>2, <1>4, <3>1, <3>3, <3>4, <3>6, Typed DEF CurrentRow
    <3>8. CallRow(k)'
      BY <1>1, <1>2, <1>4, <2>1, <3>1, <3>3, <3>6, Typed, TaskFields
      DEF CallRow, On, Writing
    <3> QED BY <3>2, <3>6, <3>7, <3>8 DEF Row
  <2> QED BY <2>3, <2>4
<1> QED BY <1>3, <1>8, <1>9 DEF Inv

\* Every call of the camera thread keeps the invariant.
LEMMA InvCall ==
  ASSUME TypeOK, TypeOK', Inv, Call
  PROVE  Inv'
<1>1. PICK r \in Results : CallWith(r)
  BY DEF Call
<1>2. pc # NoTask
  BY <1>1, OpCall DEF CallWith, OpenFact, EnsureInitialDescription,
     EnsureInitialNotification, UpdateFact, CloseFact
<1>3. PICK k \in Events : k = pc.ev
  BY <1>2, CallEvent
<1> QED BY <1>1, <1>3, InvOpenFact, InvEnsureInitialDescription,
           InvEnsureInitialNotification, InvUpdateFact, InvCloseFact DEF CallWith

\* Every step keeps the invariant.
LEMMA InvStep == TypeOK /\ TypeOK' /\ Numbered /\ Inv /\ [Next]_vars => Inv'
<1> SUFFICES ASSUME TypeOK, TypeOK', Numbered, Inv, [Next]_vars PROVE Inv'
  OBVIOUS
<1>1. CASE Boot
  BY <1>1, InvBoot
<1>2. CASE Crash \/ Exit
  BY <1>2, InvForget DEF Crash, Exit, Ready, Idle
<1>3. CASE \E r \in Results : FinalizeRecovery(r)
  BY <1>3, InvFinalizeRecovery
<1>4. CASE Tick \/ StreamLost \/ Stop \/ Others \/ UNCHANGED vars
  BY <1>4, InvQuiet
<1>5. CASE Frame
  BY <1>5, InvQuiet, InvTrackEnds, InvObserve DEF Frame
<1>6. CASE Call
  BY <1>6, InvCall
<1>7. CASE Retry
  BY <1>7, InvQuiet, InvRetryEvent, InvRetryObject DEF Retry
<1> QED BY <1>1, <1>2, <1>3, <1>4, <1>5, <1>6, <1>7 DEF Next, Process

\* The inductive invariant holds in every reachable state.
THEOREM Inductive == Spec => [](TypeOK /\ Numbered /\ Inv)
<1>1. Init => TypeOK /\ Numbered /\ Inv
  BY TypeInit, InvInit
<1>2. (TypeOK /\ Numbered /\ Inv) /\ [Next]_vars => (TypeOK /\ Numbered /\ Inv)'
  BY TypeStep, InvStep
<1> QED BY <1>1, <1>2, PTL DEF Spec

(***************************************************************************)
(* The properties of the runs.                                             *)
(***************************************************************************)
\* A camera thread that reports no degradation of its event facts has every
\* event of its run in the store, in the state it knows it to be in.
THEOREM HealthyCorrect == Spec => []HealthyIsStored
<1>1. ASSUME TypeOK, Inv PROVE HealthyIsStored
  <2> SUFFICES ASSUME Ready, Healthy, NEW e \in Events, Seen(e)
               PROVE  IF Current(e) THEN StoredOpen(e) ELSE StoredClosed(e)
    BY DEF HealthyIsStored
  <2>1. up /\ ~On(e) /\ pend[e] = "no" /\ Row(e) /\ pc # Task("update", e)
    BY <1>1, TaskType DEF Ready, Idle, On, Healthy, Inv
  <2>2. CASE Current(e)
    <3>1. entry[e[2]] = "open"
      BY <2>2, EventObject DEF Healthy, Current
    <3> QED BY <2>1, <2>2, <3>1 DEF Row, CurrentRow, StoredOpen
  <2>3. CASE ~Current(e)
    BY <2>1, <2>3 DEF Row, EndedRow, Ends, Ended, Busy, StoredClosed
  <2> QED BY <2>2, <2>3
<1> QED BY <1>1, Inductive, PTL

\* Every open row of this run has somebody who will close it.
THEOREM NoOrphanCorrect == Spec => []NoOrphanOpen
<1>1. ASSUME TypeOK, Inv PROVE NoOrphanOpen
  <2> SUFFICES ASSUME NEW e \in Events, up, e[1] = run, fact[e] = "open",
                      ~Current(e), pend[e] = "no", ~On(e)
               PROVE  FALSE
    BY DEF NoOrphanOpen
  <2>1. ~NotBegun(e) /\ EndedRow(e)
    BY <1>1 DEF Inv, Row, Begun
  <2>2. Seen(e)
    BY <1>1, <2>1, Typed DEF NotBegun, Seen
  <2> QED BY <2>1, <2>2 DEF EndedRow, Ended, Busy
<1> QED BY <1>1, Inductive, PTL

\* The end of an event is the last time its target was seen, however late the
\* closing got through; recovery never puts it after that.
THEOREM ClosedAtLastSeenCorrect == Spec => []ClosedAtLastSeen
<1>1. ASSUME Inv PROVE ClosedAtLastSeen
  BY <1>1 DEF Inv, Row, Ends, Clocks, ClosedAtLastSeen
<1> QED BY <1>1, Inductive, PTL

\* An event is only written once its object is: the trigger never refuses.
THEOREM ObjectFirstCorrect == Spec => []ObjectFirst
<1>1. ASSUME TypeOK, Inv PROVE ObjectFirst
  BY <1>1, CallEvent DEF Inv, Row, CallRow, ObjectFirst
<1> QED BY <1>1, Inductive, PTL

\* The rows of earlier runs are waited for, or overdue.
Watched(e) ==
    up /\ e[1] < run /\ fact[e] = "open" =>
      <<e, tLast[e]>> \in snap \/ tLast[e] + Grace <= now

\* A row no call works for, and that was not open before unless it is now as it
\* was, is watched or overdue as before.
LEMMA WatchedFrame ==
  ASSUME TypeOK, NEW e \in Events, Watched(e),
         up' = up, run' = run, now' \in Nat, now <= now',
         fact'[e] = "open" => fact[e] = "open", tLast'[e] = tLast[e],
         <<e, tLast[e]>> \in snap => <<e, tLast[e]>> \in snap'
                                     \/ tLast[e] + Grace <= now
  PROVE  Watched(e)'
  BY Typed, BoundsAssumption DEF Watched

\* The call in progress is for an event of this run.
LEMMA CallOfThisRun ==
  ASSUME TypeOK, Inv, up, pc # NoTask, NEW e \in Events, e[1] < run
  PROVE  e # pc.ev
<1> SUFFICES ASSUME e = pc.ev PROVE FALSE
  OBVIOUS
<1>1. Busy(e)
  BY CallEvent DEF Busy
<1> QED BY <1>1, Typed DEF Inv, Row, Begun, Seen

\* A start: what it neither closes nor puts into the snapshot slipped through
\* between the two readings of the clock, and is overdue after it.
LEMMA StartWatches ==
  ASSUME TypeOK, Boot, NEW e \in Events, fact'[e] = "open"
  PROVE  /\ <<e, tLast'[e]>> \in snap' \/ Slipped(e)
         /\ <<e, tLast'[e]>> \in snap' \/ tLast'[e] + Grace <= now'
<1>1. fact[e] = "open" /\ tLast[e] + Grace > now /\ tLast'[e] = tLast[e]
  BY Typed, BoundsAssumption DEF Boot, Stale
<1>2. now \in Nat /\ now' \in Nat /\ tLast[e] + Grace \in Nat
  BY Typed, BoundsAssumption DEF Boot
<1>3. CASE tLast[e] + Grace > now'
  BY <1>1, <1>3 DEF Boot, FreshAt
<1>4. CASE tLast[e] + Grace <= now'
  BY <1>1, <1>2, <1>4 DEF Slipped
<1> QED BY <1>2, <1>3, <1>4

\* Every step keeps the rows of earlier runs watched.
LEMMA WatchedStep ==
  ASSUME TypeOK, TypeOK', Inv, NEW e \in Events, Watched(e), [Next]_vars
  PROVE  Watched(e)'
<1>1. CASE Boot
  BY <1>1, StartWatches DEF Watched
<1>2. CASE Crash \/ Exit
  BY <1>2 DEF Crash, Exit, Forget, Watched
<1>0. now \in Nat /\ now' \in Nat
  BY DEF TypeOK, ThreadTypeOK, Times
<1>3. CASE \E r \in Results : FinalizeRecovery(r)
  <2>1. UNCHANGED <<up, run, now, tLast>> /\ RecheckDue
        /\ (fact'[e] = "open" => fact[e] = "open")
    BY <1>3 DEF FinalizeRecovery
  <2>2. <<e, tLast[e]>> \in snap => tLast[e] + Grace <= now
    BY <2>1 DEF RecheckDue
  <2> QED BY <1>0, <2>1, <2>2, WatchedFrame
<1>4. CASE Tick \/ StreamLost \/ Stop \/ Others \/ Retry \/ Frame
           \/ UNCHANGED vars
  <2>1. UNCHANGED <<up, run, fact, tLast, snap>>
    BY <1>4 DEF Tick, StreamLost, Stop, Others, Retry, Frame, vars, db, mem,
       BackfillDescription, BackfillNotification, PublishSemanticUpdate,
       MarkAvailable, Acknowledge, RetryEvent, RetryObserve, RetryObject,
       Appear, CloseNext, Observe, TrackLost
  <2>2. now' = now \/ now' = now + 1
    BY <1>4 DEF Tick, StreamLost, Stop, Others, Retry, Frame, vars, db, mem,
       BackfillDescription, BackfillNotification, PublishSemanticUpdate,
       MarkAvailable, Acknowledge, RetryEvent, RetryObserve, RetryObject,
       Appear, CloseNext, Observe, TrackLost
  <2>3. up' = up /\ run' = run /\ fact' = fact /\ tLast' = tLast /\ snap' = snap
    BY <2>1
  <2>4. now <= now'
    BY <1>0, <2>2
  <2> QED BY <1>0, <2>3, <2>4, WatchedFrame
<1>5. CASE Call
  <2>1. up /\ pc # NoTask /\ UNCHANGED <<up, run, now, snap>>
    BY <1>5, OpCall DEF Call, CallWith, OpenFact, EnsureInitialDescription,
       EnsureInitialNotification, UpdateFact, CloseFact
  <2>2. e # pc.ev => fact'[e] = fact[e] /\ tLast'[e] = tLast[e]
    BY <1>5 DEF Call, CallWith, OpenFact, EnsureInitialDescription,
       EnsureInitialNotification, UpdateFact, CloseFact, TypeOK, StoreTypeOK
  <2>3. CASE e[1] < run
    <3>1. fact'[e] = fact[e] /\ tLast'[e] = tLast[e]
      BY <2>1, <2>2, <2>3, CallOfThisRun
    <3>2. up' = up /\ run' = run /\ now' = now /\ snap' = snap
      BY <2>1
    <3> QED BY <3>1, <3>2 DEF Watched
  <2>4. CASE ~(e[1] < run)
    BY <2>1, <2>4 DEF Watched
  <2> QED BY <2>3, <2>4
<1> QED BY <1>1, <1>2, <1>3, <1>4, <1>5 DEF Next, Process

\* No start leaves an open row of an earlier run to nobody, except one whose
\* grace runs out while it starts, and what it leaves the next start closes.
THEOREM RecoveryCorrect == Spec => RecoveryCoversAll
<1> DEFINE AllWatched == \A e \in Events : Watched(e)
<1>1. Init => AllWatched
  BY DEF Init, Watched
<1>2. TypeOK /\ TypeOK' /\ Inv /\ AllWatched /\ [Next]_vars => AllWatched'
  BY WatchedStep
<1>3. ASSUME TypeOK, [Next]_vars, ~up, up' PROVE Boot
  BY <1>3, OpCall DEF Next, Process, Crash, Exit, Forget, FinalizeRecovery, Tick,
     Frame, Appear, CloseNext, Observe, TrackLost, StreamLost, Stop, Call,
     CallWith, OpenFact, EnsureInitialDescription, EnsureInitialNotification,
     UpdateFact, CloseFact, Retry, RetryEvent, RetryObserve, RetryObject,
     Others, BackfillDescription, BackfillNotification,
     PublishSemanticUpdate, MarkAvailable, Acknowledge, Ready, Idle, vars
<1>4. TypeOK /\ AllWatched' /\ [Next]_vars =>
        [\A e \in Events :
           fact'[e] = "open" /\ <<e, tLast'[e]>> \notin snap' =>
             /\ ~up /\ up' => Slipped(e)
             /\ up' /\ e[1] < run' => tLast'[e] + Grace <= now']_vars
  BY <1>3, StartWatches DEF Watched
<1> HIDE DEF AllWatched
<1> QED BY <1>1, <1>2, <1>4, Inductive, PTL DEF Spec, RecoveryCoversAll

(***************************************************************************)
(* The refinement of EventLedger.                                          *)
(***************************************************************************)
\* the state of a row as a reader sees it
Shown == [e \in Events |-> IF fact[e] = "recovered" THEN "closed" ELSE fact[e]]

\* Empty tables are an empty ledger.
LEMMA LedgerInit == Init => Ledger!Init
  BY DEF Init, Ledger!Init

\* A step that leaves the tables alone is a stuttering step of the ledger.
LEMMA LedgerStutter ==
  ASSUME UNCHANGED <<fact, tLast, tEnd, desc, notif>>
  PROVE  UNCHANGED Ledger!vars
  BY DEF Ledger!vars

\* The steps of the process that write no event row stutter.
LEMMA LedgerQuiet ==
  ASSUME \/ Crash \/ Exit \/ Tick \/ StreamLost \/ Stop \/ Retry \/ Frame
         \/ UNCHANGED vars
  PROVE  UNCHANGED Ledger!vars
<1>1. UNCHANGED <<fact, tLast, tEnd, desc, notif>>
  BY DEF Crash, Exit, Forget, Tick, StreamLost, Stop, Retry, RetryEvent,
     RetryObserve, RetryObject, Frame, Appear, CloseNext, Observe, TrackLost,
     vars, db
<1> QED BY <1>1, LedgerStutter

\* Rows that end: the stale ones of a start, the unmoved ones of the recheck,
\* the one of a call.
LEMMA LedgerClose ==
  ASSUME NEW S \in SUBSET Events, UNCHANGED <<tLast, desc, notif>>,
         TypeOK, \A e \in S : fact[e] = "open",
         \A e \in Events : /\ fact'[e] \in {"closed", "recovered"} <=>
                                (e \in S \/ fact[e] \in {"closed", "recovered"})
                           /\ e \notin S => fact'[e] = fact[e],
         tEnd' = [e \in Events |-> IF e \in S THEN tLast[e] ELSE tEnd[e]]
  PROVE  Ledger!Next
<1>1. Ledger!Close(S)
  <2>1. Shown' = [e \in Events |-> IF e \in S THEN "closed" ELSE Shown[e]]
    BY DEF Shown
  <2>2. \A e \in S : Shown[e] = "open"
    BY DEF Shown
  <2> QED BY <2>1, <2>2 DEF Ledger!Close, Shown
<1> QED BY <1>1 DEF Ledger!Next

\* Boot recovery closes a set of open rows.
LEMMA LedgerBoot == ASSUME TypeOK, Boot PROVE Ledger!Next
<1> DEFINE S == {e \in Events : Stale(e)}
<1>1. S \in SUBSET Events /\ (\A e \in S : fact[e] = "open")
  BY DEF Stale
<1>2. tEnd' = [e \in Events |-> IF e \in S THEN tLast[e] ELSE tEnd[e]]
  BY DEF Boot
<1>3. \A e \in Events : /\ fact'[e] \in {"closed", "recovered"} <=>
                             (e \in S \/ fact[e] \in {"closed", "recovered"})
                        /\ e \notin S => fact'[e] = fact[e]
  BY DEF Boot, Stale
<1>4. UNCHANGED <<tLast, desc, notif>>
  BY DEF Boot
<1> HIDE DEF S
<1> QED BY <1>1, <1>2, <1>3, <1>4, LedgerClose

\* The delayed recovery closes a set of open rows.
LEMMA LedgerRecovery ==
  ASSUME TypeOK, NEW r \in Results, FinalizeRecovery(r)
  PROVE  Ledger!Next \/ UNCHANGED Ledger!vars
<1>1. CASE ~Wrote(r)
  BY <1>1, LedgerStutter DEF FinalizeRecovery
<1>2. CASE Wrote(r)
  <2> DEFINE S == {e \in Events : Unmoved(e)}
  <2>1. S \in SUBSET Events /\ (\A e \in S : fact[e] = "open")
    BY DEF Unmoved
  <2>2. tEnd' = [e \in Events |-> IF e \in S THEN tLast[e] ELSE tEnd[e]]
    BY <1>2 DEF FinalizeRecovery
  <2>3. \A e \in Events : /\ fact'[e] \in {"closed", "recovered"} <=>
                               (e \in S \/ fact[e] \in {"closed", "recovered"})
                          /\ e \notin S => fact'[e] = fact[e]
    BY <1>2 DEF FinalizeRecovery, Unmoved
  <2>4. UNCHANGED <<tLast, desc, notif>>
    BY DEF FinalizeRecovery
  <2> HIDE DEF S
  <2> QED BY <2>1, <2>2, <2>3, <2>4, LedgerClose
<1> QED BY <1>1, <1>2

\* Storing an event opens its row, or advances it by the MAX of the upsert.
LEMMA LedgerOpenFact ==
  ASSUME TypeOK, Inv, NEW r \in Results, OpenFact(r), NEW k \in Events, k = pc.ev
  PROVE  Ledger!Next \/ UNCHANGED Ledger!vars
<1>1. UNCHANGED <<tEnd, desc, notif>>
  BY DEF OpenFact
<1>2. CASE ~(Wrote(r) /\ Establishes(k))
  BY <1>1, <1>2, LedgerStutter DEF OpenFact
<1>3. CASE Wrote(r) /\ Establishes(k)
  <2> DEFINE x == Later(tLast[k], born[k])
  <2>1. fact' = [fact EXCEPT ![k] = "open"] /\ tLast' = [tLast EXCEPT ![k] = x]
    BY <1>3 DEF OpenFact
  <2>2. x \in Times /\ x >= tLast[k] /\ (fact[k] = "none" => x = born[k])
    BY Typed DEF Later, Inv, Row, Clocks, TypeOK, ItemsTypeOK
  <2>3. Shown' = [Shown EXCEPT ![k] = "open"]
    BY <2>1 DEF Shown, TypeOK, StoreTypeOK
  <2>4. CASE fact[k] = "none"
    <3>1. Shown[k] = "none"
      BY <2>4 DEF Shown
    <3>2. PICK t \in Times : t = x
      BY <2>2
    <3>3. Ledger!Open(k, t)
      BY <1>1, <2>1, <2>3, <3>1, <3>2 DEF Ledger!Open, Shown
    <3> QED BY <3>3 DEF Ledger!Next
  <2>5. CASE fact[k] = "open"
    <3>1. Shown[k] = "open" /\ Shown' = Shown
      BY <2>1, <2>5 DEF Shown, TypeOK, StoreTypeOK
    <3>2. Ledger!Advance(k, x)
      BY <1>1, <2>1, <2>2, <3>1 DEF Ledger!Advance, Shown
    <3> QED BY <2>2, <3>2 DEF Ledger!Next
  <2> QED BY <1>3, <2>4, <2>5 DEF Establishes
<1> QED BY <1>2, <1>3

\* An update advances an open row, never backwards.
LEMMA LedgerUpdateFact ==
  ASSUME TypeOK, Inv, NEW r \in Results, UpdateFact(r), NEW k \in Events, k = pc.ev
  PROVE  Ledger!Next \/ UNCHANGED Ledger!vars
<1>1. UNCHANGED <<fact, tEnd, desc, notif>>
  BY DEF UpdateFact
<1>2. CASE ~(Wrote(r) /\ fact[k] = "open")
  BY <1>1, <1>2, LedgerStutter DEF UpdateFact
<1>3. CASE Wrote(r) /\ fact[k] = "open"
  <2> DEFINE x == Later(tLast[k], last[k])
  <2>1. tLast' = [tLast EXCEPT ![k] = x]
    BY <1>3 DEF UpdateFact
  <2>2. x \in Times /\ x >= tLast[k]
    BY Typed DEF Later, TypeOK, ItemsTypeOK
  <2>3. Shown[k] = "open" /\ Shown' = Shown
    BY <1>1, <1>3 DEF Shown
  <2>4. Ledger!Advance(k, x)
    BY <1>1, <2>1, <2>2, <2>3 DEF Ledger!Advance, Shown
  <2> QED BY <2>2, <2>4 DEF Ledger!Next
<1> QED BY <1>2, <1>3

\* A close ends one row at its last observation.
LEMMA LedgerCloseFact ==
  ASSUME TypeOK, NEW r \in Results, CloseFact(r), NEW k \in Events, k = pc.ev
  PROVE  Ledger!Next \/ UNCHANGED Ledger!vars
<1>1. UNCHANGED <<tLast, desc, notif>>
  BY DEF CloseFact
<1>2. CASE ~(Wrote(r) /\ fact[k] = "open")
  BY <1>1, <1>2, LedgerStutter DEF CloseFact
<1>3. CASE Wrote(r) /\ fact[k] = "open"
  <2>1. tEnd' = [e \in Events |-> IF e \in {k} THEN tLast[e] ELSE tEnd[e]]
    BY <1>3 DEF CloseFact, TypeOK, StoreTypeOK
  <2>2. \A e \in Events : fact'[e] = IF e = k THEN "closed" ELSE fact[e]
    BY <1>3 DEF CloseFact, TypeOK, StoreTypeOK
  <2>3. \A e \in Events : /\ fact'[e] \in {"closed", "recovered"} <=>
                               (e \in {k} \/ fact[e] \in {"closed", "recovered"})
                          /\ e \notin {k} => fact'[e] = fact[e]
    BY <2>2
  <2>4. {k} \in SUBSET Events /\ \A e \in {k} : fact[e] = "open"
    BY <1>3
  <2> QED BY <1>1, <2>1, <2>3, <2>4, LedgerClose
<1> QED BY <1>2, <1>3

\* A description or a notification more, for an event that is stored.
LEMMA LedgerDescribe ==
  ASSUME NEW k \in Events, fact[k] # "none", UNCHANGED <<fact, tLast, tEnd, notif>>,
         NEW source \in {"initial_observation", "vlm"},
         desc' = [desc EXCEPT ![k] = Append(@, source)]
  PROVE  Ledger!Next
<1>1. Shown[k] # "none" /\ Shown' = Shown
  BY DEF Shown
<1>2. Ledger!Describe(k, source)
  BY <1>1 DEF Ledger!Describe, Shown
<1> QED BY <1>2 DEF Ledger!Next

\* INSERT OR IGNORE describes an event that has no description, or stutters.
LEMMA LedgerInitialDescription ==
  ASSUME TypeOK, NEW k \in Events, fact[k] # "none",
         UNCHANGED <<fact, tLast, tEnd, notif>>,
         desc' = WithInitialDescription(k)
  PROVE  Ledger!Next \/ UNCHANGED Ledger!vars
<1>1. CASE desc[k] # <<>>
  BY <1>1, LedgerStutter DEF WithInitialDescription
<1>2. CASE desc[k] = <<>>
  <2>1. Append(desc[k], "initial_observation") = <<"initial_observation">>
    BY <1>2
  <2>2. desc' = [desc EXCEPT ![k] = Append(@, "initial_observation")]
    BY <1>2, <2>1 DEF WithInitialDescription
  <2> QED BY <2>2, LedgerDescribe
<1> QED BY <1>1, <1>2

\* INSERT OR IGNORE notifies once, or stutters.
LEMMA LedgerInitialNotification ==
  ASSUME TypeOK, NEW k \in Events, fact[k] # "none",
         UNCHANGED <<fact, tLast, tEnd, desc>>,
         notif' = WithInitialNotification(k)
  PROVE  Ledger!Next \/ UNCHANGED Ledger!vars
<1>1. CASE notif[k] # "none"
  BY <1>1, LedgerStutter DEF WithInitialNotification
<1>2. CASE notif[k] = "none"
  <2>1. Shown[k] # "none" /\ Shown' = Shown
    BY DEF Shown
  <2>2. Ledger!Notify(k)
    BY <1>2, <2>1 DEF Ledger!Notify, Shown, WithInitialNotification
  <2> QED BY <2>2 DEF Ledger!Next
<1> QED BY <1>1, <1>2

\* Backfill, semantic updates and receipts are steps of the ledger.
LEMMA LedgerOthers ==
  ASSUME TypeOK, Inv, NEW k \in Events,
         \/ BackfillDescription(k) \/ BackfillNotification(k)
         \/ PublishSemanticUpdate(k) \/ MarkAvailable(k) \/ Acknowledge(k)
  PROVE  Ledger!Next \/ UNCHANGED Ledger!vars
<1>1. CASE BackfillDescription(k)
  BY <1>1, LedgerInitialDescription DEF BackfillDescription, Missing
<1>2. CASE BackfillNotification(k)
  BY <1>2, LedgerInitialNotification DEF BackfillNotification, Missing
<1>3. CASE PublishSemanticUpdate(k)
  BY <1>3, LedgerDescribe DEF PublishSemanticUpdate
<1>4. CASE MarkAvailable(k)
  <2>1. Ledger!Receipt(k, "available")
    BY <1>4 DEF MarkAvailable, Unread, Ledger!Receipt
  <2> QED BY <2>1 DEF Ledger!Next
<1>5. CASE Acknowledge(k)
  <2>1. Ledger!Receipt(k, "acknowledged")
    BY <1>5 DEF Acknowledge, Ledger!Receipt
  <2> QED BY <2>1 DEF Ledger!Next
<1> QED BY <1>1, <1>2, <1>3, <1>4, <1>5

\* Every call of the camera thread is a step of the ledger, or a stutter.
LEMMA LedgerCall ==
  ASSUME TypeOK, Inv, Call
  PROVE  Ledger!Next \/ UNCHANGED Ledger!vars
<1>1. PICK r \in Results : CallWith(r)
  BY DEF Call
<1>2. pc # NoTask
  BY <1>1, OpCall DEF CallWith, OpenFact, EnsureInitialDescription,
     EnsureInitialNotification, UpdateFact, CloseFact
<1>3. PICK k \in Events : k = pc.ev /\ On(k) /\ Row(k)
  BY <1>2, CallEvent DEF Inv
<1>4. CASE EnsureInitialDescription(r)
  <2>1. fact[k] # "none"
    BY <1>3, <1>4 DEF Row, CallRow, EnsureInitialDescription
  <2>2. desc' = desc \/ desc' = WithInitialDescription(k)
    BY <1>3, <1>4 DEF EnsureInitialDescription
  <2> QED BY <1>4, <2>1, <2>2, LedgerStutter, LedgerInitialDescription
          DEF EnsureInitialDescription
<1>5. CASE EnsureInitialNotification(r)
  <2>1. fact[k] # "none"
    BY <1>3, <1>5 DEF Row, CallRow, EnsureInitialNotification
  <2>2. notif' = notif \/ notif' = WithInitialNotification(k)
    BY <1>3, <1>5 DEF EnsureInitialNotification
  <2> QED BY <1>5, <2>1, <2>2, LedgerStutter, LedgerInitialNotification
          DEF EnsureInitialNotification
<1> QED BY <1>1, <1>3, <1>4, <1>5, LedgerOpenFact, LedgerUpdateFact,
           LedgerCloseFact DEF CallWith

\* Whatever fails and whenever the process goes down, a reader of the tables
\* sees a ledger: rows that open once, move forward, close once and for good.
THEOREM LedgerCorrect == Spec => LedgerSpec
<1>1. ASSUME TypeOK, Inv, [Next]_vars PROVE Ledger!Next \/ UNCHANGED Ledger!vars
  <2>1. CASE Process
    BY <1>1, <2>1, LedgerQuiet, LedgerBoot, LedgerRecovery DEF Process
  <2>2. CASE Others
    BY <1>1, <2>2, LedgerOthers DEF Others
  <2>3. CASE Call
    BY <1>1, <2>3, LedgerCall
  <2> QED BY <1>1, <2>1, <2>2, <2>3, LedgerQuiet DEF Next
<1>2. TypeOK /\ Inv /\ [Next]_vars => [Ledger!Next]_Ledger!vars
  BY <1>1
<1> QED BY <1>2, LedgerInit, Inductive, PTL DEF Spec, LedgerSpec, Ledger!Spec
=============================================================================
