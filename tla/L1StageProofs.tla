----------------------------- MODULE L1StageProofs -----------------------------
(***************************************************************************)
(* Proofs about L1Pipeline and L1Stage. The pipeline first, for any number *)
(* of cameras, either size of the protected place and any bounds. Then the *)
(* stage: the camera threads use the pipeline as L1Pipeline says, so that  *)
(* its theorems hold in the stage; and the facts of every followed camera  *)
(* only move forward and belong to the zones in force, for any cameras,    *)
(* limits and bounds.                                                      *)
(***************************************************************************)
EXTENDS L1Stage, FiniteSetTheorems, TLAPS

USE PipelineAssumption
-------------------------------------------------------------------------------
(* Types. *)

\* A camera's place among the sorted cameras is a number, and so is the next
\* turn.
LEMMA IndexType ==
    ASSUME known \subseteq Cams, NEW c \in known
    PROVE  /\ Index(c) \in Nat
           /\ Cardinality(known) \in Nat /\ Cardinality(known) > 0
           /\ (Index(c) + 1) % Cardinality(known) \in Nat
<1>1. IsFiniteSet(known)
  BY FS_Subset
<1>2. IsFiniteSet({d \in known : d < c})
  BY <1>1, FS_Subset
<1>3. Index(c) \in Nat
  BY <1>2, FS_CardinalityType DEF Index
<1>4. Cardinality(known) \in Nat /\ Cardinality(known) > 0
  BY <1>1, FS_CardinalityType, FS_EmptySet
<1>5. (Index(c) + 1) % Cardinality(known) \in Nat
  BY <1>3, <1>4
<1> QED
  BY <1>3, <1>4, <1>5

\* A task put into a well-typed camera's places leaves them well typed.
LEMMA FilledType ==
    ASSUME NEW s \in [Places -> MaybeTask], NEW t \in Tasks, NEW r
    PROVE  Filled(s, t, r) \in [Places -> MaybeTask]
<1>1. \A k \in Places : Displaced(s, k) \in [Places -> MaybeTask]
  BY DEF Displaced, MaybeTask, Places
<1> QED
  BY <1>1 DEF Filled, WithChange, WithLatest, WithPatrol, MaybeTask, Places

\* Expiry keeps types.
LEMMA SweptType ==
    ASSUME slot \in [Cams -> [Places -> MaybeTask]]
    PROVE  Swept \in [Cams -> [Places -> MaybeTask]]
BY DEF Swept, MaybeTask

\* The place served next of a camera with a waiting task holds that task.
LEMMA FrontTask ==
    ASSUME NEW s \in [Places -> MaybeTask], Waits(s)
    PROVE  Front(s) \in Places /\ s[Front(s)] \in Tasks
BY DEF Front, Waits, Places, MaybeTask

\* Refreshing a lifecycle gives a lifecycle.
LEMMA RefreshedType ==
    ASSUME lifecycle \in Lifecycles
    PROVE  Refreshed \in Lifecycles
BY DEF Refreshed, Lifecycles

\* Emptying everything is well typed.
LEMMA DrainType ==
    ASSUME Drain
    PROVE  /\ known' \subseteq Cams
           /\ slot' \in [Cams -> [Places -> MaybeTask]]
           /\ inflight' \in [Cams -> MaybeTask]
           /\ result' \in [Cams -> Results \cup {None}]
           /\ bypassed' \in [Cams -> Nat]
BY DEF Drain, NoSlots, MaybeTask


LEMMA SubmitType ==
    ASSUME TypeOK, NEW c \in Cams, NEW r \in Reasons, NEW v \in Revisions,
           Submit(c, r, v)
    PROVE  TypeOK'
<1> DEFINE t == [frame |-> frames[c] + 1, at |-> clock, cfg |-> v]
<1>1. t \in Tasks /\ frames' \in [Cams -> Nat]
  BY DEF TypeOK, Tasks, Submit
<1>2. CASE Accept(c, t, r)
  <2>1. Filled(slot[c], t, r) \in [Places -> MaybeTask]
    BY <1>1, FilledType DEF TypeOK
  <2>2. known' \subseteq Cams /\ slot' \in [Cams -> [Places -> MaybeTask]]
    BY <1>2, <2>1 DEF Accept, TypeOK
  <2> QED
    BY <1>1, <1>2, <2>2 DEF Accept, Submit, TypeOK
<1>3. CASE Refuse
  BY <1>1, <1>3, RefreshedType DEF Refuse, Submit, TypeOK
<1> QED
  BY <1>2, <1>3 DEF Submit

LEMMA PickType ==
    ASSUME TypeOK, NEW c \in Cams, Pick(c)
    PROVE  TypeOK'
<1> DEFINE s == Swept[c]
<1>1. Swept \in [Cams -> [Places -> MaybeTask]] /\ s \in [Places -> MaybeTask]
  BY SweptType DEF TypeOK
<1>2. Front(s) \in Places /\ s[Front(s)] \in Tasks
  BY <1>1, FrontTask DEF Pick, ItsTurn
<1>3. slot' \in [Cams -> [Places -> MaybeTask]]
  BY <1>1, <1>2 DEF Pick, MaybeTask
<1>4. inflight' \in [Cams -> MaybeTask]
  BY <1>2 DEF Pick, MaybeTask, TypeOK
<1>5. turn' \in Nat
  BY IndexType DEF Pick, TypeOK
<1>6. bypassed' \in [Cams -> Nat]
  BY DEF Pick, TypeOK
<1> QED
  BY <1>3, <1>4, <1>5, <1>6 DEF Pick, TypeOK, Workers

LEMMA FinishType ==
    ASSUME TypeOK, NEW c \in Cams, NEW st \in Statuses, Finish(c, st)
    PROVE  TypeOK'
<1>1. [task |-> inflight[c], status |-> st] \in Results
  BY DEF Finish, TypeOK, MaybeTask, Results
<1>2. result' \in [Cams -> Results \cup {None}]
  BY <1>1 DEF Finish, TypeOK
<1>3. inflight' \in [Cams -> MaybeTask] /\ loaded' \in BOOLEAN
  BY DEF Finish, TypeOK, MaybeTask
<1> QED
  BY <1>2, <1>3 DEF Finish, TypeOK, Workers

LEMMA InitType ==
    ASSUME Init
    PROVE  TypeOK
BY DEF Init, TypeOK, NoSlots, MaybeTask, Workers, Lifecycles

LEMMA NextType ==
    ASSUME TypeOK, [Next]_pipeVars
    PROVE  TypeOK'
<1>1. CASE Check
  BY <1>1 DEF Check, TypeOK, Workers
<1>2. CASE Idle
  <2>1. slot' \in [Cams -> [Places -> MaybeTask]]
    BY <1>2, SweptType DEF Idle, TypeOK
  <2> QED
    BY <1>2, <2>1 DEF Idle, TypeOK, Workers
<1>3. CASE Leave
  BY <1>3, DrainType DEF Leave, TypeOK, Workers
<1>4. CASE Settle
  BY <1>4 DEF Settle, TypeOK, Workers, Lifecycles
<1>5. CASE Exit
  BY <1>5 DEF Exit, TypeOK, Workers
<1>6. ASSUME NEW c \in Cams, Pick(c)
      PROVE  TypeOK'
  BY <1>6, PickType
<1>7. ASSUME NEW c \in Cams, NEW st \in Statuses, Finish(c, st)
      PROVE  TypeOK'
  BY <1>7, FinishType
<1>8. CASE Start
  BY <1>8 DEF Start, TypeOK, Workers
<1>9. CASE Stop
  BY <1>9 DEF Stop, TypeOK
<1>10. CASE Close
  BY <1>10 DEF Close, TypeOK, Lifecycles
<1>11. CASE CloseLate
  BY <1>11 DEF CloseLate, TypeOK, Lifecycles
<1>12. CASE CloseDone
  BY <1>12, DrainType DEF CloseDone, TypeOK, Lifecycles
<1>13. CASE Snapshot
  BY <1>13, RefreshedType DEF Snapshot, TypeOK
<1>14. CASE Tick
  BY <1>14 DEF Tick, TypeOK
<1>15. ASSUME NEW c \in Cams, TakeResult(c)
       PROVE  TypeOK'
  BY <1>15 DEF TakeResult, TypeOK
<1>16. ASSUME NEW c \in Cams, NEW r \in Reasons, NEW v \in Revisions,
              Submit(c, r, v)
       PROVE  TypeOK'
  BY <1>16, SubmitType
<1>17. CASE UNCHANGED pipeVars
  BY <1>17 DEF pipeVars, TypeOK
<1> QED
  BY <1>1, <1>2, <1>3, <1>4, <1>5, <1>6, <1>7, <1>8, <1>9, <1>10, <1>11, <1>12,
     <1>13, <1>14, <1>15, <1>16, <1>17 DEF Next, Work, Main

\* Every reachable state of the pipeline is well typed.
THEOREM TypeCorrect == Spec => []TypeOK
<1>1. Init => TypeOK
  BY InitType
<1>2. TypeOK /\ [Next]_pipeVars => TypeOK'
  BY NextType
<1> QED
  BY <1>1, <1>2, PTL DEF Spec
-------------------------------------------------------------------------------
(* What a stop leaves behind. *)

Empty ==
    \A c \in Cams : slot[c] = NoSlots /\ inflight[c] = None /\ result[c] = None

\* The worker leaves its loop because of a stop, it has emptied everything when
\* it settles, and only then, or when it never ran, is the pipeline stopped.
Ending ==
    /\ worker \in {"leaving", "drained", "exiting", "dead"} => Halted
    /\ worker \in {"new", "drained", "exiting", "dead"} => Empty
    /\ lifecycle = "stopped" => Halted /\ worker \in {"new", "exiting", "dead"}
    /\ closer = "joining" => closed

LEMMA DrainEmpties ==
    ASSUME Drain
    PROVE  Empty'
BY DEF Drain, Empty

\* Steps that leave the worker, the tasks and the results alone.
LEMMA StayEmpty ==
    ASSUME Empty, UNCHANGED <<slot, inflight>>, UNCHANGED result
    PROVE  Empty'
BY DEF Empty

LEMMA NextEnding ==
    ASSUME TypeOK, Ending, [Next]_pipeVars
    PROVE  Ending'
<1> USE DEF Ending, Halted, Alive
<1>1. CASE Check
  BY <1>1, StayEmpty DEF Check
<1>2. CASE Idle
  BY <1>2 DEF Idle
<1>3. CASE Leave
  BY <1>3, DrainEmpties DEF Leave
<1>4. CASE Settle
  BY <1>4, StayEmpty DEF Settle
<1>5. CASE Exit
  BY <1>5, StayEmpty DEF Exit
<1>6. ASSUME NEW c \in Cams, Pick(c)
      PROVE  Ending'
  BY <1>6 DEF Pick
<1>7. ASSUME NEW c \in Cams, NEW st \in Statuses, Finish(c, st)
      PROVE  Ending'
  BY <1>7 DEF Finish
<1>8. CASE Start
  BY <1>8, StayEmpty DEF Start
<1>9. CASE Stop
  BY <1>9, StayEmpty DEF Stop
<1>10. CASE Close
  BY <1>10, StayEmpty DEF Close
<1>11. CASE CloseLate
  BY <1>11, StayEmpty DEF CloseLate
<1>12. CASE CloseDone
  BY <1>12, DrainEmpties DEF CloseDone, TypeOK, Workers
<1>13. CASE Snapshot
  <2>1. Refreshed = "stopped" =>
          Halted /\ worker \in {"new", "exiting", "dead"}
    BY DEF Refreshed
  <2> QED
    BY <1>13, <2>1, StayEmpty DEF Snapshot
<1>14. CASE Tick
  BY <1>14, StayEmpty DEF Tick
<1>15. ASSUME NEW c \in Cams, TakeResult(c)
       PROVE  Ending'
  <2>1. Empty => Empty'
    BY <1>15 DEF TakeResult, Empty, TypeOK
  <2> QED
    BY <1>15, <2>1 DEF TakeResult
<1>16. ASSUME NEW c \in Cams, NEW r \in Reasons, NEW v \in Revisions,
              Submit(c, r, v)
       PROVE  Ending'
  <2>1. Refreshed = "stopped" =>
          Halted /\ worker \in {"new", "exiting", "dead"}
    BY DEF Refreshed
  <2>2. CASE Refuse
    BY <1>16, <2>1, <2>2, StayEmpty DEF Submit, Refuse
  <2>3. CASE Accept(c, [frame |-> frames[c] + 1, at |-> clock, cfg |-> v], r)
    BY <1>16, <2>3 DEF Submit, Accept
  <2> QED
    BY <1>16, <2>2, <2>3 DEF Submit
<1>17. CASE UNCHANGED pipeVars
  BY <1>17, StayEmpty DEF pipeVars
<1> QED
  BY <1>1, <1>2, <1>3, <1>4, <1>5, <1>6, <1>7, <1>8, <1>9, <1>10, <1>11, <1>12,
     <1>13, <1>14, <1>15, <1>16, <1>17 DEF Next, Work, Main

\* Ending holds in every reachable state.
THEOREM EndingInvariant == Spec => []Ending
<1>1. Init => Ending
  BY DEF Init, Ending, Empty
<1>2. TypeOK /\ Ending /\ [Next]_pipeVars => Ending'
  BY NextEnding
<1> QED
  BY <1>1, <1>2, TypeCorrect, PTL DEF Spec

\* A pipeline that says it is stopped holds no picture and no result: submit,
\* the worker's finally and close() see to it in every order of their steps.
THEOREM StoppedIsQuiet == Spec => []QuietAfterStop
<1>1. Ending => QuietAfterStop
  BY DEF Ending, Empty, QuietAfterStop
<1> QED
  BY <1>1, EndingInvariant, PTL

\* No result is published once a stop was asked for, and stopped is final, also
\* for a close() that gives up while the worker ends.
THEOREM StoppedForGood == Spec => HaltedForGood
<1> DEFINE Kept == /\ lifecycle = "stopped" => lifecycle' = "stopped"
                   /\ Halted => \A c \in Cams : result'[c] \in {result[c], None}
<1>1. TypeOK /\ Ending /\ [Next]_pipeVars => [Kept]_pipeVars
  <2> SUFFICES ASSUME TypeOK, Ending, Next PROVE Kept
    OBVIOUS
  <2> USE DEF Halted, Alive
  <2>1. CASE Work
    <3>1. ASSUME NEW c \in Cams, NEW st \in Statuses, Finish(c, st)
          PROVE  Kept
      BY <3>1 DEF Finish
    <3> QED
      BY <2>1, <3>1 DEF Work, Check, Idle, Leave, Settle, Exit, Pick, Drain, Ending
  <2>2. CASE Main
    BY <2>2 DEF Main, Start, Stop, Close, CloseLate, CloseDone, Drain
  <2>3. CASE Snapshot
    BY <2>3 DEF Snapshot, Refreshed
  <2>4. CASE Tick
    BY <2>4 DEF Tick
  <2>5. ASSUME NEW c \in Cams, TakeResult(c)
        PROVE  Kept
    BY <2>5 DEF TakeResult, TypeOK
  <2>6. ASSUME NEW c \in Cams, NEW r \in Reasons, NEW v \in Revisions,
               Submit(c, r, v)
        PROVE  Kept
    BY <2>6 DEF Submit, Accept, Refuse, Refreshed
  <2> QED
    BY <2>1, <2>2, <2>3, <2>4, <2>5, <2>6 DEF Next
<1> QED
  BY <1>1, TypeCorrect, EndingInvariant, PTL DEF Spec, HaltedForGood
-------------------------------------------------------------------------------
(* Where a picture is. *)

\* The pictures of camera c are in one place each, and were handed over.
Single(c) ==
    \A g, h \in Homes :
        /\ FrameAt(c, g) \in 0 .. frames[c]
        /\ g # h /\ FrameAt(c, g) # 0 => FrameAt(c, g) # FrameAt(c, h)
Homed == \A c \in Cams : Single(c)

\* Pictures may go.
LEMMA Fewer ==
    ASSUME NEW c \in Cams, Single(c), frames[c] \in Nat, frames'[c] \in Nat,
           frames'[c] >= frames[c],
           \A h \in Homes : FrameAt(c, h)' \in {0, FrameAt(c, h)}
    PROVE  Single(c)'
BY DEF Single

\* The picture at m may move to n, and a new one come to m.
LEMMA Moved ==
    ASSUME NEW c \in Cams, Single(c), frames[c] \in Nat, frames'[c] \in Nat,
           frames'[c] >= frames[c],
           NEW m \in Homes, NEW n \in Homes, m # n,
           \A h \in Homes \ {m, n} : FrameAt(c, h)' \in {0, FrameAt(c, h)},
           FrameAt(c, n)' \in {0, FrameAt(c, n), FrameAt(c, m)},
           \/ FrameAt(c, m)' = 0
           \/ FrameAt(c, m)' = frames[c] + 1 /\ frames'[c] = frames[c] + 1
    PROVE  Single(c)'
<1> SUFFICES ASSUME NEW g \in Homes, NEW h \in Homes
             PROVE  /\ FrameAt(c, g)' \in 0 .. frames'[c]
                    /\ g # h /\ FrameAt(c, g)' # 0 =>
                         FrameAt(c, g)' # FrameAt(c, h)'
  BY DEF Single
<1>1. \A k \in Homes : FrameAt(c, k) \in 0 .. frames[c]
  BY DEF Single
<1>2. FrameAt(c, g)' \in 0 .. frames'[c]
  BY <1>1
<1>3. ASSUME g # h, FrameAt(c, g)' # 0
      PROVE  FrameAt(c, g)' # FrameAt(c, h)'
  <2>1. \A j, k \in Homes : j # k /\ FrameAt(c, j) # 0 =>
                              FrameAt(c, j) # FrameAt(c, k)
    BY DEF Single
  <2>2. CASE g = m
    BY <1>1, <1>3, <2>1, <2>2
  <2>3. CASE g = n
    BY <1>1, <1>3, <2>1, <2>3
  <2>4. CASE g \notin {m, n}
    BY <1>1, <1>3, <2>1, <2>4
  <2> QED
    BY <2>2, <2>3, <2>4
<1> QED
  BY <1>2, <1>3

\* A camera's pictures depend on its own places only.
LEMMA SingleFrame ==
    ASSUME NEW c \in Cams, Single(c), frames[c] \in Nat,
           slot'[c] = slot[c], inflight'[c] = inflight[c],
           result'[c] = result[c], frames'[c] = frames[c]
    PROVE  Single(c)'
<1>1. \A h \in Homes : FrameAt(c, h)' = FrameAt(c, h)
  BY DEF FrameAt
<1> QED
  BY <1>1, Fewer

\* A task in an empty place, or in place of one that goes to the protected
\* place or is lost, keeps every picture in one place.
LEMMA FilledSingle ==
    ASSUME TypeOK, NEW c \in Cams, NEW r \in Reasons, NEW t \in Tasks, Single(c),
           t.frame = frames[c] + 1, frames'[c] = frames[c] + 1,
           slot'[c] = Filled(slot[c], t, r),
           UNCHANGED <<inflight, result>>
    PROVE  Single(c)'
<1> DEFINE s == slot[c]
<1>0. s \in [Places -> MaybeTask] /\ frames[c] \in Nat /\ None \notin Tasks
      /\ t.frame \in Nat \ {0}
  BY DEF TypeOK, Tasks
<1>1. ASSUME slot'[c] = s
      PROVE  Single(c)'
  <2>1. \A h \in Homes : FrameAt(c, h)' \in {0, FrameAt(c, h)}
    BY <1>1 DEF FrameAt
  <2>2. frames[c] \in Nat /\ frames'[c] \in Nat /\ frames'[c] >= frames[c]
    BY <1>0
  <2> HIDE DEF s
  <2> QED
    BY <2>1, <2>2, Fewer
<1>2. ASSUME NEW k \in {"change_start", "latest"},
             slot'[c] = [Displaced(s, k) EXCEPT ![k] = t]
      PROVE  Single(c)'
  <2>1. Displaced(s, k) \in [Places -> MaybeTask]
    BY <1>0 DEF Displaced, MaybeTask, Places
  <2>2. FrameAt(c, k)' = frames[c] + 1
    BY <1>0, <1>2, <2>1 DEF FrameAt, Places
  <2>3. FrameAt(c, "protected_latest")' \in
          {0, FrameAt(c, "protected_latest"), FrameAt(c, k)}
    BY <1>0, <1>2, <2>1 DEF FrameAt, Places, Displaced
  <2>4. \A h \in Homes \ {k, "protected_latest"} :
          FrameAt(c, h)' \in {0, FrameAt(c, h)}
    BY <1>0, <1>2, <2>1 DEF FrameAt, Places, Homes, Displaced
  <2> QED
    BY <1>0, <2>2, <2>3, <2>4, Moved DEF Homes, Places
<1>3. ASSUME slot'[c] = [s EXCEPT !["latest"] = t], s["latest"] = None
      PROVE  Single(c)'
  <2>1. slot'[c] = [Displaced(s, "latest") EXCEPT !["latest"] = t]
    BY <1>3 DEF Displaced
  <2> QED
    BY <1>2, <2>1
<1> QED
  BY <1>1, <1>2, <1>3 DEF Filled, WithChange, WithLatest, WithPatrol

LEMMA NextHomed ==
    ASSUME TypeOK, Homed, [Next]_pipeVars
    PROVE  Homed'
<1> SUFFICES ASSUME NEW d \in Cams
             PROVE  Single(d)'
  BY DEF Homed
<1>0. Single(d) /\ frames[d] \in Nat
  BY DEF Homed, TypeOK
<1>1. CASE UNCHANGED <<frames, slot, inflight, result>>
  BY <1>0, <1>1, SingleFrame
<1>2. CASE Drain /\ UNCHANGED frames
  <2>1. \A h \in Homes : FrameAt(d, h)' = 0
    BY <1>2 DEF Drain, FrameAt, NoSlots
  <2> QED
    BY <1>0, <1>2, <2>1, Fewer
<1>3. CASE Idle
  <2>1. \A h \in Homes : FrameAt(d, h)' \in {0, FrameAt(d, h)}
    BY <1>3 DEF Idle, FrameAt, Swept
  <2> QED
    BY <1>0, <1>3, <2>1, Fewer DEF Idle
<1>4. ASSUME NEW c \in Cams, Pick(c)
      PROVE  Single(d)'
  <2>a. Front(Swept[c]) \in Places /\ Swept[c][Front(Swept[c])] \in Tasks
    BY <1>4, SweptType, FrontTask DEF TypeOK, Pick, ItsTurn
  <2>b. PICK k \in Places : k = Front(Swept[c]) /\ Swept[c][k] \in Tasks
    BY <2>a
  <2>0. /\ Swept \in [Cams -> [Places -> MaybeTask]]
        /\ k \in Places /\ Swept[c][k] \in Tasks
    BY <2>b, SweptType DEF TypeOK
  <2>1. CASE d # c
    <3>1. \A h \in Homes : FrameAt(d, h)' \in {0, FrameAt(d, h)}
      BY <1>4, <2>0, <2>1 DEF Pick, FrameAt, Swept, TypeOK
    <3> QED
      BY <1>0, <1>4, <3>1, Fewer DEF Pick
  <2>2. CASE d = c
    <3>1. slot'[c] = [Swept[c] EXCEPT ![k] = None] /\ inflight'[c] = Swept[c][k]
      BY <1>4, <2>b, <2>0 DEF Pick, TypeOK
    <3>2. FrameAt(c, k)' = 0
      <4>1. Swept[c] \in [Places -> MaybeTask]
        BY <2>0
      <4>2. slot'[c][k] = None
        BY <2>0, <3>1, <4>1
      <4> QED
        BY <2>0, <4>2 DEF FrameAt
    <3>3. Swept[c][k] = slot[c][k] /\ slot[c][k] # None
      BY <2>0 DEF Swept
    <3>4. FrameAt(c, "inflight")' = FrameAt(c, k)
      BY <2>0, <3>1, <3>3 DEF FrameAt, Places
    <3>5. \A h \in Homes \ {k, "inflight"} : FrameAt(c, h)' \in {0, FrameAt(c, h)}
      BY <1>4, <2>0, <3>1 DEF FrameAt, Places, Homes, Swept, Pick
    <3>6. k # "inflight" /\ k \in Homes /\ "inflight" \in Homes
      BY <2>0 DEF Places, Homes
    <3>7. frames'[c] = frames[c] /\ frames[c] \in Nat /\ Single(c)
      BY <1>0, <1>4, <2>2 DEF Pick
    <3>8. Single(c)'
      BY <3>2, <3>4, <3>5, <3>6, <3>7, Moved
    <3> QED
      BY <2>2, <3>8
  <2> QED
    BY <2>1, <2>2
<1>5. ASSUME NEW c \in Cams, NEW st \in Statuses, Finish(c, st)
      PROVE  Single(d)'
  <2>1. CASE d # c
    BY <1>0, <1>5, <2>1, SingleFrame DEF Finish, TypeOK
  <2>2. CASE d = c
    <3>1. FrameAt(c, "inflight")' = 0
      BY <1>5 DEF Finish, FrameAt, Places, TypeOK
    <3>2. FrameAt(c, "result")' \in {FrameAt(c, "result"), FrameAt(c, "inflight")}
      <4>1. CASE Halted
        BY <1>5, <4>1 DEF Finish, FrameAt, Places
      <4>2. CASE ~Halted
        <5>1. result'[c] = [task |-> inflight[c], status |-> st]
          BY <1>5, <4>2 DEF Finish, TypeOK
        <5>2. [task |-> inflight[c], status |-> st] \in Results
          BY <1>5 DEF Finish, TypeOK, MaybeTask, Results
        <5> QED
          BY <1>5, <5>1, <5>2 DEF Finish, FrameAt, Places
      <4> QED
        BY <4>1, <4>2
    <3>3. \A h \in Homes \ {"inflight", "result"} :
            FrameAt(c, h)' = FrameAt(c, h)
      BY <1>5 DEF Finish, FrameAt, Homes
    <3>4. frames' = frames
      BY <1>5 DEF Finish
    <3> QED
      BY <1>0, <2>2, <3>1, <3>2, <3>3, <3>4, Moved DEF Homes
  <2> QED
    BY <2>1, <2>2
<1>6. ASSUME NEW c \in Cams, TakeResult(c)
      PROVE  Single(d)'
  <2>1. \A h \in Homes : FrameAt(d, h)' \in {0, FrameAt(d, h)}
    BY <1>6 DEF TakeResult, FrameAt, TypeOK
  <2> QED
    BY <1>0, <1>6, <2>1, Fewer DEF TakeResult
<1>7. ASSUME NEW c \in Cams, NEW r \in Reasons, NEW v \in Revisions,
             Submit(c, r, v)
      PROVE  Single(d)'
  <2> DEFINE t == [frame |-> frames[c] + 1, at |-> clock, cfg |-> v]
  <2>1. t \in Tasks /\ t.frame = frames[c] + 1
    BY DEF TypeOK, Tasks
  <2>2. UNCHANGED <<inflight, result>> /\ frames' = [frames EXCEPT ![c] = @ + 1]
    BY <1>7 DEF Submit
  <2>3. CASE d = c /\ Accept(c, t, r)
    <3>1. slot'[c] = Filled(slot[c], t, r) /\ frames'[c] = frames[c] + 1
      BY <2>2, <2>3 DEF Accept, TypeOK
    <3> QED
      BY <1>0, <2>1, <2>2, <2>3, <3>1, FilledSingle
  <2>4. CASE d # c /\ Accept(c, t, r)
    <3>1. slot'[d] = slot[d] /\ frames'[d] = frames[d]
      BY <2>2, <2>4 DEF Accept, TypeOK
    <3> QED
      BY <1>0, <2>2, <3>1, SingleFrame
  <2>5. CASE Refuse
    <3>1. \A h \in Homes : FrameAt(d, h)' = FrameAt(d, h)
      BY <2>2, <2>5 DEF Refuse, FrameAt
    <3>2. frames'[d] \in Nat /\ frames'[d] >= frames[d]
      BY <1>0, <2>2 DEF TypeOK
    <3> QED
      BY <1>0, <3>1, <3>2, Fewer
  <2> QED
    BY <1>7, <2>3, <2>4, <2>5 DEF Submit
<1> QED
  BY <1>1, <1>2, <1>3, <1>4, <1>5, <1>6, <1>7
     DEF Next, Work, Main, Check, Leave, Settle, Exit, Start, Stop, Close,
         CloseLate, CloseDone, Snapshot, Tick, pipeVars

\* In every reachable state, each picture of a camera is in one place.
THEOREM OneHomeCorrect == Spec => []OneHome
<1>1. Init => Homed
  BY DEF Init, Homed, Single, FrameAt, NoSlots, Homes, Places
<1>2. TypeOK /\ Homed /\ [Next]_pipeVars => Homed'
  BY NextHomed
<1>3. Homed => OneHome
  BY DEF Homed, Single, OneHome
<1> QED
  BY <1>1, <1>2, <1>3, TypeCorrect, PTL DEF Spec
-------------------------------------------------------------------------------
(* The turns of the cameras. *)

Rank(S, c) == Cardinality({d \in S : d < c})

\* The members of a set of cameras have different ranks below its size.
LEMMA Ranks ==
    ASSUME NEW S \in SUBSET Cams
    PROVE  /\ IsFiniteSet(S) /\ Cardinality(S) \in Nat
           /\ \A c \in Cams : Rank(S, c) \in Nat
           /\ \A c \in S : Rank(S, c) < Cardinality(S)
           /\ \A c, d \in S : c < d => Rank(S, c) < Rank(S, d)
<1>1. IsFiniteSet(S) /\ Cardinality(S) \in Nat
  BY FS_Subset, FS_CardinalityType
<1>2. ASSUME NEW T \in SUBSET S
      PROVE  IsFiniteSet(T) /\ Cardinality(T) \in Nat
             /\ Cardinality(T) <= Cardinality(S)
  BY <1>1, FS_Subset, FS_CardinalityType
<1>3. \A c \in Cams : Rank(S, c) \in Nat
  BY <1>2 DEF Rank
<1>4. ASSUME NEW c \in S
      PROVE  Rank(S, c) < Cardinality(S)
  <2> DEFINE T == {d \in S : d < c}
  <2>1. c \notin T /\ IsFiniteSet(T) /\ Cardinality(T) \in Nat
    BY <1>2
  <2>2. Cardinality(T \cup {c}) = Cardinality(T) + 1
    BY <2>1, FS_AddElement
  <2>3. Cardinality(T \cup {c}) <= Cardinality(S)
    BY <1>2
  <2> QED
    BY <1>1, <2>1, <2>2, <2>3 DEF Rank
<1>5. ASSUME NEW c \in S, NEW d \in S, c < d
      PROVE  Rank(S, c) < Rank(S, d)
  <2> DEFINE T == {x \in S : x < c}
             U == {x \in S : x < d}
  <2>1. c \notin T /\ IsFiniteSet(T) /\ Cardinality(T) \in Nat
    BY <1>2
  <2>2. Cardinality(T \cup {c}) = Cardinality(T) + 1
    BY <2>1, FS_AddElement
  <2>3. T \cup {c} \subseteq U
    <3> SUFFICES ASSUME NEW x \in T \cup {c}
                 PROVE  x < d
      OBVIOUS
    <3>1. c \in Nat /\ d \in Nat /\ x \in Nat /\ (x = c \/ x < c)
      OBVIOUS
    <3> QED
      BY <1>5, <3>1
  <2>4. IsFiniteSet(U) /\ Cardinality(U) \in Nat
    BY <1>2
  <2>5. Cardinality(T \cup {c}) <= Cardinality(U)
    BY <2>3, <2>4, FS_Subset
  <2> QED
    BY <2>1, <2>2, <2>4, <2>5 DEF Rank
<1> QED
  BY <1>1, <1>3, <1>4, <1>5

\* A camera that joins moves the others by one place at most.
LEMMA RankJoin ==
    ASSUME NEW S \in SUBSET Cams, NEW e \in Cams, e \notin S, NEW c \in Cams
    PROVE  /\ Cardinality(S \cup {e}) = Cardinality(S) + 1
           /\ Rank(S \cup {e}, c) \in {Rank(S, c), Rank(S, c) + 1}
<1>1. IsFiniteSet(S)
  BY Ranks
<1>2. Cardinality(S \cup {e}) = Cardinality(S) + 1
  BY <1>1, FS_AddElement
<1> DEFINE T == {d \in S : d < c}
<1>3. IsFiniteSet(T) /\ e \notin T
  BY <1>1, FS_Subset
<1>4. Cardinality(T \cup {e}) = Cardinality(T) + 1
  BY <1>3, FS_AddElement
<1>5. {d \in S \cup {e} : d < c} \in {T, T \cup {e}}
  BY SMT
<1> QED
  BY <1>2, <1>4, <1>5 DEF Rank

\* How far the turn t is from rank i, of n.
LEMMA Turns ==
    ASSUME NEW n \in Nat \ {0}, NEW i \in 0 .. n - 1, NEW t \in 0 .. n - 1
    PROVE  /\ (i - t) % n = IF i >= t THEN i - t ELSE i - t + n
           /\ (i + 1) % n = IF i = n - 1 THEN 0 ELSE i + 1
<1>1. \A x \in 0 .. n - 1 : x % n = x
  OBVIOUS
<1>2. \A y \in Int : -n <= y /\ y < 0 => y % n = y + n
  OBVIOUS
<1> QED
  BY <1>1, <1>2

\* A camera's distance from the turn, with what it has been passed over, stays
\* within two rounds: a camera that joins adds itself and, by moving the turn
\* back, one that has been served.
Served ==
    /\ known = {} => Halted \/ turn = 0
    /\ known # {} => turn < Cardinality(known)
    /\ \A c \in Cams \ known : bypassed[c] = 0 /\ slot[c] = NoSlots
    /\ \A c \in known :
         bypassed[c] + Distance(c) <= 2 * (Cardinality(known) - 1)

\* The distance of a known camera, from its rank.
LEMMA DistanceOf ==
    ASSUME TypeOK, Served, NEW c \in known
    PROVE  /\ Cardinality(known) \in Nat \ {0}
           /\ Index(c) \in 0 .. Cardinality(known) - 1
           /\ turn \in 0 .. Cardinality(known) - 1
           /\ Distance(c) = IF Index(c) >= turn THEN Index(c) - turn
                            ELSE Index(c) - turn + Cardinality(known)
           /\ Distance(c) \in 0 .. Cardinality(known) - 1
<1>1. /\ Cardinality(known) \in Nat \ {0}
      /\ Index(c) \in 0 .. Cardinality(known) - 1
      /\ turn \in 0 .. Cardinality(known) - 1
  BY Ranks, IndexType DEF TypeOK, Served, Index, Rank
<1>2. Distance(c) = IF Index(c) >= turn THEN Index(c) - turn
                    ELSE Index(c) - turn + Cardinality(known)
  BY <1>1, Turns DEF Distance
<1> QED
  BY <1>1, <1>2

\* Two cameras are not at the same distance.
LEMMA DistancesDiffer ==
    ASSUME TypeOK, Served, NEW c \in known, NEW d \in known, c # d
    PROVE  Distance(c) # Distance(d)
<1>1. Index(c) # Index(d)
  <2>1. c \in Nat /\ d \in Nat /\ known \in SUBSET Cams
    BY DEF TypeOK
  <2>2. CASE c < d
    BY <2>1, <2>2, Ranks DEF Index, Rank
  <2>3. CASE d < c
    BY <2>1, <2>3, Ranks DEF Index, Rank
  <2> QED
    BY <2>1, <2>2, <2>3
<1> QED
  BY <1>1, DistanceOf

\* After the service of c the turn is nearer to every other camera.
LEMMA Nearer ==
    ASSUME TypeOK, Served, NEW c \in Cams, Pick(c), NEW d \in known, d # c,
           Waits(Swept[d])
    PROVE  Distance(d)' < Distance(d)
<1> DEFINE n == Cardinality(known)
           i == Index(c)
           j == Index(d)
<1>1. c \in known /\ Distance(c) <= Distance(d)
  BY DEF Pick, ItsTurn
<1>2. /\ n \in Nat \ {0} /\ i \in 0 .. n - 1 /\ j \in 0 .. n - 1
      /\ turn \in 0 .. n - 1
      /\ Distance(c) = IF i >= turn THEN i - turn ELSE i - turn + n
      /\ Distance(d) = IF j >= turn THEN j - turn ELSE j - turn + n
  BY <1>1, DistanceOf
<1>3. Distance(c) < Distance(d)
  BY <1>1, <1>2, DistancesDiffer
<1>4. turn' = IF i = n - 1 THEN 0 ELSE i + 1
  BY <1>2, Turns DEF Pick
<1>5. turn' \in 0 .. n - 1
  BY <1>2, <1>4
<1>6. Distance(d)' = (j - turn') % n
  BY DEF Distance, Index, Pick
<1>7. Distance(d)' = IF j >= turn' THEN j - turn' ELSE j - turn' + n
  BY <1>2, <1>5, <1>6, Turns
<1> QED
  BY <1>2, <1>3, <1>4, <1>7

LEMMA PickServed ==
    ASSUME TypeOK, Served, NEW c \in Cams, Pick(c)
    PROVE  Served'
<1>0. /\ c \in known /\ known' = known /\ UNCHANGED <<stop, closed>>
      /\ turn' = (Index(c) + 1) % Cardinality(known)
      /\ bypassed' = [d \in Cams |-> IF d # c /\ Waits(Swept[d])
                                     THEN bypassed[d] + 1 ELSE 0]
  BY DEF Pick
<1>1. /\ Cardinality(known) \in Nat \ {0}
      /\ Index(c) \in 0 .. Cardinality(known) - 1
  BY <1>0, DistanceOf
<1>2. turn' \in 0 .. Cardinality(known) - 1
  BY <1>0, <1>1, Turns
<1>3. ASSUME NEW d \in Cams \ known
      PROVE  bypassed'[d] = 0 /\ slot'[d] = NoSlots
  <2>1. Swept[d] = NoSlots /\ ~Waits(Swept[d])
    BY DEF Served, Swept, NoSlots, Waits, Expired
  <2>2. slot'[d] = Swept[d]
    BY <1>0, SweptType DEF Pick, TypeOK
  <2> QED
    BY <1>0, <2>1, <2>2
<1>4. ASSUME NEW d \in known
      PROVE  bypassed'[d] + Distance(d)' <= 2 * (Cardinality(known) - 1)
  <2>0. /\ d \in Cams /\ bypassed[d] \in Nat
        /\ bypassed[d] + Distance(d) <= 2 * (Cardinality(known) - 1)
        /\ Distance(d) \in Nat /\ Index(d) \in 0 .. Cardinality(known) - 1
    BY DistanceOf DEF TypeOK, Served
  <2>1. Distance(d)' = (Index(d) - turn') % Cardinality(known)
    BY <1>0 DEF Distance, Index
  <2>2. Distance(d)' \in 0 .. Cardinality(known) - 1
    BY <1>1, <1>2, <2>0, <2>1, Turns
  <2>3. CASE d # c /\ Waits(Swept[d])
    <3>1. Distance(d)' < Distance(d)
      BY <2>3, Nearer
    <3>2. bypassed'[d] = bypassed[d] + 1
      BY <1>0, <2>0, <2>3
    <3> QED
      BY <1>1, <2>0, <2>2, <3>1, <3>2
  <2>4. CASE ~(d # c /\ Waits(Swept[d]))
    <3>1. bypassed'[d] = 0
      BY <1>0, <2>0, <2>4
    <3> QED
      BY <1>1, <2>2, <3>1
  <2> QED
    BY <2>3, <2>4
<1> QED
  BY <1>0, <1>1, <1>2, <1>3, <1>4 DEF Served, Halted

LEMMA JoinServed ==
    ASSUME TypeOK, Served, NEW e \in Cams, ~Halted, known' = known \cup {e},
           slot' = [slot EXCEPT ![e] = slot'[e]],
           UNCHANGED <<stop, closed, turn, bypassed>>
    PROVE  Served'
<1> DEFINE n == Cardinality(known)
<1>0. known \in SUBSET Cams /\ n \in Nat /\ (n = 0 <=> known = {})
  BY Ranks, FS_EmptySet DEF TypeOK
<1>1. \A d \in Cams \ known' : bypassed'[d] = 0 /\ slot'[d] = NoSlots
  BY DEF Served, TypeOK
<1>2. CASE e \in known
  <2>1. known' = known
    BY <1>2
  <2>2. \A d \in known : Distance(d)' = Distance(d)
    BY <2>1 DEF Distance, Index
  <2> QED
    BY <1>1, <2>1, <2>2 DEF Served, Halted
<1>3. CASE e \notin known
  <2>1. Cardinality(known') = n + 1
    BY <1>0, <1>3, RankJoin
  <2>2. turn \in 0 .. n
    BY <1>0 DEF Served, TypeOK
  <2>3. \A d \in known' : Index(d)' \in 0 .. n
    <3>1. known' \in SUBSET Cams
      BY <1>0
    <3> QED
      BY <1>0, <2>1, <3>1, Ranks DEF Index, Rank
  <2>4. ASSUME NEW d \in known'
        PROVE  bypassed'[d] + Distance(d)' <= 2 * n
    <3>1. Distance(d)' = (Index(d)' - turn) % (n + 1)
      BY <2>1 DEF Distance
    <3>2. Distance(d)' = IF Index(d)' >= turn THEN Index(d)' - turn
                         ELSE Index(d)' - turn + (n + 1)
      BY <1>0, <2>2, <2>3, <3>1, Turns
    <3>3. CASE d = e
      <4>1. bypassed'[d] = 0
        BY <1>3, <3>3 DEF Served
      <4> QED
        BY <1>0, <2>2, <2>3, <3>2, <4>1
    <3>4. CASE d \in known
      <4>1. Index(d)' \in {Index(d), Index(d) + 1}
        BY <1>0, <1>3, <3>4, RankJoin DEF Index, Rank
      <4>2. /\ bypassed[d] + Distance(d) <= 2 * (n - 1) /\ bypassed[d] \in Nat
            /\ Index(d) \in 0 .. n - 1 /\ turn \in 0 .. n - 1
            /\ Distance(d) = IF Index(d) >= turn THEN Index(d) - turn
                             ELSE Index(d) - turn + n
        BY <1>0, <3>4, DistanceOf DEF Served, TypeOK
      <4> QED
        BY <1>0, <2>2, <2>3, <3>2, <4>1, <4>2
    <3> QED
      BY <3>3, <3>4
  <2>5. known' # {} /\ turn < n + 1
    BY <1>0, <2>2
  <2> QED
    BY <1>0, <1>1, <2>1, <2>4, <2>5 DEF Served
<1> QED
  BY <1>2, <1>3

\* Steps that leave the turns alone.
LEMMA StayServed ==
    ASSUME TypeOK, Served, UNCHANGED <<known, turn, bypassed>>, Halted => Halted',
           \A c \in Cams \ known : slot'[c] = slot[c]
    PROVE  Served'
<1>1. \A c \in known : Distance(c)' = Distance(c)
  BY DEF Distance, Index
<1> QED
  BY <1>1 DEF Served

LEMMA NextServed ==
    ASSUME TypeOK, Ending, Served, [Next]_pipeVars
    PROVE  Served'
<1>1. CASE UNCHANGED <<slot, known, turn, bypassed>> /\ (Halted => Halted')
  BY <1>1, StayServed
<1>2. CASE Drain /\ Halted /\ Halted'
  BY <1>2 DEF Drain, Served, NoSlots
<1>3. CASE Idle
  <2>1. \A c \in Cams \ known : slot'[c] = NoSlots
    BY <1>3 DEF Idle, Served, Swept, NoSlots, Expired
  <2>2. \A c \in known : Distance(c)' = Distance(c) /\ Distance(c) \in Nat
    BY <1>3, DistanceOf DEF Idle, Distance, Index
  <2>3. \A c \in known : Distance(c)' <= 2 * (Cardinality(known) - 1)
    BY <2>2, DistanceOf
  <2>4. \A c \in Cams : bypassed'[c] = 0
    BY <1>3 DEF Idle
  <2>5. known \subseteq Cams /\ \A c \in known : 0 + Distance(c)' = Distance(c)'
    BY <2>2 DEF TypeOK
  <2> QED
    BY <1>3, <2>1, <2>2, <2>3, <2>4, <2>5 DEF Idle, Served, Halted
<1>4. ASSUME NEW c \in Cams, Pick(c)
      PROVE  Served'
  BY <1>4, PickServed
<1>5. ASSUME NEW c \in Cams, NEW r \in Reasons, NEW v \in Revisions,
             Submit(c, r, v), ~Refuse
      PROVE  Served'
  <2>1. PICK t : Accept(c, t, r)
    BY <1>5 DEF Submit
  <2>2. slot' = [slot EXCEPT ![c] = slot'[c]]
    BY <2>1 DEF Accept, TypeOK
  <2> QED
    BY <1>5, <2>1, <2>2, JoinServed DEF Submit, Accept
<1>6. Work => \/ UNCHANGED <<slot, known, turn, bypassed>> /\ (Halted => Halted')
              \/ Drain /\ Halted /\ Halted'
              \/ Idle \/ \E c \in Cams : Pick(c)
  BY DEF Work, Check, Leave, Settle, Exit, Finish, Ending, Halted
<1> QED
  BY <1>1, <1>2, <1>3, <1>4, <1>5, <1>6
     DEF Next, Main, Start, Stop, Close, CloseLate, CloseDone, Snapshot, Tick,
         TakeResult, Submit, Refuse, pipeVars, Halted, Ending

\* However much the other cameras submit, and whichever join meanwhile, a camera
\* with a waiting task is passed over at most twice by each of the others.
THEOREM NobodyStarves == Spec => []BoundedBypass
<1>1. Init => Served
  BY DEF Init, Served
<1>2. TypeOK /\ Ending /\ Served /\ [Next]_pipeVars => Served'
  BY NextServed
<1>3. TypeOK /\ Served => BoundedBypass
  <2> SUFFICES ASSUME TypeOK, Served, NEW c \in known
               PROVE  bypassed[c] <= 2 * (Cardinality(known) - 1)
    BY DEF BoundedBypass
  <2>1. bypassed[c] \in Nat /\ Distance(c) \in Nat /\ Cardinality(known) \in Nat
    BY DistanceOf DEF TypeOK
  <2> QED
    BY <2>1 DEF Served
<1> QED
  BY <1>1, <1>2, <1>3, TypeCorrect, EndingInvariant, PTL DEF Spec
-------------------------------------------------------------------------------
(* The stage runs the pipeline. *)

HIDE PipelineAssumption

\* Zone revisions, the ones cameras stamp on what they submit, are revisions.
RevisionsOK ==
    /\ on \subseteq Cams
    /\ rev \in [Followed -> Revisions] /\ wanted \in [Followed -> Revisions]

\* New zones have the revision that was asked for.
LEMMA ZonesRevisions ==
    ASSUME RevisionsOK, NEW c \in Followed, Zones(c), UNCHANGED <<on, wanted>>
    PROVE  RevisionsOK'
BY DEF RevisionsOK, Zones

LEMMA NextRevisions ==
    ASSUME RevisionsOK, [StageNext]_vars
    PROVE  RevisionsOK'
<1> USE DEF RevisionsOK
<1>1. CASE UNCHANGED vars
  BY <1>1 DEF vars, monVars
<1>2. ASSUME NEW c \in Followed, Thread(c)
      PROVE  RevisionsOK'
  <2>1. CASE Select(c)
    BY <2>1, ZonesRevisions DEF Select
  <2> QED
    BY <1>2, <2>1 DEF Thread, Read, ConsumeObservation, ConsumeFailure,
       ConsumeNothing, Watch
<1>3. ASSUME NEW c \in Followed, Reconfigure(c)
      PROVE  RevisionsOK'
  BY <1>3 DEF Reconfigure
<1>4. CASE WorkerStep \/ MainThread \/ StageTick
  BY <1>4 DEF WorkerStep, MainThread, StageTick, monVars
<1>5. ASSUME NEW c \in on, Other(c)
      PROVE  RevisionsOK'
  BY <1>5 DEF Other, monVars
<1> QED
  BY <1>1, <1>2, <1>3, <1>4, <1>5 DEF StageNext

\* What a camera does with its material is a submission or nothing.
LEMMA MaterialStep ==
    ASSUME NEW c \in Cams, NEW motion, Material(c, motion), rev'[c] \in Revisions
    PROVE  [Next]_pipeVars
<1>1. \A r \in Reasons : Submit(c, r, rev'[c]) => Next
  BY DEF Next
<1> QED
  BY <1>1 DEF Material, Reasons

LEMMA StageStep ==
    ASSUME RevisionsOK, [StageNext]_vars
    PROVE  [Next]_pipeVars
<1> USE StageAssumption
<1>1. CASE UNCHANGED vars
  BY <1>1 DEF vars
<1>2. ASSUME NEW c \in Followed, Thread(c)
      PROVE  [Next]_pipeVars
  <2>1. CASE Select(c)
    <3>1. rev'[c] \in Revisions
      BY <2>1 DEF Select, Zones, RevisionsOK
    <3> QED
      BY <2>1, <3>1, MaterialStep DEF Select
  <2>2. CASE Read(c)
    BY <2>2 DEF Read, Next
  <2> QED
    BY <1>2, <2>1, <2>2 DEF Thread, ConsumeObservation, ConsumeFailure,
       ConsumeNothing, Watch
<1>3. ASSUME NEW c \in Followed, Reconfigure(c)
      PROVE  [Next]_pipeVars
  BY <1>3 DEF Reconfigure
<1>4. CASE WorkerStep
  <2>1. \A c \in Cams : Verdicts(c) \subseteq Statuses
    BY DEF Verdicts, Statuses
  <2> QED
    BY <1>4, <2>1 DEF WorkerStep, Next, Work
<1>5. CASE MainThread
  BY <1>5 DEF MainThread, Next, Main
<1>6. CASE StageTick
  BY <1>6 DEF StageTick, Next
<1>7. ASSUME NEW c \in on, Other(c)
      PROVE  [Next]_pipeVars
  <2>1. c \in Cams /\ 0 \in Revisions
    BY PipelineAssumption DEF RevisionsOK, Revisions
  <2> QED
    BY <1>7, <2>1 DEF Other, Next
<1> QED
  BY <1>1, <1>2, <1>3, <1>4, <1>5, <1>6, <1>7 DEF StageNext

LEMMA StageRevisions == StageSpec => []RevisionsOK
<1>1. StageInit => RevisionsOK
  BY StageAssumption, PipelineAssumption
     DEF StageInit, All, RevisionsOK, Revisions
<1>2. RevisionsOK /\ [StageNext]_vars => RevisionsOK'
  BY NextRevisions
<1> QED
  BY <1>1, <1>2, PTL DEF StageSpec

\* The stage is the pipeline with its users: every behaviour of the stage is one
\* of L1Pipeline, whose theorems therefore hold in it.
THEOREM StageRunsPipeline == StageSpec => Spec
<1>1. StageInit => Init
  BY DEF StageInit
<1>2. RevisionsOK /\ [StageNext]_vars => [Next]_pipeVars
  BY StageStep
<1> QED
  BY <1>1, <1>2, StageRevisions, PTL DEF StageSpec, Spec
-------------------------------------------------------------------------------
(* The facts of a camera. *)

\* The pipeline holds task t of camera c, or its Monitor does.
InPipe(c, t) ==
    \/ \E k \in Places : slot[c][k] = t
    \/ inflight[c] = t
    \/ result[c] # None /\ result[c].task = t
Waiting(c, t) == pending[c] # None /\ pending[c].task = t
Has(c, t) == InPipe(c, t) \/ Waiting(c, t)

\* Later frames of a camera are not captured earlier.
Ordered(c) ==
    \A t, u \in Tasks :
        Has(c, t) /\ Has(c, u) /\ t.frame < u.frame => t.at <= u.at

\* What the camera has handed over is not of the future, belongs to the zones in
\* force if it has their revision, and, if it is newer than what was consumed,
\* was not captured before the last observation.
Placed(c) ==
    \A t \in Tasks : Has(c, t) =>
        /\ t.frame <= frames[c] /\ t.at <= clock /\ t.cfg <= rev[c]
        /\ t.cfg = rev[c] => switched[c] <= t.at
        /\ t.frame > consumed[c] /\ answered[c] # None => answered[c] <= t.at

MonitorOK(c) ==
    /\ rev[c] <= wanted[c]
    /\ consumed[c] <= frames[c] /\ switched[c] <= clock
    /\ answered[c] # None => answered[c] <= clock
    /\ enter[c] # None =>
         /\ seenAt[c] # None /\ answered[c] # None
         /\ switched[c] <= enter[c] /\ enter[c] <= answered[c]
    /\ snap[c] # None =>
         enter[c] # None /\ snap[c] + enter[c] <= answered[c]

CameraOK(c) == Ordered(c) /\ Placed(c) /\ MonitorOK(c)
StageInv == TypeOK /\ MonTypeOK /\ \A c \in Followed : CameraOK(c)

\* Submit and the other steps of the pipeline: a camera's tasks stay or go, but
\* for the one it submits.
LEMMA FilledTasks ==
    ASSUME NEW s \in [Places -> MaybeTask], NEW t \in Tasks, NEW r,
           NEW k \in Places
    PROVE  Filled(s, t, r)[k] = t \/ \E j \in Places : Filled(s, t, r)[k] = s[j]
<1>1. ASSUME NEW p \in Places
      PROVE  /\ Displaced(s, p) \in [Places -> MaybeTask]
             /\ \E j \in Places : Displaced(s, p)[k] = s[j]
  BY DEF Displaced, Places, MaybeTask
<1> QED
  BY <1>1 DEF Filled, WithChange, WithLatest, WithPatrol, Places

LEMMA SubmitTasks ==
    ASSUME TypeOK, NEW c \in Cams, NEW r \in Reasons, NEW v \in Revisions,
           Submit(c, r, v)
    PROVE  /\ \A d \in Cams, u \in Tasks : InPipe(d, u)' =>
                \/ InPipe(d, u)
                \/ d = c /\ u = [frame |-> frames[c] + 1, at |-> clock, cfg |-> v]
           /\ frames' = [frames EXCEPT ![c] = frames[c] + 1]
           /\ clock' = clock
<1> DEFINE t == [frame |-> frames[c] + 1, at |-> clock, cfg |-> v]
<1>1. t \in Tasks
  BY DEF TypeOK, Tasks
<1>2. UNCHANGED <<inflight, result>>
  BY DEF Submit
<1>3. CASE Accept(c, t, r)
  <2> SUFFICES ASSUME NEW d \in Cams, NEW u \in Tasks, InPipe(d, u)',
                      ~InPipe(d, u)
               PROVE  d = c /\ u = t
    BY DEF Submit
  <2>1. PICK k \in Places : slot'[d][k] = u
    BY <1>2 DEF InPipe
  <2>2. d = c
    BY <1>3, <2>1 DEF Accept, InPipe, TypeOK
  <2>3. Filled(slot[c], t, r)[k] = u
    BY <1>3, <2>1, <2>2 DEF Accept, TypeOK
  <2>4. u = t
    <3>1. slot[c] \in [Places -> MaybeTask]
      BY DEF TypeOK
    <3>2. \A j \in Places : slot[c][j] # u
      BY <2>2 DEF InPipe
    <3> QED
      BY <1>1, <2>3, <3>1, <3>2, FilledTasks
  <2> QED
    BY <2>2, <2>4
<1>4. CASE Refuse
  BY <1>2, <1>4 DEF Refuse, InPipe, Submit
<1> QED
  BY <1>3, <1>4 DEF Submit

LEMMA OtherTasks ==
    ASSUME TypeOK,
           \/ UNCHANGED pipeVars
           \/ Work \/ Main \/ Snapshot \/ Tick
           \/ \E c \in Cams : TakeResult(c)
    PROVE  /\ \A d \in Cams, u \in Tasks : InPipe(d, u)' => InPipe(d, u)
           /\ frames' = frames
           /\ clock' \in {clock, clock + 1}
<1> USE PipelineAssumption
<1>1. CASE UNCHANGED <<slot, inflight, result>>
  BY <1>1 DEF InPipe, pipeVars, Work, Main, Check, Idle, Leave, Settle, Exit, Pick,
     Finish, Start, Stop, Close, CloseLate, CloseDone, Snapshot, Tick, TakeResult
<1>2. CASE Drain /\ UNCHANGED <<frames, clock>>
  BY <1>2 DEF Drain, NoSlots, InPipe
<1>3. CASE Idle
  BY <1>3 DEF Idle, Swept, InPipe
<1>4. ASSUME NEW c \in Cams, Pick(c)
      PROVE  /\ \A d \in Cams, u \in Tasks : InPipe(d, u)' => InPipe(d, u)
             /\ frames' = frames /\ clock' = clock
  <2>1. Front(Swept[c]) \in Places /\ Swept[c][Front(Swept[c])] \in Tasks
    BY <1>4, SweptType, FrontTask DEF TypeOK, Pick, ItsTurn
  <2>2. PICK k \in Places : k = Front(Swept[c]) /\ Swept[c][k] \in Tasks
    BY <2>1
  <2>3. Swept[c][k] = slot[c][k]
    BY <2>2 DEF Swept
  <2>4. inflight' = [inflight EXCEPT ![c] = slot[c][k]]
    BY <1>4, <2>2, <2>3 DEF Pick
  <2>5. ASSUME NEW d \in Cams, NEW j \in Places
        PROVE  slot'[d][j] \in {None, slot[d][j]}
    <3>1. Swept \in [Cams -> [Places -> MaybeTask]]
      BY SweptType DEF TypeOK
    <3>2. slot'[d][j] \in {None, Swept[d][j]}
      BY <1>4, <2>2, <3>1 DEF Pick
    <3> QED
      BY <3>2 DEF Swept
  <2> QED
    BY <1>4, <2>4, <2>5 DEF Pick, InPipe, TypeOK
<1>5. ASSUME NEW c \in Cams, NEW st \in Statuses, Finish(c, st)
      PROVE  /\ \A d \in Cams, u \in Tasks : InPipe(d, u)' => InPipe(d, u)
             /\ frames' = frames /\ clock' = clock
  <2> DEFINE res == [task |-> inflight[c], status |-> st]
  <2>1. result' = result \/ result' = [result EXCEPT ![c] = res]
    BY <1>5 DEF Finish
  <2>2. inflight' = [inflight EXCEPT ![c] = None] /\ slot' = slot
    BY <1>5 DEF Finish
  <2> QED
    BY <1>5, <2>1, <2>2 DEF Finish, InPipe, TypeOK
<1>6. ASSUME NEW c \in Cams, TakeResult(c)
      PROVE  /\ \A d \in Cams, u \in Tasks : InPipe(d, u)' => InPipe(d, u)
             /\ frames' = frames /\ clock' = clock
  BY <1>6 DEF TakeResult, InPipe, TypeOK
<1> QED
  BY <1>1, <1>2, <1>3, <1>4, <1>5, <1>6
     DEF Work, Main, Check, Idle, Leave, Settle, Exit, Start, Stop, Close,
         CloseLate, CloseDone, Snapshot, Tick, pipeVars
-------------------------------------------------------------------------------
(* The steps of a camera thread. *)

LEMMA CameraKept ==
    ASSUME TypeOK, MonTypeOK, NEW c \in Followed, CameraOK(c), TypeOK', MonTypeOK',
           \A u \in Tasks : Has(c, u)' => Has(c, u),
           clock' \in {clock, clock + 1}, frames'[c] = frames[c],
           rev'[c] = rev[c], wanted'[c] >= wanted[c], consumed'[c] = consumed[c],
           answered'[c] = answered[c], switched'[c] = switched[c],
           \/ enter'[c] = enter[c] /\ snap'[c] = snap[c] /\ seenAt'[c] = seenAt[c]
           \/ enter'[c] = None /\ snap'[c] = None
    PROVE  CameraOK(c)'
<1> USE StageAssumption
<1>0. /\ clock \in Nat /\ clock' \in Nat /\ frames[c] \in Nat
      /\ rev[c] \in Nat /\ wanted[c] \in Nat /\ wanted'[c] \in Nat
      /\ switched[c] \in Nat
      /\ answered[c] \in Nat \cup {None}
  BY PipelineAssumption DEF TypeOK, MonTypeOK, Revisions, MaybeTime
<1>1. Ordered(c)'
  BY DEF CameraOK, Ordered
<1>2. Placed(c)'
  BY <1>0 DEF CameraOK, Placed, Tasks
<1>3. MonitorOK(c)'
  BY <1>0 DEF CameraOK, MonitorOK
<1> QED
  BY <1>1, <1>2, <1>3 DEF CameraOK

\* What the frame loop takes over from the pipeline was in the pipeline.
LEMMA ReadStep ==
    ASSUME StageInv, NEW c \in Followed, Read(c), TypeOK'
    PROVE  MonTypeOK' /\ CameraOK(c)'
<1> USE StageAssumption
<1>1. TakeResult(c) /\ c \in Cams
  BY DEF Read
<1>2. \A u \in Tasks : InPipe(c, u)' => InPipe(c, u)
  BY <1>1, OtherTasks DEF StageInv
<1>3. frames' = frames /\ clock' = clock
  BY <1>1 DEF TakeResult
<1>4. \A u \in Tasks : Has(c, u)' => Has(c, u)
  <2>1. pending'[c] \in {pending[c], result[c]}
    BY DEF Read, StageInv, MonTypeOK
  <2> QED
    BY <1>2, <2>1 DEF Has, Waiting, InPipe
<1>5. MonTypeOK'
  <2>1. applied' \in [Followed -> Nat]
    <3>1. CASE result[c] = None
      BY <3>1 DEF Read, StageInv, MonTypeOK
    <3>2. CASE result[c] # None
      <4>1. result[c].task.at \in Nat
        BY <3>2, <1>1 DEF StageInv, TypeOK, Results, Tasks
      <4> QED
        BY <4>1 DEF Read, StageInv, MonTypeOK
    <3> QED
      BY <3>1, <3>2
  <2>2. pending' \in [Followed -> Results \cup {None}]
    BY <1>1 DEF Read, StageInv, MonTypeOK, TypeOK
  <2> QED
    BY <2>1, <2>2 DEF Read, StageInv, MonTypeOK, facts
<1>6. CameraOK(c)
  BY DEF StageInv
<1> QED
  BY <1>3, <1>4, <1>5, <1>6, CameraKept DEF Read, facts, StageInv, MonTypeOK, Revisions

LEMMA WatchStep ==
    ASSUME StageInv, NEW c \in Followed, Watch(c), TypeOK'
    PROVE  MonTypeOK' /\ CameraOK(c)'
<1>1. MonTypeOK'
  BY DEF Watch, StageInv, MonTypeOK, MaybeTime
<1>2. \A u \in Tasks : Has(c, u)' => Has(c, u)
  BY DEF Watch, pipeVars, Has, InPipe, Waiting
<1>3. /\ CameraOK(c) /\ TypeOK /\ MonTypeOK
      /\ clock' = clock /\ frames' = frames /\ rev' = rev /\ wanted' = wanted
      /\ consumed' = consumed /\ answered' = answered /\ switched' = switched
  BY DEF StageInv, Watch, pipeVars
<1>4. \/ enter'[c] = enter[c] /\ snap'[c] = snap[c] /\ seenAt'[c] = seenAt[c]
      \/ enter'[c] = None /\ snap'[c] = None
  BY <1>3 DEF Watch, MonTypeOK
<1>5. wanted'[c] >= wanted[c]
  BY <1>3 DEF MonTypeOK, Revisions
<1> QED
  BY <1>1, <1>2, <1>3, <1>4, <1>5, CameraKept

LEMMA NothingStep ==
    ASSUME StageInv, NEW c \in Followed, ConsumeNothing(c), TypeOK'
    PROVE  MonTypeOK' /\ CameraOK(c)'
<1>1. MonTypeOK'
  BY DEF ConsumeNothing, StageInv, MonTypeOK, facts
<1>2. \A u \in Tasks : Has(c, u)' => Has(c, u)
  BY DEF ConsumeNothing, pipeVars, Has, InPipe, Waiting, StageInv, MonTypeOK
<1>3. /\ CameraOK(c) /\ TypeOK /\ MonTypeOK
      /\ clock' = clock /\ frames' = frames /\ rev' = rev /\ wanted' = wanted
      /\ consumed' = consumed /\ switched' = switched /\ UNCHANGED facts
  BY DEF StageInv, ConsumeNothing, pipeVars
<1>4. wanted'[c] >= wanted[c]
  BY <1>3 DEF MonTypeOK, Revisions
<1> QED
  BY <1>1, <1>2, <1>3, <1>4, CameraKept DEF facts

LEMMA ReconfigureStep ==
    ASSUME StageInv, NEW c \in Followed, Reconfigure(c), TypeOK'
    PROVE  MonTypeOK' /\ CameraOK(c)'
<1>1. MonTypeOK'
  BY DEF Reconfigure, StageInv, MonTypeOK, facts
<1>2. \A u \in Tasks : Has(c, u)' => Has(c, u)
  BY DEF Reconfigure, pipeVars, Has, InPipe, Waiting
<1>3. /\ CameraOK(c) /\ TypeOK /\ MonTypeOK
      /\ clock' = clock /\ frames' = frames /\ rev' = rev
      /\ consumed' = consumed /\ switched' = switched /\ UNCHANGED facts
  BY DEF StageInv, Reconfigure, pipeVars
<1>4. wanted'[c] >= wanted[c]
  BY <1>3 DEF Reconfigure, MonTypeOK, Revisions
<1> QED
  BY <1>1, <1>2, <1>3, <1>4, CameraKept DEF facts

\* What a usable result says of its camera.
LEMMA UsableResult ==
    ASSUME StageInv, NEW c \in Followed, Usable(c)
    PROVE  /\ pending[c] \in Results /\ pending[c].task \in Tasks
           /\ Has(c, pending[c].task)
           /\ pending[c].task.frame > consumed[c]
           /\ pending[c].task.frame <= frames[c]
           /\ pending[c].task.at <= clock
           /\ switched[c] <= pending[c].task.at
           /\ answered[c] # None => answered[c] <= pending[c].task.at
<1>1. pending[c] \in Results /\ pending[c].task \in Tasks
  BY DEF Usable, StageInv, MonTypeOK, Results
<1>2. Has(c, pending[c].task)
  BY DEF Usable, Has, Waiting
<1>3. Placed(c)
  BY DEF StageInv, CameraOK
<1>4. /\ pending[c].task.frame > consumed[c]
      /\ pending[c].task.cfg = rev[c]
  BY DEF Usable
<1> QED
  BY <1>1, <1>2, <1>3, <1>4 DEF Placed

\* What consuming a frame does to the queue: later frames stay later.
LEMMA ConsumedPlaced ==
    ASSUME StageInv, NEW c \in Followed, Usable(c), TypeOK', MonTypeOK',
           UNCHANGED pipeVars, pending' = [pending EXCEPT ![c] = None],
           consumed' = [consumed EXCEPT ![c] = pending[c].task.frame],
           rev' = rev, switched' = switched,
           answered'[c] \in {answered[c], pending[c].task.at}
    PROVE  Ordered(c)' /\ Placed(c)'
<1> DEFINE r == pending[c].task
<1>1. \A u \in Tasks : Has(c, u)' => Has(c, u)
  BY DEF pipeVars, Has, InPipe, Waiting, StageInv, MonTypeOK
<1>2. Ordered(c) /\ Placed(c)
  BY DEF StageInv, CameraOK
<1>3. Ordered(c)'
  BY <1>1, <1>2 DEF Ordered
<1>4. /\ r \in Tasks /\ Has(c, r) /\ r.frame > consumed[c]
      /\ consumed'[c] = r.frame /\ consumed[c] \in Nat
  BY UsableResult DEF StageInv, MonTypeOK
<1>5. Placed(c)'
  <2> SUFFICES ASSUME NEW u \in Tasks, Has(c, u)'
               PROVE  /\ u.frame <= frames'[c] /\ u.at <= clock' /\ u.cfg <= rev'[c]
                      /\ u.cfg = rev'[c] => switched'[c] <= u.at
                      /\ u.frame > consumed'[c] /\ answered'[c] # None =>
                           answered'[c] <= u.at
    BY DEF Placed
  <2>1. /\ Has(c, u) /\ u.frame \in Nat /\ u.at \in Nat
        /\ r.frame \in Nat /\ r.at \in Nat
    BY <1>1, <1>4 DEF Tasks
  <2>2. /\ u.frame <= frames'[c] /\ u.at <= clock' /\ u.cfg <= rev'[c]
        /\ u.cfg = rev'[c] => switched'[c] <= u.at
    BY <1>2, <2>1 DEF Placed, pipeVars
  <2>3. ASSUME u.frame > r.frame, answered'[c] # None
        PROVE  answered'[c] <= u.at
    <3>1. r.at <= u.at
      BY <1>2, <1>4, <2>1, <2>3 DEF Ordered
    <3>2. answered[c] # None => answered[c] <= u.at
      BY <1>2, <1>4, <2>1, <2>3 DEF Placed
    <3> QED
      BY <2>3, <3>1, <3>2
  <2> QED
    BY <1>4, <2>2, <2>3
<1> QED
  BY <1>3, <1>5

LEMMA FailureStep ==
    ASSUME StageInv, NEW c \in Followed, ConsumeFailure(c), TypeOK'
    PROVE  MonTypeOK' /\ CameraOK(c)'
<1>0. Usable(c)
  BY DEF ConsumeFailure
<1>1. MonTypeOK'
  <2>1. pending[c].task.frame \in Nat
    BY <1>0, UsableResult DEF Tasks
  <2> QED
    BY <2>1 DEF ConsumeFailure, StageInv, MonTypeOK
<1>2. Ordered(c)' /\ Placed(c)'
  BY <1>0, <1>1, ConsumedPlaced DEF ConsumeFailure
<1>3. MonitorOK(c)'
  <2>1. MonitorOK(c) /\ consumed'[c] = pending[c].task.frame
    BY DEF StageInv, CameraOK, ConsumeFailure, MonTypeOK
  <2> QED
    BY <1>0, <2>1, UsableResult DEF ConsumeFailure, MonitorOK, pipeVars
<1> QED
  BY <1>1, <1>2, <1>3 DEF CameraOK

\* The entry time an observation leaves is not before the zones and not after
\* the observation.
LEMMA EnteredRange ==
    ASSUME StageInv, NEW c \in Followed, Usable(c), NEW st, NEW t \in Nat,
           t = pending[c].task.at
    PROVE  /\ Entered(c, st, t) \in MaybeTime /\ Tracked(c, st, t) \in MaybeTime
           /\ Entered(c, st, t) # None =>
                /\ Tracked(c, st, t) # None
                /\ switched[c] <= Entered(c, st, t) /\ Entered(c, st, t) <= t
           /\ Entered(c, st, t) # None /\ st = "empty" /\ snap[c] # None =>
                Entered(c, st, t) + snap[c] <= t
<1> USE StageAssumption
<1>1. /\ switched[c] <= t /\ (answered[c] # None => answered[c] <= t)
  BY UsableResult
<1>2. /\ answered[c] \in MaybeTime /\ enter[c] \in MaybeTime
      /\ snap[c] \in MaybeTime /\ seenAt[c] \in MaybeTime /\ switched[c] \in Nat
      /\ MonitorOK(c)
  BY DEF StageInv, MonTypeOK, CameraOK
<1>3. Tracked(c, st, t) \in MaybeTime
  BY <1>2 DEF Tracked, MaybeTime
<1>4. /\ Advanced(c, st, t) \in MaybeTime
      /\ Advanced(c, st, t) # None =>
           switched[c] <= Advanced(c, st, t) /\ Advanced(c, st, t) <= t
  BY <1>1, <1>2 DEF Advanced, MonitorOK, MaybeTime
<1>5. CASE st = "seen_inside"
  BY <1>1, <1>2, <1>3, <1>4, <1>5 DEF Entered, Tracked, MaybeTime
<1>6. CASE st # "seen_inside"
  BY <1>1, <1>2, <1>3, <1>6 DEF Entered, MonitorOK, MaybeTime
<1> QED
  BY <1>5, <1>6

LEMMA ObservationStep ==
    ASSUME StageInv, NEW c \in Followed, ConsumeObservation(c), TypeOK'
    PROVE  MonTypeOK' /\ CameraOK(c)'
<1> USE StageAssumption
<1>0. Usable(c)
  BY DEF ConsumeObservation
<1>a. PICK t \in Nat : t = pending[c].task.at
  BY <1>0, UsableResult DEF Tasks
<1>b. PICK st \in Statuses : st = pending[c].status
  BY <1>0, UsableResult DEF Results
<1>c. PICK e \in MaybeTime : e = Entered(c, st, t)
  BY <1>0, <1>a, EnteredRange
<1>1. Observe(c, st, t)
  BY <1>a, <1>b DEF ConsumeObservation
<1>2. /\ pending[c].task.frame \in Nat /\ pending[c].task.frame <= frames[c]
      /\ t <= clock
  BY <1>0, <1>a, UsableResult DEF Tasks
<1>3. /\ answered'[c] = t /\ enter'[c] = e /\ seenAt'[c] = Tracked(c, st, t)
      /\ snap'[c] = IF e = None THEN None
                    ELSE IF st = "empty" THEN snap[c] ELSE t - e
      /\ consumed'[c] = pending[c].task.frame
      /\ switched'[c] = switched[c] /\ frames'[c] = frames[c] /\ clock' = clock
      /\ rev'[c] = rev[c] /\ wanted'[c] = wanted[c]
  BY <1>1, <1>a, <1>c DEF Observe, StageInv, MonTypeOK, ConsumeObservation, pipeVars
<1>4. /\ Tracked(c, st, t) \in MaybeTime
      /\ e # None => /\ Tracked(c, st, t) # None
                     /\ switched[c] <= e /\ e <= t
      /\ e # None /\ st = "empty" /\ snap[c] # None => e + snap[c] <= t
  BY <1>0, <1>a, <1>c, EnteredRange
<1>5. snap[c] \in MaybeTime /\ switched[c] \in Nat
  BY DEF StageInv, MonTypeOK
<1>6. snap'[c] \in MaybeTime
  BY <1>3, <1>4, <1>5, <1>c DEF MaybeTime
<1>7. MonTypeOK'
  <2>1. /\ answered' \in [Followed -> MaybeTime] /\ enter' \in [Followed -> MaybeTime]
        /\ seenAt' \in [Followed -> MaybeTime]
    BY <1>1, <1>4, <1>a, <1>c DEF Observe, StageInv, MonTypeOK, MaybeTime
  <2>2. snap' \in [Followed -> MaybeTime]
    BY <1>1, <1>3, <1>6 DEF Observe, StageInv, MonTypeOK
  <2>3. /\ failing' \in [Followed -> BOOLEAN] /\ broken' \in [Followed -> BOOLEAN]
    BY <1>1 DEF Observe, StageInv, MonTypeOK
  <2> QED
    BY <1>2, <2>1, <2>2, <2>3 DEF ConsumeObservation, StageInv, MonTypeOK
<1>8. Ordered(c)' /\ Placed(c)'
  BY <1>0, <1>3, <1>7, <1>a, ConsumedPlaced DEF ConsumeObservation
<1>9. MonitorOK(c)'
  <2>1. MonitorOK(c) /\ t \in Nat
    BY <1>a DEF StageInv, CameraOK
  <2> QED
    BY <1>2, <1>3, <1>4, <1>5, <1>c, <2>1 DEF MonitorOK, MaybeTime
<1> QED
  BY <1>7, <1>8, <1>9 DEF CameraOK

\* New zones outdate every task there is.
LEMMA SelectStep ==
    ASSUME StageInv, RevisionsOK, NEW c \in Followed, Select(c), TypeOK'
    PROVE  MonTypeOK' /\ CameraOK(c)'
<1> USE StageAssumption
<1>0. /\ TypeOK /\ MonTypeOK /\ CameraOK(c) /\ c \in Cams
      /\ clock \in Nat /\ frames[c] \in Nat
      /\ rev[c] \in Nat /\ wanted[c] \in Nat /\ rev[c] <= wanted[c]
      /\ consumed[c] \in Nat /\ answered[c] \in MaybeTime /\ switched[c] \in Nat
  <2>1. TypeOK /\ MonTypeOK /\ CameraOK(c) /\ c \in Cams
    BY DEF StageInv
  <2>2. clock \in Nat /\ frames[c] \in Nat
    BY <2>1 DEF TypeOK
  <2>3. rev[c] \in 0..MaxRev /\ wanted[c] \in 0..MaxRev
    BY <2>1 DEF MonTypeOK, Revisions
  <2>4. consumed[c] \in Nat /\ answered[c] \in MaybeTime /\ switched[c] \in Nat
    BY <2>1 DEF MonTypeOK
  <2>5. rev[c] <= wanted[c]
    BY <2>1 DEF CameraOK, MonitorOK
  <2> QED
    BY <2>1, <2>2, <2>3, <2>4, <2>5, PipelineAssumption
<1>1. MonTypeOK'
  <2>1. Zones(c) /\ \E motion \in BOOLEAN : moving' = [moving EXCEPT ![c] = motion]
    BY DEF Select
  <2>2. /\ rev' \in [Followed -> Revisions]
        /\ pending' \in [Followed -> Results \cup {None}]
        /\ enter' \in [Followed -> MaybeTime] /\ snap' \in [Followed -> MaybeTime]
        /\ switched' \in [Followed -> Nat]
    BY <1>0, <2>1 DEF Zones, MonTypeOK, MaybeTime
  <2> QED
    BY <1>0, <2>1, <2>2 DEF Select, MonTypeOK
<1>2. /\ rev'[c] \in Revisions /\ rev'[c] = wanted[c] /\ wanted'[c] = wanted[c]
      /\ \/ rev'[c] = rev[c] /\ UNCHANGED <<switched, enter, snap, pending>>
         \/ /\ rev'[c] > rev[c] /\ switched'[c] = clock
            /\ enter'[c] = None /\ snap'[c] = None /\ pending'[c] = None
  BY <1>0 DEF Select, Zones, MonTypeOK
<1>3. /\ consumed'[c] = consumed[c] /\ answered'[c] = answered[c]
      /\ seenAt'[c] = seenAt[c]
  BY DEF Select
<1> DEFINE n == [frame |-> frames[c] + 1, at |-> clock, cfg |-> rev'[c]]
<1> DEFINE Submits == /\ \A u \in Tasks : InPipe(c, u)' =>
                           \/ InPipe(c, u)
                           \/ u = n /\ frames'[c] = frames[c] + 1
                      /\ frames'[c] \in {frames[c], frames[c] + 1}
                      /\ clock' = clock
<1>4. Submits
  <2>1. PICK motion \in BOOLEAN : Material(c, motion)
    BY DEF Select
  <2>2. CASE UNCHANGED pipeVars
    BY <1>0, <2>2 DEF pipeVars, InPipe
  <2>3. ASSUME NEW r \in Reasons, Submit(c, r, rev'[c])
        PROVE  Submits
    <3>1. PICK v \in Revisions : v = rev'[c]
      BY <1>2
    <3>2. Submit(c, r, v)
      BY <2>3, <3>1
    <3> QED
      BY <1>0, <3>1, <3>2, SubmitTasks DEF TypeOK
  <2> QED
    BY <2>1, <2>2, <2>3 DEF Material, Reasons
<1>5. \A u \in Tasks : Has(c, u)' =>
        Has(c, u) \/ (u = n /\ frames'[c] = frames[c] + 1)
  BY <1>2, <1>4 DEF Has, Waiting
<1>6. \A u \in Tasks : Has(c, u) =>
        u.frame <= frames[c] /\ u.at <= clock /\ u.frame \in Nat /\ u.at \in Nat
  BY <1>0 DEF CameraOK, Placed, Tasks
<1>7. n.frame = frames[c] + 1 /\ n.at = clock /\ n.cfg = rev'[c]
  OBVIOUS
<1>8. Ordered(c)'
  <2> SUFFICES ASSUME NEW t \in Tasks, NEW u \in Tasks, Has(c, t)', Has(c, u)',
                      t.frame < u.frame
               PROVE  t.at <= u.at
    BY DEF Ordered
  <2>1. CASE Has(c, u)
    <3>1. Has(c, t)
      BY <1>0, <1>5, <1>6, <1>7, <2>1
    <3> QED
      BY <1>0, <2>1, <3>1 DEF CameraOK, Ordered
  <2>2. CASE u = n
    BY <1>0, <1>5, <1>6, <1>7, <2>2
  <2> QED
    BY <1>5, <2>1, <2>2
<1>9. Placed(c)'
  <2> SUFFICES ASSUME NEW t \in Tasks, Has(c, t)'
               PROVE  /\ t.frame <= frames'[c] /\ t.at <= clock' /\ t.cfg <= rev'[c]
                      /\ t.cfg = rev'[c] => switched'[c] <= t.at
                      /\ t.frame > consumed'[c] /\ answered'[c] # None =>
                           answered'[c] <= t.at
    BY DEF Placed
  <2>1. CASE t = n /\ frames'[c] = frames[c] + 1
    <3>1. switched'[c] <= clock /\ (answered[c] # None => answered[c] <= clock)
      BY <1>0, <1>2 DEF CameraOK, MonitorOK
    <3> QED
      BY <1>0, <1>2, <1>3, <1>4, <1>7, <2>1, <3>1
  <2>2. CASE Has(c, t)
    <3>1. /\ t.frame <= frames[c] /\ t.at <= clock /\ t.cfg <= rev[c]
          /\ t.cfg = rev[c] => switched[c] <= t.at
          /\ t.frame > consumed[c] /\ answered[c] # None => answered[c] <= t.at
      BY <1>0, <2>2 DEF CameraOK, Placed
    <3>2. t.cfg \in Nat /\ t.frame \in Nat /\ rev'[c] \in Nat
      BY <1>0, <1>2, PipelineAssumption DEF Tasks, Revisions
    <3> QED
      BY <1>0, <1>2, <1>3, <1>4, <3>1, <3>2
  <2> QED
    BY <1>5, <2>1, <2>2
<1>10. MonitorOK(c)'
  <2>1. MonitorOK(c)
    BY <1>0 DEF CameraOK
  <2> QED
    BY <1>0, <1>2, <1>3, <1>4, <2>1 DEF MonitorOK
<1> QED
  BY <1>1, <1>8, <1>9, <1>10 DEF CameraOK

\* A camera whose own variables a step leaves alone.
LEMMA Untouched ==
    ASSUME StageInv, NEW d \in Followed, TypeOK', MonTypeOK',
           \A u \in Tasks : InPipe(d, u)' => InPipe(d, u),
           clock' \in {clock, clock + 1}, frames'[d] = frames[d],
           pending'[d] = pending[d], rev'[d] = rev[d], wanted'[d] = wanted[d],
           consumed'[d] = consumed[d], answered'[d] = answered[d],
           switched'[d] = switched[d], enter'[d] = enter[d], snap'[d] = snap[d],
           seenAt'[d] = seenAt[d]
    PROVE  CameraOK(d)'
<1>1. \A u \in Tasks : Has(d, u)' => Has(d, u)
  BY DEF Has, Waiting
<1>2. wanted'[d] >= wanted[d]
  BY DEF StageInv, MonTypeOK, Revisions
<1>3. TypeOK /\ MonTypeOK /\ CameraOK(d)
  BY DEF StageInv
<1> QED
  BY <1>1, <1>2, <1>3, CameraKept

LEMMA ThreadOthers ==
    ASSUME StageInv, RevisionsOK, NEW c \in Followed, Thread(c) \/ Reconfigure(c),
           TypeOK', MonTypeOK', NEW d \in Followed, d # c
    PROVE  CameraOK(d)'
<1> USE StageAssumption
<1> DEFINE Apart == /\ \A u \in Tasks : InPipe(d, u)' => InPipe(d, u)
                    /\ clock' = clock /\ frames'[d] = frames[d]
<1>1. Apart
  <2>1. CASE UNCHANGED pipeVars
    BY <2>1 DEF pipeVars, InPipe
  <2>2. CASE TakeResult(c)
    <3>1. frames' = frames /\ clock' = clock
      BY <2>2 DEF TakeResult
    <3> QED
      BY <2>2, <3>1, OtherTasks DEF StageInv
  <2>3. ASSUME NEW r \in Reasons, Submit(c, r, rev'[c]), rev'[c] \in Revisions
        PROVE  Apart
    <3>1. PICK v \in Revisions : v = rev'[c]
      BY <2>3
    <3>2. Submit(c, r, v) /\ c \in Cams /\ d \in Cams
      BY <2>3, <3>1
    <3> QED
      BY <3>1, <3>2, SubmitTasks DEF StageInv, TypeOK
  <2>4. Select(c) => rev'[c] \in Revisions
    BY DEF Select, Zones, RevisionsOK
  <2> QED
    BY <2>1, <2>2, <2>3, <2>4 DEF Thread, Reconfigure, Read, Select, Material, Reasons,
       ConsumeObservation, ConsumeFailure, ConsumeNothing, Watch
<1>2. /\ pending'[d] = pending[d] /\ rev'[d] = rev[d] /\ wanted'[d] = wanted[d]
      /\ consumed'[d] = consumed[d] /\ answered'[d] = answered[d]
      /\ switched'[d] = switched[d] /\ enter'[d] = enter[d] /\ snap'[d] = snap[d]
      /\ seenAt'[d] = seenAt[d]
  BY DEF Thread, Reconfigure, Read, Select, Zones, ConsumeObservation, Observe,
     ConsumeFailure, ConsumeNothing, Watch, facts, StageInv, MonTypeOK
<1> QED
  BY <1>1, <1>2, Untouched
-------------------------------------------------------------------------------
(* The theorems. *)

LEMMA StageInvInit ==
    ASSUME StageInit
    PROVE  StageInv
<1> USE StageAssumption
<1>1. TypeOK
  BY InitType DEF StageInit
<1>2. MonTypeOK
  BY PipelineAssumption DEF StageInit, All, MonTypeOK, Revisions, MaybeTime
<1>3. \A c \in Cams, u \in Tasks : ~InPipe(c, u)
  BY PipelineAssumption DEF StageInit, Init, InPipe, NoSlots
<1>4. \A c \in Followed, u \in Tasks : ~Has(c, u)
  BY <1>3 DEF Has, Waiting, StageInit, All
<1>5. \A c \in Followed : MonitorOK(c)
  BY DEF MonitorOK, StageInit, All, Init
<1> QED
  BY <1>1, <1>2, <1>4, <1>5 DEF StageInv, CameraOK, Ordered, Placed

LEMMA StageInvNext ==
    ASSUME StageInv, RevisionsOK, [StageNext]_vars
    PROVE  StageInv'
<1> USE StageAssumption
<1>1. TypeOK'
  BY StageStep, NextType DEF StageInv
<1>2. ASSUME NEW c \in Followed, Thread(c) \/ Reconfigure(c)
      PROVE  StageInv'
  <2>1. MonTypeOK' /\ CameraOK(c)'
    BY <1>1, <1>2, ReadStep, SelectStep, ObservationStep, FailureStep, NothingStep,
       WatchStep, ReconfigureStep DEF Thread
  <2>2. \A d \in Followed : d # c => CameraOK(d)'
    BY <1>1, <1>2, <2>1, ThreadOthers
  <2> QED
    BY <1>1, <2>1, <2>2 DEF StageInv
<1>3. ASSUME UNCHANGED monVars,
             \A d \in Followed, u \in Tasks : InPipe(d, u)' => InPipe(d, u),
             clock' \in {clock, clock + 1},
             \A d \in Followed : frames'[d] = frames[d]
      PROVE  StageInv'
  <2>1. MonTypeOK'
    BY <1>3 DEF StageInv, MonTypeOK, monVars
  <2>2. \A d \in Followed : CameraOK(d)'
    BY <1>1, <1>3, <2>1, Untouched DEF monVars
  <2> QED
    BY <1>1, <2>1, <2>2 DEF StageInv
<1>4. ASSUME UNCHANGED monVars,
             \/ UNCHANGED pipeVars \/ Work \/ Main \/ Snapshot \/ Tick
             \/ \E c \in Cams : TakeResult(c)
      PROVE  StageInv'
  <2>1. /\ \A d \in Cams, u \in Tasks : InPipe(d, u)' => InPipe(d, u)
        /\ frames' = frames /\ clock' \in {clock, clock + 1}
    BY <1>4, OtherTasks DEF StageInv
  <2> QED
    BY <1>3, <1>4, <2>1
<1>5. CASE UNCHANGED vars
  BY <1>4, <1>5 DEF vars
<1>6. CASE WorkerStep
  <2>1. \A c \in Cams : Verdicts(c) \subseteq Statuses
    BY DEF Verdicts, Statuses
  <2> QED
    BY <1>4, <1>6, <2>1 DEF WorkerStep, Work
<1>7. CASE MainThread
  BY <1>4, <1>7 DEF MainThread, Main
<1>8. CASE StageTick
  BY <1>4, <1>8 DEF StageTick
<1>9. ASSUME NEW c \in on \ Followed, Other(c)
      PROVE  StageInv'
  <2>1. c \in Cams /\ 0 \in Revisions
    BY PipelineAssumption DEF RevisionsOK, Revisions
  <2>2. UNCHANGED monVars
    BY <1>9 DEF Other
  <2>3. CASE TakeResult(c)
    BY <1>4, <2>1, <2>2, <2>3
  <2>4. ASSUME NEW r \in Reasons, Submit(c, r, 0)
        PROVE  StageInv'
    <3>1. /\ \A d \in Cams, u \in Tasks : d # c /\ InPipe(d, u)' => InPipe(d, u)
          /\ frames' = [frames EXCEPT ![c] = frames[c] + 1]
          /\ clock' = clock
      BY <2>1, <2>4, SubmitTasks DEF StageInv
    <3>2. \A d \in Followed : frames'[d] = frames[d]
      BY <3>1, <1>9 DEF StageInv, TypeOK
    <3> QED
      BY <1>3, <2>2, <3>1, <3>2
  <2> QED
    BY <1>9, <2>3, <2>4 DEF Other
<1> QED
  BY <1>2, <1>5, <1>6, <1>7, <1>8, <1>9 DEF StageNext

LEMMA StageInvariant == StageSpec => []StageInv
<1>1. StageInit => StageInv
  BY StageInvInit
<1>2. StageInv /\ RevisionsOK /\ [StageNext]_vars => StageInv'
  BY StageInvNext
<1> QED
  BY <1>1, <1>2, StageRevisions, PTL DEF StageSpec

\* Every reachable state of the stage is well typed: in particular no dwell and
\* no entry time becomes negative.
THEOREM StageTypeCorrect == StageSpec => []StageTypeOK
<1>1. StageInv => StageTypeOK
  BY DEF StageInv, StageTypeOK
<1> QED
  BY <1>1, StageInvariant, PTL

\* In every reachable state a dwell belongs to a live track and to the zones in
\* force.
THEOREM ZoneDwellCorrect == StageSpec => []ZoneDwell
<1>1. StageInv => ZoneDwell
  BY DEF StageInv, CameraOK, MonitorOK, ZoneDwell
<1> QED
  BY <1>1, StageInvariant, PTL

\* No step consumes a frame twice or out of order, or takes the time of the last
\* observation back.
THEOREM FactsForwardCorrect == StageSpec => FactsForward
<1> DEFINE Forward ==
      \A c \in Followed :
          /\ consumed'[c] >= consumed[c]
          /\ answered[c] # None =>
               answered'[c] # None /\ answered'[c] >= answered[c]
          /\ answered'[c] # answered[c] => consumed'[c] > consumed[c]
<1>1. StageInv /\ RevisionsOK /\ [StageNext]_vars => [Forward]_vars
  <2> SUFFICES ASSUME StageInv, StageNext, NEW d \in Followed
               PROVE  /\ consumed'[d] >= consumed[d]
                      /\ answered[d] # None =>
                           answered'[d] # None /\ answered'[d] >= answered[d]
                      /\ answered'[d] # answered[d] => consumed'[d] > consumed[d]
    OBVIOUS
  <2> USE StageAssumption
  <2>0. consumed[d] \in Nat /\ answered[d] \in MaybeTime
    BY DEF StageInv, MonTypeOK
  <2>1. CASE consumed'[d] = consumed[d] /\ answered'[d] = answered[d]
    BY <2>0, <2>1 DEF MaybeTime
  <2>2. CASE ConsumeObservation(d)
    <3>1. /\ consumed'[d] = pending[d].task.frame
          /\ answered'[d] = pending[d].task.at
          /\ Usable(d)
      BY <2>2 DEF ConsumeObservation, Observe, StageInv, MonTypeOK
    <3>2. pending[d].task.frame \in Nat /\ pending[d].task.at \in Nat
      BY <3>1, UsableResult DEF Tasks
    <3> QED
      BY <2>0, <3>1, <3>2, UsableResult DEF MaybeTime
  <2>3. CASE ConsumeFailure(d)
    <3>1. /\ consumed'[d] = pending[d].task.frame
          /\ answered'[d] = answered[d]
          /\ Usable(d)
      BY <2>3 DEF ConsumeFailure, StageInv, MonTypeOK
    <3>2. pending[d].task.frame \in Nat
      BY <3>1, UsableResult DEF Tasks
    <3> QED
      BY <2>0, <3>1, <3>2, UsableResult DEF MaybeTime
  <2>4. ASSUME NEW c \in Followed, Thread(c) \/ Reconfigure(c),
               ~ConsumeObservation(d), ~ConsumeFailure(d)
        PROVE  consumed'[d] = consumed[d] /\ answered'[d] = answered[d]
    BY <2>4 DEF Thread, Reconfigure, Read, Select, Watch, ConsumeObservation,
       Observe, ConsumeFailure, ConsumeNothing, facts, StageInv, MonTypeOK
  <2>5. CASE WorkerStep \/ MainThread \/ StageTick \/ \E c \in on : Other(c)
    BY <2>1, <2>5 DEF WorkerStep, MainThread, StageTick, Other, monVars
  <2> QED
    BY <2>1, <2>2, <2>3, <2>4, <2>5 DEF StageNext
<1> QED
  BY <1>1, StageInvariant, StageRevisions, PTL DEF StageSpec, FactsForward
===============================================================================
