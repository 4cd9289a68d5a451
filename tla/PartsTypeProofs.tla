---------------------------- MODULE PartsTypeProofs ----------------------------
(***************************************************************************)
(* The variables of every part stay within their types, and a part that    *)
(* does not move stays as it began: PartsTypeOK for all values of the      *)
(* constants. What the types need beyond the invariants of the other proof *)
(* modules is stated part by part.                                         *)
(***************************************************************************)
EXTENDS MCParts, PartsProofs, RecordsProofs, OpsProofs
-------------------------------------------------------------------------------
(* Sequences. *)

\* A sequence that loses one of its places, its head or its tail.
LEMMA ShorterFacts ==
  ASSUME NEW T, NEW row \in Seq(T)
  PROVE  /\ Len(row) \in Nat
         /\ row # <<>> => Tail(row) \in Seq(T) /\ Len(Tail(row)) = Len(row) - 1
         /\ \A i \in 1..Len(row) : RemoveAt(row, i) \in Seq(T) /\ Len(RemoveAt(row, i)) = Len(row) - 1
<1>1. ASSUME NEW i \in 1..Len(row)
      PROVE  RemoveAt(row, i) \in Seq(T) /\ Len(RemoveAt(row, i)) = Len(row) - 1
  <2> DEFINE p == SubSeq(row, 1, i - 1)
             q == SubSeq(row, i + 1, Len(row))
  <2>1. p \in Seq(T) /\ Len(p) = i - 1
    BY <1>1
  <2>2. q \in Seq(T) /\ Len(q) = Len(row) - i
    BY <1>1
  <2>3. RemoveAt(row, i) = p \o q
    BY DEF RemoveAt
  <2>4. Len(row) \in Nat /\ i \in Int
    BY <1>1
  <2> HIDE DEF p, q
  <2>5. p \o q \in Seq(T) /\ Len(p \o q) = Len(p) + Len(q)
    BY <2>1, <2>2, ConcatProperties
  <2> QED BY <2>1, <2>2, <2>3, <2>4, <2>5
<1> QED BY <1>1

LEMMA SeqWithin ==
  ASSUME NEW T, NEW U, NEW row \in Seq(T), \A i \in 1..Len(row) : row[i] \in U
  PROVE  row \in Seq(U)
BY IsASeq
-------------------------------------------------------------------------------
(* Harvest. *)

HarvestRest ==
    /\ rejected \subseteq given /\ Len(handoff) <= HarvestCap
    /\ observed \in Seq(Materials) /\ Len(observed) <= ObservedCap
    /\ stopAt \in {"none", "pump1", "close", "pump2", "done"}

\* The memory of what was observed keeps its length: one more pushes the eldest out.
LEMMA RememberedFits ==
  ASSUME observed \in Seq(Materials), Len(observed) <= ObservedCap, NEW m \in Materials
  PROVE  Remembered(m) \in Seq(Materials) /\ Len(Remembered(m)) <= ObservedCap
<1>1. ObservedCap \in Nat \ {0} /\ Len(observed) \in Nat
  BY HarvestAssumption
<1>2. /\ Append(observed, m) \in Seq(Materials) /\ Len(Append(observed, m)) = Len(observed) + 1
      /\ Append(observed, m) # <<>>
  BY AppendProperties
<1>3. CASE m \in ToSet(observed)
  <2> DEFINE i == CHOOSE k \in 1..Len(observed) : observed[k] = m
  <2>1. \E k \in 1..Len(observed) : observed[k] = m
    BY <1>3 DEF ToSet
  <2>2. i \in 1..Len(observed)
    BY <2>1
  <2>3. Remembered(m) = Append(RemoveAt(observed, i), m)
    BY <1>3 DEF Remembered
  <2> HIDE DEF i
  <2>4. /\ RemoveAt(observed, i) \in Seq(Materials)
        /\ Len(RemoveAt(observed, i)) = Len(observed) - 1
    BY <2>2, ShorterFacts
  <2> QED BY <1>1, <2>3, <2>4, AppendProperties
<1>4. CASE m \notin ToSet(observed) /\ Len(observed) < ObservedCap
  BY <1>1, <1>2, <1>4 DEF Remembered
<1>5. CASE m \notin ToSet(observed) /\ ~(Len(observed) < ObservedCap)
  <2>1. Remembered(m) = Tail(Append(observed, m))
    BY <1>5 DEF Remembered
  <2> QED BY <1>1, <1>2, <2>1, ShorterFacts
<1> QED BY <1>3, <1>4, <1>5

LEMMA HarvestTypes == HInit /\ [][HNext]_hvars => []HTypeOK
<1>1. HInit => HarvestInv /\ HarvestRest
  <2> SUFFICES ASSUME HInit PROVE HarvestRest
    BY HarvestInitial
  <2> QED BY HarvestAssumption DEF HInit, HarvestRest
<1>2. HarvestInv /\ HarvestRest /\ [HNext]_hvars => (HarvestInv /\ HarvestRest)'
  <2> SUFFICES ASSUME HarvestInv, HarvestRest, [HNext]_hvars PROVE HarvestRest'
    BY HarvestSteps
  <2>1. /\ handoff \in Seq(HPkgs) /\ pumps \in [Pumpers -> Seq(HPkgs)] /\ HarvestCap \in Nat
        /\ Len(handoff) \in Nat
    BY HarvestAssumption DEF HarvestInv, OnTheWay
  <2>2. ASSUME NEW p \in HPkgs, GiveUp(p) PROVE HarvestRest'
    <3>1. UNCHANGED <<observed, stopAt>> /\ given' = given \cup {p}
      BY <2>2 DEF GiveUp
    <3>2. rejected' \in {rejected, rejected \cup {p}}
      BY <2>2 DEF GiveUp
    <3>3. Len(handoff') <= HarvestCap
      <4>1. Len(Append(handoff, p)) = Len(handoff) + 1
        BY <2>1, AppendProperties
      <4>2. handoff' = handoff \/ (handoff' = Append(handoff, p) /\ ~(Len(handoff) >= HarvestCap))
        BY <2>2 DEF GiveUp
      <4> QED BY <2>1, <4>1, <4>2 DEF HarvestRest
    <3> QED BY <3>1, <3>2, <3>3 DEF HarvestRest
  <2>3. ASSUME NEW m \in Materials, ObserveWindow(m) PROVE HarvestRest'
    BY <2>3, RememberedFits DEF ObserveWindow, HarvestRest
  <2>4. ASSUME NEW t \in Pumpers, TakeBatch(t) PROVE HarvestRest'
    BY <2>1, <2>4 DEF TakeBatch, HarvestRest
  <2>5. ASSUME NEW t \in Pumpers, PumpOne(t) PROVE HarvestRest'
    <3>1. UNCHANGED <<given, handoff, stopAt, rejected>>
      BY <2>5 DEF PumpOne
    <3>2. Head(pumps[t]) \in HPkgs
      BY <2>1, <2>5, HeadTailProperties DEF PumpOne
    <3>3. MaterialOf[Head(pumps[t])] \in Materials
      BY <3>2 DEF Materials
    <3>4. observed' \in {observed, Remembered(MaterialOf[Head(pumps[t])])}
      BY <2>5 DEF PumpOne
    <3> QED BY <3>1, <3>3, <3>4, RememberedFits DEF HarvestRest
  <2>6. ASSUME HarvestStop PROVE HarvestRest'
    BY <2>6 DEF HarvestStop, HarvestRest
  <2>7. ASSUME UNCHANGED hvars PROVE HarvestRest'
    BY <2>7 DEF hvars, HarvestRest
  <2> QED BY <2>2, <2>3, <2>4, <2>5, <2>6, <2>7 DEF HNext
<1>3. HarvestInv /\ HarvestRest => HTypeOK
  <2> SUFFICES ASSUME HarvestInv, HarvestRest PROVE HTypeOK
    OBVIOUS
  <2>1. ToSet(handoff) \subseteq given /\ ToSet(observed) \subseteq Materials
    BY AliveParts, LineFacts DEF HarvestInv, OnTheWay, HarvestRest
  <2> QED BY <2>1 DEF HarvestInv, OnTheWay, BooksOf, HarvestRest, HTypeOK
<1> QED BY <1>1, <1>2, <1>3, PTL
-------------------------------------------------------------------------------
(* Ascending. *)

\* Each place of the sequence has its member: the least number that has so many below.
LEMMA AscendingFacts ==
  ASSUME NEW n \in Nat, NEW S \in SUBSET (1..n)
  PROVE  /\ Ascending(S) \in Seq(S) /\ Len(Ascending(S)) = Cardinality(S)
         /\ Cardinality(S) \in Nat
<1> DEFINE below(i) == {j \in S : j <= i}
<1>1. IsFiniteSet(S)
  <2>1. IsFiniteSet(1..n)
    BY FS_Interval
  <2> QED BY <2>1, FS_Subset
<1>0. \A j \in S : j \in Nat /\ 1 <= j /\ j <= n
  OBVIOUS
<1>2. Cardinality(S) \in Nat
  BY <1>1, FS_CardinalityType
<1>3. ASSUME NEW k \in 1..Cardinality(S) PROVE \E i \in S : Cardinality(below(i)) = k
  <2> DEFINE enough == {i \in Nat : Cardinality(below(i)) >= k}
  <2>1. n \in enough
    <3>1. below(n) = S
      BY <1>0
    <3> QED BY <1>2, <3>1
  <2>2. PICK i \in enough : \A j \in enough : i <= j
    BY <2>1, LeastNumber
  <2>3. \A j \in Nat : IsFiniteSet(below(j)) /\ Cardinality(below(j)) \in Nat
    <3> SUFFICES ASSUME NEW j \in Nat PROVE IsFiniteSet(below(j)) /\ Cardinality(below(j)) \in Nat
      OBVIOUS
    <3>1. below(j) \subseteq S
      OBVIOUS
    <3> QED BY <1>1, <3>1, FS_Subset, FS_CardinalityType
  <2>4. i # 0
    <3>0. \A j \in S : ~(j <= 0)
      BY <1>0
    <3>1. below(0) = {}
      BY <3>0
    <3>2. Cardinality(below(0)) = 0
      BY <3>1, FS_EmptySet
    <3> QED BY <3>2
  <2>5. i - 1 \in Nat /\ ~(Cardinality(below(i - 1)) >= k)
    <3>1. i \in Nat /\ i - 1 \in Nat /\ ~(i <= i - 1)
      BY <2>2, <2>4
    <3>2. i - 1 \notin enough
      BY <2>2, <3>1
    <3> HIDE DEF below
    <3> QED BY <3>1, <3>2
  <2>6. i \in S
    <3> SUFFICES ASSUME i \notin S PROVE FALSE
      OBVIOUS
    <3>1. i \in Nat /\ \A j \in S : j <= i <=> j <= i - 1
      BY <1>0, <2>2, <2>5
    <3>2. below(i) = below(i - 1)
      BY <3>1
    <3> QED BY <2>2, <2>5, <3>2
  <2>7. below(i) = below(i - 1) \cup {i} /\ i \notin below(i - 1)
    <3>1. /\ i \in Nat /\ ~(i <= i - 1)
          /\ \A j \in S : j <= i <=> j <= i - 1 \/ j = i
      BY <1>0, <2>2, <2>5
    <3> QED BY <2>6, <3>1
  <2>8. Cardinality(below(i)) = Cardinality(below(i - 1)) + 1
    <3>1. IsFiniteSet(below(i - 1))
      BY <2>3, <2>5
    <3> HIDE DEF below
    <3> QED BY <2>7, <3>1, FS_AddElement
  <2>9. /\ Cardinality(below(i)) \in Nat /\ Cardinality(below(i - 1)) \in Nat
        /\ Cardinality(below(i)) >= k
    BY <2>2, <2>3, <2>5
  <2> HIDE DEF below
  <2> QED BY <2>5, <2>6, <2>8, <2>9
<1>4. ASSUME NEW k \in 1..Cardinality(S) PROVE Kth(S, k) \in S
  BY <1>3, <1>4 DEF Kth
<1>5. Ascending(S) \in [1..Cardinality(S) -> S]
  BY <1>4 DEF Ascending
<1> QED BY <1>2, <1>5
-------------------------------------------------------------------------------
(* L3Budget. *)

Shares == UNION {[D -> Nat] : D \in SUBSET Nat}
PageShape == [open : BOOLEAN, tasks : 0..MaxTasks, frames : 0..MaxFrames, byIndex : Shares]
BudgetShape ==
    /\ page \in [BudgetWins -> PageShape] /\ plans \in [BudgetWins -> 0..WindowPackages]
    /\ forgotten \in Seq(BudgetWins) /\ Len(forgotten) <= ForgottenCap

\* A row of a plan leaves the page in its shape.
LEMMA PlannedShape ==
  ASSUME NEW branches \in Rows, NEW i \in 1..Len(branches), Len(branches) \in Nat,
         NEW b \in PageShape
  PROVE  Planned(branches, i, b) \in PageShape
<1> DEFINE got == Granted(branches[i].frames, b)
           noted == [k \in DOMAIN b.byIndex \cup {i} |-> IF k = i THEN got ELSE b.byIndex[k]]
<1>1. branches[i].frames \in 0..PerTask
  <2>1. PICK n \in 1..MaxRows : branches \in [1..n -> [content : Contents, frames : 0..PerTask]]
    BY DEF Rows
  <2>2. n \in Nat
    BY BudgetAssumption
  <2>3. Len(branches) = n
    BY <2>1, <2>2
  <2> QED BY <2>1, <2>3
<1>2. b.tasks \in Nat /\ b.frames \in 0..MaxFrames /\ b.tasks \in 0..MaxTasks
  BY BudgetAssumption DEF PageShape
<1>3. /\ got \in 0..PerTask /\ b.frames + got <= MaxFrames
      /\ got # 0 => b.tasks < MaxTasks
  BY <1>1, <1>2, GrantFits
<1>4. CASE IsMerged(branches, i) \/ got = 0
  BY <1>4 DEF Planned
<1>5. CASE ~IsMerged(branches, i) /\ got # 0
  <2>1. Planned(branches, i, b) =
          [open |-> TRUE, tasks |-> b.tasks + 1, frames |-> b.frames + got, byIndex |-> noted]
    BY <1>5 DEF Planned, Reserve
  <2> HIDE DEF got
  <2>2. got \in Nat /\ i \in Nat
    BY <1>3, BudgetAssumption
  <2>3. PICK D \in SUBSET Nat : b.byIndex \in [D -> Nat]
    BY DEF PageShape, Shares
  <2>4. noted \in [D \cup {i} -> Nat] /\ D \cup {i} \in SUBSET Nat
    BY <2>2, <2>3
  <2>5. noted \in Shares
    BY <2>4 DEF Shares
  <2>6. b.tasks + 1 \in 0..MaxTasks /\ b.frames + got \in 0..MaxFrames
    BY <1>2, <1>3, <1>5, <2>2, BudgetAssumption
  <2> HIDE DEF noted
  <2> QED BY <2>1, <2>5, <2>6 DEF PageShape
<1> QED BY <1>4, <1>5

\* So does the whole plan: no row is the first that does not.
LEMMA PlanShape ==
  ASSUME NEW branches \in Rows, NEW b \in PageShape
  PROVE  PlannedPage(branches, b)[Len(branches)] \in PageShape
<1> DEFINE step == PlannedPage(branches, b)
           bad == {i \in 0..Len(branches) : step[i] \notin PageShape}
<1>1. Len(branches) \in Nat
  BY RowsHaveLength
<1>2. step[0] = [b EXCEPT !.open = TRUE]
  BY <1>1, PlanStart DEF Opened
<1>3. step[0] \in PageShape
  BY <1>2 DEF PageShape
<1>4. \A i \in 1..Len(branches) : step[i] = Planned(branches, i, step[i - 1])
  BY <1>1, PlanStep
<1> HIDE DEF step
<1>5. bad = {}
  <2> SUFFICES ASSUME bad # {} PROVE FALSE
    OBVIOUS
  <2>1. bad \in SUBSET Nat
    BY <1>1
  <2>2. PICK i \in bad : \A k \in bad : i <= k
    BY <2>1, LeastNumber
  <2>3. i \in 1..Len(branches) /\ i - 1 \in 0..Len(branches) /\ i - 1 < i
    BY <1>1, <1>3, <2>2
  <2>4. step[i - 1] \in PageShape
    BY <2>2, <2>3
  <2>5. step[i] \in PageShape
    BY <1>1, <1>4, <2>3, <2>4, PlannedShape
  <2> QED BY <2>2, <2>5
<1> QED BY <1>1, <1>5 DEF step

LEMMA BudgetTypes == BInit /\ [][BNext]_bvars => []BTypeOK
<1>1. BInit => BudgetShape
  <2> SUFFICES ASSUME BInit PROVE BudgetShape
    OBVIOUS
  <2>1. NoPage.byIndex \in [{} -> Nat]
    BY DEF NoPage
  <2>2. NoPage.byIndex \in Shares
    BY <2>1 DEF Shares
  <2>3. NoPage \in PageShape
    BY <2>2, BudgetAssumption DEF NoPage, PageShape
  <2> QED BY <2>3, BudgetAssumption DEF BInit, BudgetShape
<1>2. BudgetShape /\ [BNext]_bvars => BudgetShape'
  <2> SUFFICES ASSUME BudgetShape, [BNext]_bvars PROVE BudgetShape'
    OBVIOUS
  <2>1. ASSUME NEW w \in BudgetWins, ForgetPage(w) PROVE BudgetShape'
    <3>1. NoPage \in PageShape
      <4>1. NoPage.byIndex \in [{} -> Nat]
        BY DEF NoPage
      <4>2. NoPage.byIndex \in Shares
        BY <4>1 DEF Shares
      <4> QED BY <4>2, BudgetAssumption DEF NoPage, PageShape
    <3>2. page' \in [BudgetWins -> PageShape] /\ plans' = plans
      BY <2>1, <3>1 DEF ForgetPage, BudgetShape
    <3>3. /\ ForgottenCap \in Nat \ {0} /\ Len(forgotten) \in Nat
          /\ forgotten # <<>> => /\ Tail(forgotten) \in Seq(BudgetWins)
                                 /\ Len(Tail(forgotten)) = Len(forgotten) - 1
      BY BudgetAssumption, ShorterFacts DEF BudgetShape
    <3>4. forgotten = <<>> => Len(forgotten) = 0
      OBVIOUS
    <3>5. forgotten' \in Seq(BudgetWins) /\ Len(forgotten') <= ForgottenCap
      <4>1. CASE Len(forgotten) < ForgottenCap
        <5>1. forgotten' = Append(forgotten, w)
          BY <2>1, <4>1 DEF ForgetPage
        <5> QED BY <3>3, <4>1, <5>1, AppendProperties DEF BudgetShape
      <4>2. CASE ~(Len(forgotten) < ForgottenCap)
        <5>1. forgotten' = Append(Tail(forgotten), w) /\ forgotten # <<>>
          BY <2>1, <3>3, <3>4, <4>2 DEF ForgetPage
        <5> QED BY <3>3, <4>2, <5>1, AppendProperties DEF BudgetShape
      <4> QED BY <4>1, <4>2
    <3> QED BY <3>2, <3>5 DEF BudgetShape
  <2>2. ASSUME NEW w \in BudgetWins, NEW branches \in Rows, PlanPackage(w, branches)
        PROVE  BudgetShape'
    <3>1. PlannedPage(branches, page[w])[Len(branches)] \in PageShape
      BY PlanShape DEF BudgetShape
    <3>2. \/ page' = page
          \/ page' = [page EXCEPT ![w] = PlannedPage(branches, page[w])[Len(branches)]]
      BY <2>2 DEF PlanPackage
    <3>3. plans' = [plans EXCEPT ![w] = @ + 1] /\ plans[w] < WindowPackages /\ forgotten' = forgotten
      BY <2>2 DEF PlanPackage
    <3>4. plans' \in [BudgetWins -> 0..WindowPackages]
      BY <3>3, BudgetAssumption DEF BudgetShape
    <3>5. page' \in [BudgetWins -> PageShape]
      BY <3>1, <3>2 DEF BudgetShape
    <3> QED BY <3>3, <3>4, <3>5 DEF BudgetShape
  <2>3. ASSUME NEW t \in spent, ReleaseTask(t) PROVE BudgetShape'
    <3> DEFINE b == page[t.w]
               noted == [k \in DOMAIN b.byIndex \ {t.index} |-> b.byIndex[k]]
    <3>1. plans' = plans /\ forgotten' = forgotten
      BY <2>3 DEF ReleaseTask
    <3>2. CASE page' = page
      BY <3>1, <3>2 DEF BudgetShape
    <3>3. CASE page' # page
      <4>1. /\ t.index \in DOMAIN b.byIndex
            /\ page' = [page EXCEPT ![t.w] =
                 [b EXCEPT !.tasks = IF @ = 0 THEN 0 ELSE @ - 1,
                           !.frames = IF @ < b.byIndex[t.index] THEN 0
                                      ELSE @ - b.byIndex[t.index],
                           !.byIndex = noted]]
        BY <2>3, <3>3 DEF ReleaseTask
      <4>2. t.w \in BudgetWins \/ page' = page
        BY <4>1 DEF BudgetShape
      <4>3. b \in PageShape
        BY <3>3, <4>2 DEF BudgetShape
      <4> HIDE DEF b
      <4>4. PICK D \in SUBSET Nat : b.byIndex \in [D -> Nat]
        BY <4>3 DEF PageShape, Shares
      <4>5. noted \in [D \ {t.index} -> Nat] /\ D \ {t.index} \in SUBSET Nat
        BY <4>4
      <4>6. noted \in Shares
        BY <4>5 DEF Shares
      <4>7. b.byIndex[t.index] \in Nat
        BY <4>1, <4>4
      <4> HIDE DEF noted
      <4>8. /\ b.tasks \in 0..MaxTasks /\ b.frames \in 0..MaxFrames
            /\ MaxTasks \in Nat /\ MaxFrames \in Nat
        BY <4>3, BudgetAssumption DEF PageShape
      <4>9. /\ (IF b.tasks = 0 THEN 0 ELSE b.tasks - 1) \in 0..MaxTasks
            /\ (IF b.frames < b.byIndex[t.index] THEN 0 ELSE b.frames - b.byIndex[t.index])
                 \in 0..MaxFrames
        BY <4>7, <4>8
      <4>10. [b EXCEPT !.tasks = IF @ = 0 THEN 0 ELSE @ - 1,
                       !.frames = IF @ < b.byIndex[t.index] THEN 0
                                  ELSE @ - b.byIndex[t.index],
                       !.byIndex = noted] \in PageShape
        BY <4>3, <4>6, <4>9 DEF PageShape
      <4> QED BY <3>1, <4>1, <4>10 DEF BudgetShape
    <3> QED BY <3>2, <3>3
  <2>4. ASSUME UNCHANGED bvars PROVE BudgetShape'
    BY <2>4 DEF bvars, BudgetShape
  <2> QED BY <2>1, <2>2, <2>3, <2>4 DEF BNext
<1>3. BudgetShape => BTypeOK
  BY DEF BudgetShape, PageShape, BTypeOK
<1> QED BY <1>1, <1>2, <1>3, PTL
-------------------------------------------------------------------------------
(* CropWorker. *)

CropRest ==
    /\ Len(cropQueue) <= CropQueueMax /\ cropDoor \in {"open", "closing", "closed"}
    /\ cropOrder \in Seq(Crops) /\ Len(cropOrder) <= CropHistory
    /\ \A k \in 1..Len(cropOrder) : crops[cropOrder[k]].st \in CropEnds
    /\ lockFile \in BOOLEAN

\* What has ended stays ended, and is remembered within the bound.
LEMMA FinishFits ==
  ASSUME CropInv, CropRest, NEW S \in SUBSET Crops, NEW end \in CropEnds, CropFinish(S, end)
  PROVE  /\ cropOrder' \in Seq(Crops) /\ Len(cropOrder') <= CropHistory
         /\ \A k \in 1..Len(cropOrder') : crops'[cropOrder'[k]].st \in CropEnds
<1> DEFINE E == Ending(S)
           order == cropOrder \o Ascending(E)
           rest == CropsIn({"pending"}) \ Ending(S)
           recalled == Len(order) + Cardinality(rest)
           excess == IF recalled > CropHistory THEN recalled - CropHistory ELSE 0
<1>1. Crops = 1..Cardinality(Crops) /\ Cardinality(Crops) \in Nat /\ CropHistory \in Nat \ {0}
      /\ IsFiniteSet(Crops)
  BY CropAssumption, FS_CardinalityType
<1>2. E \in SUBSET (1..Cardinality(Crops)) /\ E \subseteq Crops
  BY <1>1 DEF Ending
<1>3. Ascending(E) \in Seq(E)
  BY <1>1, <1>2, AscendingFacts
<1>4. Ascending(E) \in Seq(Crops) /\ ToSet(Ascending(E)) \subseteq E
  BY <1>2, <1>3, LineFacts
<1>5. order \in Seq(Crops) /\ ToSet(order) = ToSet(cropOrder) \cup ToSet(Ascending(E))
  BY <1>4, ConcatFacts DEF CropRest
<1>6. \A i \in ToSet(cropOrder) : i \in Crops /\ crops[i].st \in CropEnds
  BY LineFacts DEF CropRest, ToSet
<1>7. \A i \in Crops : crops[i] \in CropRecords
  BY DEF CropInv, CropsOK
<1>8. \A i \in ToSet(order) : crops'[i].st \in CropEnds
  <2> SUFFICES ASSUME NEW i \in ToSet(order) PROVE crops'[i].st \in CropEnds
    OBVIOUS
  <2>1. i \in Crops
    BY <1>5, LineFacts
  <2>2. crops' = [j \in Crops |-> IF j \in Ending(S) THEN [crops[j] EXCEPT !.st = end] ELSE crops[j]]
    BY DEF CropFinish, EndsCrops
  <2>3. CASE i \in E
    <3>1. crops'[i] = [crops[i] EXCEPT !.st = end]
      BY <2>1, <2>2, <2>3
    <3> QED BY <1>7, <2>1, <3>1 DEF CropRecords
  <2>4. CASE i \notin E
    BY <1>4, <1>5, <1>6, <2>1, <2>2, <2>4
  <2> QED BY <2>3, <2>4
<1>9. Cardinality(rest) \in Nat
  <2>1. rest \subseteq Crops
    BY DEF CropsIn
  <2>2. IsFiniteSet(rest)
    BY <1>1, <2>1, FS_Subset
  <2> HIDE DEF rest
  <2> QED BY <2>2, FS_CardinalityType
<1>10. cropOrder' = IF excess >= Len(order) THEN <<>> ELSE SubSeq(order, excess + 1, Len(order))
  BY DEF CropFinish, ForgetsCrops
<1> HIDE DEF E, order, rest
<1>11. Len(order) \in Nat
  BY <1>5
<1>12. excess \in Nat /\ Len(order) - excess <= CropHistory
  BY <1>1, <1>9, <1>11
<1>13. CASE excess >= Len(order)
  BY <1>1, <1>10, <1>13
<1>14. CASE ~(excess >= Len(order))
  <2>1. cropOrder' = SubSeq(order, excess + 1, Len(order))
    BY <1>10, <1>14
  <2> HIDE DEF excess
  <2>2. /\ cropOrder' \in Seq(Crops) /\ Len(cropOrder') = Len(order) - excess
        /\ \A k \in 1..Len(cropOrder') : cropOrder'[k] = order[excess + k] /\ excess + k \in 1..Len(order)
    BY <1>5, <1>11, <1>12, <1>14, <2>1
  <2>3. \A k \in 1..Len(order) : order[k] \in ToSet(order)
    BY <1>5, LineFacts
  <2> QED BY <1>8, <1>12, <2>2, <2>3
<1> QED BY <1>13, <1>14

\* A step that ends nothing.
LEMMA OrderRests ==
  ASSUME CropInv, CropRest, cropOrder' = cropOrder, NEW i \in Crops, NEW st,
         Becomes(i, st) \/ Authorizes(i), crops[i].st \notin CropEnds \/ st \in CropEnds \/ Authorizes(i)
  PROVE  \A k \in 1..Len(cropOrder') : crops'[cropOrder'[k]].st \in CropEnds
<1> SUFFICES ASSUME NEW k \in 1..Len(cropOrder) PROVE crops'[cropOrder[k]].st \in CropEnds
  OBVIOUS
<1>1. cropOrder[k] \in Crops /\ crops[cropOrder[k]].st \in CropEnds
  BY ElementOfSeq DEF CropRest
<1>2. crops \in [Crops -> CropRecords]
  BY DEF CropInv, CropsOK
<1>3. CASE Becomes(i, st) /\ (crops[i].st \notin CropEnds \/ st \in CropEnds)
  <2>1. crops' = [crops EXCEPT ![i] = [crops[i] EXCEPT !.st = st]]
    BY <1>3 DEF Becomes
  <2>2. cropOrder[k] # i => crops'[cropOrder[k]] = crops[cropOrder[k]]
    BY <1>1, <1>2, <2>1
  <2>3. crops'[i].st = st
    BY <1>2, <2>1 DEF CropRecords
  <2> QED BY <1>1, <1>3, <2>2, <2>3
<1>4. CASE Authorizes(i)
  <2>1. crops' = [crops EXCEPT ![i] = [crops[i] EXCEPT !.authorized = TRUE]]
    BY <1>4 DEF Authorizes
  <2>2. crops'[cropOrder[k]].st = crops[cropOrder[k]].st
    BY <1>1, <1>2, <2>1 DEF CropRecords
  <2> QED BY <1>1, <2>2
<1> QED BY <1>3, <1>4

LEMMA CropRestSteps == ASSUME CropInv, CropRest, CropNext PROVE CropRest'
<1>1. /\ CropQueueMax \in Nat \ {0} /\ CropHistory \in Nat \ {0} /\ cropQueue \in Seq(Crops)
      /\ Len(cropQueue) \in Nat /\ Len(cropOrder) \in Nat
  BY CropAssumption DEF CropInv, CropsOK, CropRest
<1>2. ASSUME NEW i \in Crops, SubmitCrop(i) \/ RefuseCrop(i) PROVE CropRest'
  <2>1. /\ UNCHANGED <<cropQueue, cropDoor, cropOrder, lockFile>>
        /\ crops[i].st \in {"new", "reserved"}
        /\ \E st \in {"refused", "reserved"} : Becomes(i, st)
    BY <1>2 DEF SubmitCrop, RefuseCrop
  <2>2. crops[i].st \notin CropEnds
    BY <2>1 DEF CropEnds
  <2>3. \A k \in 1..Len(cropOrder') : crops'[cropOrder'[k]].st \in CropEnds
    BY <2>1, <2>2, OrderRests
  <2> QED BY <2>1, <2>3 DEF CropRest
<1>3. ASSUME NEW i \in Crops, RegisterCrop(i) PROVE CropRest'
  <2>1. UNCHANGED <<cropDoor, lockFile>> /\ crops[i].st \notin CropEnds
    BY <1>3 DEF RegisterCrop, CropEnds
  <2>2. CASE Len(cropQueue) < CropQueueMax
    <3>1. Becomes(i, "pending") /\ cropQueue' = Append(cropQueue, i) /\ cropOrder' = cropOrder
      BY <1>3, <2>2 DEF RegisterCrop
    <3>2. Len(cropQueue') = Len(cropQueue) + 1
      BY <1>1, <3>1, AppendProperties
    <3>3. \A k \in 1..Len(cropOrder') : crops'[cropOrder'[k]].st \in CropEnds
      BY <2>1, <3>1, OrderRests
    <3> QED BY <1>1, <2>1, <2>2, <3>1, <3>2, <3>3 DEF CropRest
  <2>3. CASE ~(Len(cropQueue) < CropQueueMax)
    <3> DEFINE grown == Append(cropOrder, i)
               pending == Cardinality(CropsIn({"pending"}))
    <3>1. /\ Becomes(i, "dropped") /\ cropQueue' = cropQueue
          /\ cropOrder' = IF Len(cropOrder) + pending >= CropHistory THEN Tail(grown) ELSE grown
      BY <1>3, <2>3 DEF RegisterCrop
    <3>2. pending \in Nat
      <4>1. CropsIn({"pending"}) \subseteq Crops
        BY DEF CropsIn
      <4> QED BY <4>1, CropAssumption, FS_Subset, FS_CardinalityType
    <3>3. /\ grown \in Seq(Crops) /\ Len(grown) = Len(cropOrder) + 1 /\ grown # <<>>
          /\ ToSet(grown) = ToSet(cropOrder) \cup {i}
      BY AppendFacts, AppendProperties DEF CropRest
    <3>4. /\ Tail(grown) \in Seq(Crops) /\ Len(Tail(grown)) = Len(cropOrder)
          /\ ToSet(Tail(grown)) \subseteq ToSet(grown)
      <4> HIDE DEF grown
      <4>1. Tail(grown) \in Seq(Crops) /\ Len(Tail(grown)) = Len(grown) - 1
        BY <3>3, ShorterFacts
      <4>2. ToSet(Tail(grown)) \subseteq ToSet(grown)
        BY <3>3, LineFacts
      <4> QED BY <1>1, <3>3, <4>1, <4>2
    <3>5. /\ cropOrder' \in Seq(Crops) /\ Len(cropOrder') <= CropHistory
          /\ ToSet(cropOrder') \subseteq ToSet(cropOrder) \cup {i}
      <4> HIDE DEF grown, pending
      <4>1. CASE Len(cropOrder) + pending >= CropHistory
        BY <3>1, <3>3, <3>4, <4>1 DEF CropRest
      <4>2. CASE ~(Len(cropOrder) + pending >= CropHistory)
        BY <1>1, <3>1, <3>2, <3>3, <4>2
      <4> QED BY <4>1, <4>2
    <3>6. ASSUME NEW j \in ToSet(cropOrder) \cup {i} PROVE crops'[j].st \in CropEnds
      <4>1. crops \in [Crops -> CropRecords] /\ crops' = [crops EXCEPT ![i] = [crops[i] EXCEPT !.st = "dropped"]]
        BY <3>1 DEF CropInv, CropsOK, Becomes
      <4>2. crops'[i].st = "dropped"
        BY <4>1 DEF CropRecords
      <4>3. j # i => j \in Crops /\ crops[j].st \in CropEnds
        BY LineFacts DEF CropRest, ToSet
      <4>4. j # i => crops'[j] = crops[j]
        BY <4>1, <4>3
      <4> QED BY <4>2, <4>3, <4>4 DEF CropEnds
    <3>7. \A k \in 1..Len(cropOrder') : cropOrder'[k] \in ToSet(cropOrder')
      BY <3>5, LineFacts
    <3> QED BY <2>1, <3>1, <3>5, <3>6, <3>7 DEF CropRest
  <2> QED BY <2>2, <2>3
<1>4. ASSUME NEW i \in Crops, ExpireCrop(i) PROVE CropRest'
  <2>1. UNCHANGED <<cropQueue, cropDoor, lockFile>> /\ CropFinish({i}, "dropped")
        /\ {i} \in SUBSET Crops /\ "dropped" \in CropEnds
    BY <1>4 DEF ExpireCrop, CropEnds
  <2>2. /\ cropOrder' \in Seq(Crops) /\ Len(cropOrder') <= CropHistory
        /\ \A k \in 1..Len(cropOrder') : crops'[cropOrder'[k]].st \in CropEnds
    BY <2>1, FinishFits
  <2> QED BY <2>1, <2>2 DEF CropRest
<1>5. ASSUME AppendCrop PROVE CropRest'
  <2>1. UNCHANGED <<cropQueue, cropDoor, lockFile>> /\ keeper.pc = "append"
        /\ \E end \in CropEnds : CropFinish({keeper.at}, end)
    BY <1>5 DEF AppendCrop, CropEnds
  <2>2. {keeper.at} \in SUBSET Crops
    BY <2>1 DEF CropInv, CropsOK
  <2>3. /\ cropOrder' \in Seq(Crops) /\ Len(cropOrder') <= CropHistory
        /\ \A k \in 1..Len(cropOrder') : crops'[cropOrder'[k]].st \in CropEnds
    BY <2>1, <2>2, FinishFits
  <2> QED BY <2>1, <2>3 DEF CropRest
<1>6. ASSUME DropCrops PROVE CropRest'
  <2> DEFINE S == {i \in Crops : ~crops[i].authorized}
  <2>1. UNCHANGED <<cropQueue, lockFile>> /\ CropFinish(S, "dropped") /\ cropDoor' = "closed"
        /\ S \in SUBSET Crops /\ "dropped" \in CropEnds
    BY <1>6 DEF DropCrops, CropEnds
  <2> HIDE DEF S
  <2>2. /\ cropOrder' \in Seq(Crops) /\ Len(cropOrder') <= CropHistory
        /\ \A k \in 1..Len(cropOrder') : crops'[cropOrder'[k]].st \in CropEnds
    BY <2>1, FinishFits
  <2> QED BY <2>1, <2>2 DEF CropRest
<1>7. ASSUME CropCrash PROVE CropRest'
  <2>1. /\ cropQueue' = <<>> /\ cropOrder' = <<>> /\ cropDoor' = "open" /\ lockFile' \in BOOLEAN
    BY <1>7 DEF CropCrash, CropRest
  <2> QED BY <1>1, <2>1 DEF CropRest
<1>8. ASSUME AuthorizeCrop PROVE CropRest'
  <2>1. /\ UNCHANGED <<cropQueue, cropDoor, cropOrder, lockFile>> /\ keeper.at \in Crops
        /\ crops' = crops \/ Authorizes(keeper.at)
    BY <1>8 DEF AuthorizeCrop, CropInv, CropsOK
  <2>2. CASE crops' = crops
    BY <2>1, <2>2 DEF CropRest
  <2>3. CASE Authorizes(keeper.at)
    <3>1. \A k \in 1..Len(cropOrder') : crops'[cropOrder'[k]].st \in CropEnds
      BY <2>1, <2>3, OrderRests
    <3> QED BY <2>1, <3>1 DEF CropRest
  <2> QED BY <2>1, <2>2, <2>3
<1>9. ASSUME TakeCrop PROVE CropRest'
  <2>1. UNCHANGED <<crops, cropDoor, cropOrder, lockFile>> /\ cropQueue' = Tail(cropQueue)
        /\ cropQueue # <<>>
    BY <1>9 DEF TakeCrop
  <2>2. Len(cropQueue') = Len(cropQueue) - 1
    BY <1>1, <2>1, ShorterFacts
  <2> QED BY <1>1, <2>1, <2>2 DEF CropRest
<1>10. ASSUME WorkerEnd \/ SaveCrop \/ CloseCrops PROVE CropRest'
  BY <1>10 DEF WorkerEnd, SaveCrop, CloseCrops, CropRest
<1> QED BY <1>2, <1>3, <1>4, <1>5, <1>6, <1>7, <1>8, <1>9, <1>10, CropAssumption DEF CropNext

LEMMA CropTypes == CropInit /\ [][CropNext]_cropvars => []CropTypeOK
<1>1. CropInit => CropInv /\ CropRest
  <2> SUFFICES ASSUME CropInit PROVE CropRest
    BY CropBegins
  <2>1. cropQueue = <<>> /\ cropOrder = <<>> /\ cropDoor = "open" /\ lockFile = FALSE
    BY DEF CropInit
  <2>2. CropQueueMax \in Nat /\ CropHistory \in Nat
    BY CropAssumption
  <2>3. /\ Len(cropQueue) = 0 /\ Len(cropOrder) = 0 /\ cropOrder \in Seq(Crops)
        /\ 1..Len(cropOrder) = {}
    BY <2>1
  <2>4. \A k \in 1..Len(cropOrder) : crops[cropOrder[k]].st \in CropEnds
    BY <2>3
  <2>5. lockFile \in BOOLEAN
    BY <2>1
  <2> QED BY <2>1, <2>2, <2>3, <2>4, <2>5 DEF CropRest
<1>2. CropInv /\ CropRest /\ [CropNext]_cropvars => (CropInv /\ CropRest)'
  <2> SUFFICES ASSUME CropInv, CropRest, [CropNext]_cropvars PROVE CropRest'
    BY CropSteps
  <2>1. CASE CropNext
    BY <2>1, CropRestSteps
  <2>2. CASE UNCHANGED cropvars
    BY <2>2 DEF cropvars, CropRest
  <2> QED BY <2>1, <2>2
<1>3. CropInv /\ CropRest => CropTypeOK
  <2> SUFFICES ASSUME CropInv, CropRest PROVE CropTypeOK
    OBVIOUS
  <2>1. ToSet(cropQueue) \subseteq Crops
    BY LineFacts DEF CropInv, CropsOK
  <2>2. /\ \A i \in Crops : crops[i].st \in CropStates /\ crops[i].authorized \in BOOLEAN
        /\ keeper.pc \in {"idle", "save", "authorize", "append", "ended"}
    BY DEF CropInv, CropsOK, CropRecords
  <2> QED BY <2>1, <2>2 DEF CropInv, CropsOK, CropStates, CropLines, CropRest, CropTypeOK
<1> QED BY <1>1, <1>2, <1>3, PTL
-------------------------------------------------------------------------------
(* EventProgress. *)

EpisodeRows == [event : Episodes, start : Nat, end : Nat]
ProgressRest ==
    /\ shot <= MaxShot
    /\ \A o \in Objs : /\ facts[o].occ <= MaxOccurrence /\ facts[o].born <= facts[o].last
                       /\ facts[o].state # "none" => facts[o].occ # 0
    /\ \A e \in Episodes : rows[e].start <= rows[e].end /\ rows[e].end <= shot
    /\ frames \in Seq(1..shot) /\ Len(frames) <= FrameCap
    /\ episodes \in Seq(EpisodeRows) /\ Len(fusions) <= FusionCap

\* The latest of a sequence.
LEMMA LatestFacts ==
  ASSUME NEW T, NEW s \in Seq(T), NEW n \in Nat
  PROVE  Latest(s, n) \in Seq(T) /\ Len(Latest(s, n)) <= n /\ Len(Latest(s, n)) <= Len(s)
<1>1. Len(s) \in Nat
  OBVIOUS
<1>2. CASE Len(s) > n
  <2>1. Latest(s, n) = SubSeq(s, Len(s) - n + 1, Len(s))
    BY <1>2 DEF Latest
  <2>2. Latest(s, n) \in Seq(T) /\ Len(Latest(s, n)) = n
    BY <1>1, <1>2, <2>1
  <2> QED BY <1>1, <1>2, <2>2
<1>3. CASE ~(Len(s) > n)
  BY <1>1, <1>3 DEF Latest
<1> QED BY <1>2, <1>3

LEMMA SetToSeqFacts ==
  ASSUME NEW S, IsFiniteSet(S)
  PROVE  SetToSeq(S) \in [1..Cardinality(S) -> S] /\ Cardinality(S) \in Nat
<1>1. Cardinality(S) \in Nat /\ ExistsBijection(1..Cardinality(S), S)
  BY FS_CardinalityType
<1>2. \E f \in [1..Cardinality(S) -> S] : IsInjective(f)
  BY <1>1 DEF ExistsBijection, Bijection, Injection
<1> QED BY <1>1, <1>2 DEF SetToSeq

\* The facts after a frame.
FactsAfter(refs, good) ==
    [o \in Objs |-> IF o \in refs THEN FactAfter(facts[o], shot + 1, o \in good) ELSE facts[o]]

LEMMA FactsFit ==
  ASSUME ProgressInv, ProgressRest, NEW refs \in SUBSET Objs, NEW good \in SUBSET Objs,
         ShowFrame(refs, good)
  PROVE  LET after == FactsAfter(refs, good)
         IN  \A o \in Objs :
               /\ after[o].occ \in Nat /\ after[o].occ <= MaxOccurrence
               /\ after[o].born \in Nat /\ after[o].last \in Nat
               /\ after[o].born <= after[o].last /\ after[o].last <= shot + 1
               /\ after[o].state # "none" => after[o].occ # 0
               /\ o \in refs => after[o].last = shot + 1 /\ after[o].state # "none"
<1> SUFFICES ASSUME NEW o \in Objs
             PROVE  LET f == FactsAfter(refs, good)[o]
                    IN  /\ f.occ \in Nat /\ f.occ <= MaxOccurrence
                        /\ f.born \in Nat /\ f.last \in Nat
                        /\ f.born <= f.last /\ f.last <= shot + 1
                        /\ f.state # "none" => f.occ # 0
                        /\ o \in refs => f.last = shot + 1 /\ f.state # "none"
  OBVIOUS
<1>1. /\ facts[o] \in [occ : Nat, state : {"none", "pending", "open"}, born : Nat, last : Nat]
      /\ facts[o].born <= shot /\ facts[o].last <= shot /\ shot \in Nat
  BY DEF ProgressInv, RowsOfTracks
<1>2. /\ facts[o].occ <= MaxOccurrence /\ facts[o].born <= facts[o].last
      /\ facts[o].state # "none" => facts[o].occ # 0
  BY DEF ProgressRest
<1>3. CASE o \notin refs
  BY <1>1, <1>2, <1>3 DEF FactsAfter
<1>4. CASE o \in refs
  <2>1. FactsAfter(refs, good)[o] = FactAfter(facts[o], shot + 1, o \in good)
    BY <1>4 DEF FactsAfter
  <2>2. facts[o].state = "none" => facts[o].occ < MaxOccurrence
    BY <1>4 DEF ShowFrame
  <2>3. MaxOccurrence \in Nat
    BY ProgressAssumption
  <2> QED BY <1>1, <1>2, <1>4, <2>1, <2>2, <2>3 DEF FactAfter
<1> QED BY <1>3, <1>4

LEMMA RecordedShape ==
  ASSUME episodes \in Seq(EpisodeRows), NEW refs \in SUBSET Objs, NEW after,
         \A o \in refs : /\ after[o].state # "none" => after[o].occ \in 1..MaxOccurrence
                         /\ after[o].born \in Nat /\ after[o].last \in Nat
  PROVE  Recorded(refs, after) \in Seq(EpisodeRows)
<1> DEFINE open == {o \in refs : after[o].state = "open"}
           openOnes == SetToSeq(open)
           events == {<<o, after[o].occ>> : o \in open}
           staying == {i \in 1..Len(episodes) : episodes[i].event \notin events}
           places == Ascending(staying)
           stay == [k \in DOMAIN places |-> episodes[places[k]]]
           more == [k \in 1..Len(openOnes) |-> [event |-> <<openOnes[k], after[openOnes[k]].occ>>,
                                             start |-> after[openOnes[k]].born,
                                             end |-> after[openOnes[k]].last]]
<1>1. Recorded(refs, after) = stay \o more
  BY DEF Recorded, Unmoved
<1>2. stay \in Seq(EpisodeRows)
  <2>1. staying \in SUBSET (1..Len(episodes)) /\ Len(episodes) \in Nat
    OBVIOUS
  <2>2. places \in Seq(staying)
    BY <2>1, AscendingFacts
  <2>3. \A i \in staying : episodes[i] \in EpisodeRows
    BY <2>1
  <2> HIDE DEF staying, places
  <2>4. DOMAIN places = 1..Len(places) /\ Len(places) \in Nat
        /\ \A k \in 1..Len(places) : places[k] \in staying
    BY <2>2, ElementOfSeq, LenProperties
  <2>5. stay \in [1..Len(places) -> EpisodeRows]
    BY <2>3, <2>4
  <2> HIDE DEF stay
  <2> QED BY <2>4, <2>5
<1>3. more \in Seq(EpisodeRows)
  <2>1. IsFiniteSet(open)
    BY ProgressAssumption, FS_Subset
  <2>2. openOnes \in [1..Cardinality(open) -> open] /\ Cardinality(open) \in Nat
    BY <2>1, SetToSeqFacts
  <2>3. ASSUME NEW o \in open
        PROVE  [event |-> <<o, after[o].occ>>, start |-> after[o].born, end |-> after[o].last]
                 \in EpisodeRows
    BY <2>3 DEF EpisodeRows, Episodes
  <2> HIDE DEF open, openOnes
  <2>4. Len(openOnes) = Cardinality(open)
    BY <2>2
  <2>5. more \in [1..Cardinality(open) -> EpisodeRows]
    BY <2>2, <2>3, <2>4
  <2> HIDE DEF more
  <2> QED BY <2>2, <2>5
<1> HIDE DEF stay, more
<1> QED BY <1>1, <1>2, <1>3, ConcatProperties

LEMMA ShowFrameFits ==
  ASSUME ProgressInv, ProgressRest, NEW refs \in SUBSET Objs, NEW good \in SUBSET Objs,
         ShowFrame(refs, good)
  PROVE  ProgressRest'
<1> DEFINE t == shot + 1
           after == FactsAfter(refs, good)
<1>1. /\ shot \in Nat /\ shot < MaxShot /\ MaxShot \in Nat /\ MaxOccurrence \in Nat
      /\ FrameCap \in Nat \ {0}
  BY ProgressAssumption DEF ShowFrame, ProgressInv, RowsOfTracks
<1>2. /\ shot' = t /\ facts' = after /\ fusions' = fusions /\ good \subseteq refs
      /\ frames' = Latest(Append(frames, t), FrameCap)
      /\ episodes' = Latest(Recorded(refs, after), FrameCap)
  BY DEF ShowFrame, FactsAfter
<1>3. \A o \in Objs :
         /\ after[o].occ \in Nat /\ after[o].occ <= MaxOccurrence
         /\ after[o].born \in Nat /\ after[o].last \in Nat
         /\ after[o].born <= after[o].last /\ after[o].last <= t
         /\ after[o].state # "none" => after[o].occ # 0
         /\ o \in refs => after[o].last = t /\ after[o].state # "none"
  BY FactsFit
<1>4. PICK firsts \in SUBSET good :
        rows' = [e \in Episodes |->
                    IF e[1] \in good /\ e[2] = after[e[1]].occ
                    THEN [start |-> after[e[1]].born, end |-> t,
                          first |-> rows[e].first \/ e[1] \in firsts]
                    ELSE rows[e]]
  BY DEF ShowFrame, FactsAfter
<1> HIDE DEF after
<1>5. ASSUME NEW e \in Episodes PROVE rows'[e].start <= rows'[e].end /\ rows'[e].end <= t
  <2>1. rows[e].start <= rows[e].end /\ rows[e].end <= shot /\ rows[e].end \in Nat /\ e[1] \in Objs
    BY DEF ProgressRest, ProgressInv, RowsOfTracks, Episodes
  <2>2. CASE e[1] \in good /\ e[2] = after[e[1]].occ
    BY <1>1, <1>2, <1>3, <1>4, <2>1, <2>2
  <2>3. CASE ~(e[1] \in good /\ e[2] = after[e[1]].occ)
    BY <1>1, <1>4, <2>1, <2>3
  <2> QED BY <2>2, <2>3
<1>6. frames' \in Seq(1..t) /\ Len(frames') <= FrameCap
  <2>1. frames \in Seq(1..t)
    <3>1. /\ frames \in Seq(1..shot) /\ DOMAIN frames = 1..Len(frames) /\ Len(frames) \in Nat
          /\ \A i \in 1..Len(frames) : frames[i] \in 1..shot
      BY ElementOfSeq, LenProperties DEF ProgressRest
    <3>2. \A i \in 1..Len(frames) : frames[i] \in 1..t
      BY <1>1, <3>1
    <3> QED BY <3>1, <3>2, SeqWithin
  <2>2. Append(frames, t) \in Seq(1..t)
    BY <1>1, <2>1
  <2> QED BY <1>1, <1>2, <2>2, LatestFacts
<1>7. episodes' \in Seq(EpisodeRows)
  <2>1. Recorded(refs, after) \in Seq(EpisodeRows)
    <3>1. \A o \in refs : /\ after[o].state # "none" => after[o].occ \in 1..MaxOccurrence
                          /\ after[o].born \in Nat /\ after[o].last \in Nat
      BY <1>1, <1>3
    <3> QED BY <3>1, RecordedShape DEF ProgressRest
  <2> QED BY <1>1, <1>2, <2>1, LatestFacts
<1> QED BY <1>1, <1>2, <1>3, <1>5, <1>6, <1>7 DEF ProgressRest

LEMMA ProgressTypes == ProgressInit /\ [][ProgressNext]_eprogvars => []ProgressTypeOK
<1>1. ProgressInit => ProgressInv /\ ProgressRest
  <2> SUFFICES ASSUME ProgressInit PROVE ProgressRest
    BY ProgressBegins
  <2>1. frames = <<>> /\ episodes = <<>> /\ fusions = <<>> /\ shot = 0
    BY DEF ProgressInit
  <2>2. /\ Len(frames) = 0 /\ Len(fusions) = 0 /\ frames \in Seq(1..shot)
        /\ episodes \in Seq(EpisodeRows)
    BY <2>1
  <2>3. \A o \in Objs : facts[o] = [occ |-> 0, state |-> "none", born |-> 0, last |-> 0]
    BY DEF ProgressInit
  <2>4. \A e \in Episodes : rows[e] = NoRow
    BY DEF ProgressInit
  <2> QED BY <2>1, <2>2, <2>3, <2>4, ProgressAssumption DEF ProgressRest, NoRow
<1>2. ProgressInv /\ ProgressRest /\ [ProgressNext]_eprogvars => (ProgressInv /\ ProgressRest)'
  <2> SUFFICES ASSUME ProgressInv, ProgressRest, [ProgressNext]_eprogvars PROVE ProgressRest'
    BY ProgressSteps
  <2>1. ASSUME LoseStream PROVE ProgressRest'
    <3>1. /\ facts' = [o \in Objs |-> [facts[o] EXCEPT !.state = "none"]]
          /\ UNCHANGED <<shot, rows, frames, episodes, fusions>>
      BY <2>1 DEF LoseStream, progressRegistry
    <3>2. \A o \in Objs : facts[o] \in [occ : Nat, state : {"none", "pending", "open"},
                                        born : Nat, last : Nat]
      BY DEF ProgressInv, RowsOfTracks
    <3>3. \A o \in Objs : /\ facts'[o].occ = facts[o].occ /\ facts'[o].born = facts[o].born
                          /\ facts'[o].last = facts[o].last /\ facts'[o].state = "none"
      BY <3>1, <3>2
    <3> QED BY <3>1, <3>3 DEF ProgressRest
  <2>2. ASSUME NEW e \in Episodes, WriteLate(e) PROVE ProgressRest'
    <3>1. UNCHANGED <<shot, facts, frames, episodes, fusions>>
      BY <2>2 DEF WriteLate, progressRegistry
    <3>2. /\ e[1] \in Objs /\ rows \in [Episodes -> [start : Nat, end : Nat, first : BOOLEAN]]
          /\ facts[e[1]].last <= shot
      BY DEF Episodes, ProgressInv, RowsOfTracks
    <3>3. \/ rows' = [rows EXCEPT ![e] = [start |-> facts[e[1]].born, end |-> facts[e[1]].last,
                                          first |-> FALSE]]
          \/ rows' = [rows EXCEPT ![e].first = TRUE]
      BY <2>2 DEF WriteLate
    <3>4. ASSUME NEW d \in Episodes PROVE rows'[d].start <= rows'[d].end /\ rows'[d].end <= shot
      <4>1. /\ rows[d].start <= rows[d].end /\ rows[d].end <= shot
            /\ facts[e[1]].born <= facts[e[1]].last
        BY <3>2 DEF ProgressRest
      <4>2. CASE d # e
        BY <3>2, <3>3, <4>1, <4>2
      <4>3. CASE d = e
        BY <3>2, <3>3, <4>1, <4>3
      <4> QED BY <4>2, <4>3
    <3> QED BY <3>1, <3>4 DEF ProgressRest
  <2>3. ASSUME NEW fs \in SUBSET (1..shot), NEW o \in Objs, SubmitFusion(fs, o)
        PROVE  ProgressRest'
    <3>1. PICK n \in 0..Len(frames), m \in 0..Len(episodes) :
            /\ frames' = Latest(frames, n) /\ episodes' = Latest(episodes, m)
            /\ \E f : fusions' = Append(fusions, f)
      BY <2>3 DEF SubmitFusion
    <3>2. UNCHANGED <<shot, facts, rows>> /\ Len(fusions) < FusionCap
      BY <2>3 DEF SubmitFusion, cameraFacts
    <3>3. PICK S : fusions \in Seq(S)
      BY DEF ProgressInv, FusionsSnapped
    <3>4. PICK f : fusions' = Append(fusions, f)
      BY <3>1
    <3>5. Len(fusions') = Len(fusions) + 1 /\ Len(fusions) \in Nat
      BY <3>3, <3>4
    <3>6. Len(fusions') <= FusionCap
      BY <3>2, <3>5, ProgressAssumption
    <3>7. n \in Nat /\ m \in Nat /\ Len(frames) \in Nat
      BY DEF ProgressRest
    <3>8. /\ frames' \in Seq(1..shot) /\ Len(frames') <= Len(frames)
          /\ episodes' \in Seq(EpisodeRows) /\ Len(frames') \in Nat
      BY <3>1, <3>7, LatestFacts DEF ProgressRest
    <3>9. Len(frames') <= FrameCap
      BY <3>7, <3>8, ProgressAssumption DEF ProgressRest
    <3> QED BY <3>2, <3>6, <3>8, <3>9 DEF ProgressRest
  <2>4. ASSUME PublishFusion PROVE ProgressRest'
    <3>1. UNCHANGED <<shot, facts, rows, frames, episodes>> /\ fusions' = Tail(fusions)
          /\ fusions # <<>>
      BY <2>4 DEF PublishFusion, cameraFacts, progressRegistry
    <3>2. PICK S : fusions \in Seq(S)
      BY DEF ProgressInv, FusionsSnapped
    <3>3. Len(fusions') = Len(fusions) - 1 /\ Len(fusions) \in Nat
      BY <3>1, <3>2, ShorterFacts
    <3>4. Len(fusions') <= FusionCap
      BY <3>3, ProgressAssumption DEF ProgressRest
    <3> QED BY <3>1, <3>4 DEF ProgressRest
  <2>5. ASSUME UNCHANGED eprogvars PROVE ProgressRest'
    BY <2>5 DEF eprogvars, ProgressRest
  <2> QED BY <2>1, <2>2, <2>3, <2>4, <2>5, ShowFrameFits DEF ProgressNext
<1>3. ProgressInv /\ ProgressRest => ProgressTypeOK
  <2> SUFFICES ASSUME ProgressInv, ProgressRest PROVE ProgressTypeOK
    OBVIOUS
  <2>1. /\ shot \in 0..MaxShot /\ Len(seen) = shot
        /\ \A o \in Objs : facts[o].occ \in 0..MaxOccurrence
                           /\ facts[o].state \in {"none", "pending", "open"}
    BY ProgressAssumption DEF ProgressInv, ProgressRest, SeenFrames, RowsOfTracks
  <2>2. ToSet(frames) \subseteq 1..shot
    BY LineFacts DEF ProgressRest
  <2>3. \A b \in ToSet(episodes) : b.event \in Episodes
    <3>1. ToSet(episodes) \subseteq EpisodeRows
      BY LineFacts DEF ProgressRest
    <3> QED BY <3>1 DEF EpisodeRows
  <2> QED BY <2>1, <2>2, <2>3 DEF ProgressRest, ProgressTypeOK
<1> QED BY <1>1, <1>2, <1>3, PTL
-------------------------------------------------------------------------------
(* MaterialPool. *)

PoolRest ==
    /\ shown <= MaxShown /\ (observer.pc \in {"store", "copy"} => shown # 0)
    /\ \A k \in Events : \A x \in live[k] : x.at \in 1..MaxShown
    /\ windowEvent \in [PoolWins -> EventKeys \cup {NoEvent}]
    /\ sealedWins \in Seq(PoolWins) /\ Len(sealedWins) <= SealedCap
    /\ plan.frames \subseteq PoolFrames /\ poolState \in {"open", "closed", "released"}

LEMMA PoolRestSteps == ASSUME PoolInv, PoolRest, PoolNext PROVE PoolRest'
<1>1. /\ MaxShown \in Nat /\ SealedCap \in Nat \ {0} /\ shown \in Nat /\ Len(sealedWins) \in Nat
      /\ \A k \in DOMAIN live : live[k] \subseteq [id : PoolFrames, at : Nat]
  BY PoolAssumption DEF PoolInv, PoolCaps, EventOK, PoolRest
<1>2. ASSUME NEW w \in PoolWins, NEW k \in EventKeys, NEW brought \in SUBSET PoolFrames \ {{}},
             Show(w, k, brought)
      PROVE  PoolRest'
  <2>1. /\ shown' = shown + 1 /\ shown < MaxShown /\ live' = AfterCreation(k)
        /\ windowEvent' = [windowEvent EXCEPT ![w] = k] /\ plan' = NoPlan
        /\ UNCHANGED <<sealedWins, poolState>>
    BY <1>2 DEF Show
  <2>2. ASSUME NEW e \in DOMAIN live', NEW x \in live'[e] PROVE x.at \in 1..MaxShown
    <3>1. \/ live' = live
          \/ \E kept \in {live, Without(Oldest)} :
               live' = [d \in DOMAIN kept \cup {k} |-> IF d = k THEN {} ELSE kept[d]]
      BY <2>1 DEF AfterCreation
    <3>2. CASE live' = live
      BY <2>2, <3>2 DEF PoolRest, Events
    <3>3. ASSUME NEW kept \in {live, Without(Oldest)},
                 live' = [d \in DOMAIN kept \cup {k} |-> IF d = k THEN {} ELSE kept[d]]
          PROVE  x.at \in 1..MaxShown
      <4>1. e \in DOMAIN kept \cup {k} /\ live'[e] = IF e = k THEN {} ELSE kept[e]
        BY <2>2, <3>3
      <4>2. e # k /\ e \in DOMAIN kept /\ x \in kept[e]
        BY <2>2, <4>1
      <4>3. e \in DOMAIN live /\ kept[e] = live[e]
        BY <3>3, <4>2 DEF Without, Events
      <4> QED BY <4>2, <4>3 DEF PoolRest, Events
    <3> QED BY <3>1, <3>2, <3>3
  <2> QED BY <1>1, <2>1, <2>2 DEF PoolRest, NoPlan, Events
<1>3. ASSUME NEW w \in PoolWins, NEW brought \in SUBSET PoolFrames \ {{}}, PlanFrames(w, brought)
      PROVE  PoolRest'
  <2>1. UNCHANGED <<live, shown, windowEvent, sealedWins, observer, poolState>>
    BY <1>3 DEF PlanFrames
  <2>2. plan'.frames \subseteq PoolFrames
    <3>1. CASE plan' = [key |-> NoEvent, frames |-> brought]
      BY <3>1
    <3>2. CASE \E k \in {e \in Events : live[e] # {}} :
                  \E chosen \in SUBSET (brought \cup {x.id : x \in live[k]}) :
                      plan' = [key |-> k, frames |-> chosen]
      BY <1>1, <3>2 DEF Events
    <3> QED BY <1>3, <3>1, <3>2 DEF PlanFrames
  <2> QED BY <2>1, <2>2 DEF PoolRest, Events
<1>4. ASSUME NEW w \in PoolWins, ForgetWindow(w) PROVE PoolRest'
  <2>1. /\ UNCHANGED <<live, shown, observer, poolState>> /\ plan' = NoPlan
        /\ windowEvent' = [windowEvent EXCEPT ![w] = NoEvent]
    BY <1>4 DEF ForgetWindow
  <2>2. sealedWins # <<>> => /\ Tail(sealedWins) \in Seq(PoolWins)
                             /\ Len(Tail(sealedWins)) = Len(sealedWins) - 1
    BY ShorterFacts DEF PoolRest
  <2>3. sealedWins = <<>> => Len(sealedWins) = 0
    OBVIOUS
  <2>4. sealedWins' \in Seq(PoolWins) /\ Len(sealedWins') <= SealedCap
    <3>1. CASE sealedWins' = sealedWins
      BY <3>1 DEF PoolRest
    <3>2. CASE sealedWins' = Append(sealedWins, w) /\ Len(sealedWins) < SealedCap
      BY <1>1, <3>2, AppendProperties DEF PoolRest
    <3>3. CASE sealedWins' = Append(Tail(sealedWins), w) /\ ~(Len(sealedWins) < SealedCap)
      BY <1>1, <2>2, <2>3, <3>3, AppendProperties DEF PoolRest
    <3> QED BY <1>4, <3>1, <3>2, <3>3 DEF ForgetWindow
  <2>5. windowEvent' \in [PoolWins -> EventKeys \cup {NoEvent}]
    BY <2>1 DEF PoolRest
  <2> QED BY <2>1, <2>4, <2>5 DEF PoolRest, NoPlan, Events
<1>5. ASSUME StoreRow PROVE PoolRest'
  <2>1. UNCHANGED <<shown, windowEvent, sealedWins, plan, poolState>> /\ observer.pc = "store"
    BY <1>5 DEF StoreRow
  <2>2. live' = live \/ (live' = Roomy /\ (Full => Evictable # {}))
    BY <1>5 DEF StoreRow
  <2>3. ASSUME NEW e \in DOMAIN live', NEW x \in live'[e] PROVE x.at \in 1..MaxShown
    <3>1. e \in DOMAIN live /\ x \in live[e]
      BY <2>2, <2>3, RoomyKeeps DEF PoolInv
    <3> QED BY <3>1 DEF PoolRest, Events
  <2> QED BY <2>1, <2>3 DEF PoolRest, Events
<1>6. ASSUME CopyRow PROVE PoolRest'
  <2> DEFINE k == observer.key
             s == live[k] \cup {[id |-> Min(observer.rows), at |-> shown]}
  <2>1. UNCHANGED <<shown, windowEvent, sealedWins, plan, poolState>> /\ observer.pc = "copy"
    BY <1>6 DEF CopyRow
  <2>2. live' = live \/ (k \in Events /\ live' = [live EXCEPT ![k] = Trimmed(s)])
    BY <1>6 DEF CopyRow
  <2>3. Trimmed(s) \subseteq s
    <3> HIDE DEF s
    <3> QED BY DEF Trimmed
  <2>4. shown \in 1..MaxShown
    BY <1>1, <2>1 DEF PoolRest
  <2>5. ASSUME NEW e \in DOMAIN live', NEW x \in live'[e] PROVE x.at \in 1..MaxShown
    <3>1. e \in DOMAIN live
      BY <2>2, <2>5
    <3>2. x \in live[e] \/ x = [id |-> Min(observer.rows), at |-> shown]
      BY <2>2, <2>3, <2>5, <3>1 DEF Events
    <3> QED BY <2>4, <3>1, <3>2 DEF PoolRest, Events
  <2> QED BY <2>1, <2>5 DEF PoolRest, Events
<1>7. ASSUME ShowEnd \/ ObserverEnds PROVE PoolRest'
  <2>1. /\ UNCHANGED <<live, shown, windowEvent, sealedWins, plan, poolState>>
        /\ observer.pc \in {"store", "idle"}
    BY <1>7 DEF ShowEnd, ObserverEnds
  <2>2. observer'.pc \in {"idle", "ended"}
    <3>1. CASE ShowEnd
      BY <3>1 DEF ShowEnd, PoolInv, Copying
    <3>2. CASE ObserverEnds
      BY <3>2 DEF ObserverEnds, PoolInv, Copying
    <3> QED BY <1>7, <3>1, <3>2
  <2> QED BY <2>1, <2>2 DEF PoolRest, Events
<1>8. ASSUME PoolClose \/ ReleasePixels PROVE PoolRest'
  BY <1>8 DEF PoolClose, ReleasePixels, PoolRest, Events
<1> QED BY <1>2, <1>3, <1>4, <1>5, <1>6, <1>7, <1>8 DEF PoolNext

LEMMA PoolTypes == PoolInit /\ [][PoolNext]_pvars => []PoolTypeOK
<1>1. PoolInit => PoolInv /\ PoolRest
  <2> SUFFICES ASSUME PoolInit PROVE PoolRest
    BY PoolBegins
  <2>1. sealedWins = <<>> /\ Len(sealedWins) = 0 /\ DOMAIN live = {}
    BY DEF PoolInit
  <2> QED BY <2>1, PoolAssumption DEF PoolInit, PoolRest, NoPlan, Events
<1>2. PoolInv /\ PoolRest /\ [PoolNext]_pvars => (PoolInv /\ PoolRest)'
  <2> SUFFICES ASSUME PoolInv, PoolRest, [PoolNext]_pvars PROVE PoolRest'
    BY PoolSteps
  <2>1. CASE UNCHANGED pvars
    BY <2>1 DEF pvars, PoolRest, Events
  <2> QED BY <2>1, PoolRestSteps
<1>3. PoolInv /\ PoolRest => PoolTypeOK
  <2> SUFFICES ASSUME PoolInv, PoolRest PROVE PoolTypeOK
    OBVIOUS
  <2>1. book \in Nat
    <3>1. PixelsOf(live) \in Nat
      BY FS_CardinalityType DEF PixelsOf, PoolInv, PoolBooks
    <3> QED BY <3>1 DEF PoolInv, PoolBooks, HeldPixels
  <2>2. ASSUME NEW k \in Events PROVE live[k] \subseteq [id : PoolFrames, at : 1..MaxShown]
    <3> SUFFICES ASSUME NEW x \in live[k] PROVE x \in [id : PoolFrames, at : 1..MaxShown]
      OBVIOUS
    <3>1. x \in [id : PoolFrames, at : Nat] /\ x.at \in 1..MaxShown
      BY <2>2 DEF PoolInv, PoolCaps, EventOK, PoolRest, Events
    <3> QED BY <3>1
  <2>3. Range(sealedWins) \subseteq PoolWins
    <3>1. \A i \in DOMAIN sealedWins : sealedWins[i] \in PoolWins
      BY ElementOfSeq, LenProperties DEF PoolRest
    <3> QED BY <3>1 DEF Range
  <2>4. reserved \in 0..1 /\ shown \in 0..MaxShown /\ Events \subseteq EventKeys
        /\ observer.pc \in {"idle", "store", "copy", "ended"}
    BY PoolAssumption DEF PoolInv, PoolBooks, PoolCaps, Copying, PoolRest, Events
  <2> QED BY <2>1, <2>2, <2>3, <2>4 DEF PoolRest, PoolTypeOK
<1> QED BY <1>1, <1>2, <1>3, PTL
-------------------------------------------------------------------------------
(* Admission. *)

\* A reference: what it tells is from the sets of the instance, its retries are bounded.
OfTheScene(r) ==
    /\ r.ident \in Idents \cup {"none"}
    /\ r.change \in Boxes \cup {Nowhere} /\ r.det \in Spots \cup {Nowhere}
    /\ r.retry \in 0..2
SceneRest ==
    /\ OfTheScene(scene) /\ OfTheScene(scan.ref) /\ OfTheScene(scan.before)
    /\ \A w \in Slots : OfTheScene(admittedWin[w].prev) /\ admittedWin[w].retry \in 0..2
    /\ slotState \in [Slots -> {"free", "cut", "sealed"}]
    /\ shots \in 0..MaxShots

LEMMA NoSceneFits == OfTheScene(NoScene)
  BY DEF OfTheScene, NoScene

LEMMA FitsStill ==
  ASSUME NEW r \in PoolLeases, OfTheScene(r), NEW n \in 0..2, NEW b
  PROVE  /\ OfTheScene([r EXCEPT !.retry = n]) /\ OfTheScene([r EXCEPT !.by = b])
         /\ OfTheScene([r EXCEPT !.retry = n, !.by = b])
  BY DEF OfTheScene, PoolLeases

LEMMA DecidedFits ==
  ASSUME NEW r \in PoolLeases, OfTheScene(r), NEW id \in Idents, NEW s \in Shots, NEW w
  PROVE  OfTheScene(Decided(r, id, s, w))
<1>1. s.change \in Boxes \cup {Nowhere} /\ s.at \in Spots \cup {Nowhere}
  BY DEF Shots
<1>2. CASE Unusable(r, id)
  BY <1>1, <1>2 DEF Decided, OfTheScene
<1>3. CASE ~Unusable(r, id)
  <2> DEFINE d == Decided(r, id, s, w)
  <2>1. d.ident = id /\ d.retry = r.retry
    BY <1>3 DEF Decided
  <2>2. d.change \in {s.change, r.change}
    BY <1>3 DEF Decided
  <2>3. d.det \in {Nowhere, s.at, r.det}
    BY <1>3 DEF Decided
  <2> HIDE DEF d
  <2>4. OfTheScene(d)
    BY <1>1, <2>1, <2>2, <2>3 DEF OfTheScene
  <2> QED BY <2>4 DEF d
<1> QED BY <1>2, <1>3

LEMMA SceneRestSteps == ASSUME SceneInv, SceneRest, ANext PROVE SceneRest'
<1>1. /\ scene \in PoolLeases /\ scan.ref \in PoolLeases /\ scan.before \in PoolLeases
      /\ \A w \in Slots : admittedWin[w].prev \in PoolLeases
      /\ scan \in [w : {0, 1, 2}, ident : Idents \cup {"none"}, ref : PoolLeases,
                   before : PoolLeases, seen : Nat, admitted : BOOLEAN]
      /\ admittedWin \in [Slots -> [on : BOOLEAN, enqueued : BOOLEAN, retry : Nat,
                                    prev : PoolLeases]]
      /\ scan # NoScan => scan.w \in Slots /\ scan.ident \in Idents
  BY DEF SceneInv, Faithful
<1>2. ASSUME NEW w \in Slots, NEW id \in Idents, ScanWindow(w, id) PROVE SceneRest'
  <2>1. /\ scan'.ref = scene /\ scan'.before = scene
        /\ UNCHANGED <<scene, admittedWin, slotState, shots>>
    BY <1>2 DEF ScanWindow, NoScan
  <2> QED BY <2>1 DEF SceneRest
<1>3. ASSUME NEW s \in Shots, ScanShot(s) PROVE SceneRest'
  <2> DEFINE ref == Decided(scan.ref, scan.ident, s, scan.w)
             adm == scan.admitted \/ Admits(scan.ref, scan.ident, s)
  <2>1. /\ scan' = [scan EXCEPT !.ref = ref, !.seen = scan.seen + 1, !.admitted = adm]
        /\ UNCHANGED <<scene, admittedWin, slotState>> /\ shots' = shots + 1
        /\ shots < MaxShots /\ scan # NoScan
    BY <1>3 DEF ScanShot
  <2>2. OfTheScene(ref)
    BY <1>1, <2>1, DecidedFits DEF SceneRest
  <2> HIDE DEF ref, adm
  <2>3. scan'.ref = ref /\ scan'.before = scan.before
    BY <1>1, <2>1
  <2>4. shots' \in 0..MaxShots
    BY <2>1, AdmissionAssumption DEF SceneRest
  <2> QED BY <2>1, <2>2, <2>3, <2>4 DEF SceneRest
<1>4. ASSUME AdmitWindow PROVE SceneRest'
  <2> DEFINE others == IF scan.ref = scene THEN admittedWin
                   ELSE [v \in Slots |-> [admittedWin[v] EXCEPT !.prev = NoScene]]
  <2>1. /\ DOMAIN others = Slots
        /\ \A v \in Slots : OfTheScene(others[v].prev) /\ others[v].retry \in 0..2
    BY <1>1, NoSceneFits DEF SceneRest
  <2>2. /\ scene' = IF scan.admitted \/ scan.ref.by # scan.w THEN scan.ref
                    ELSE [scan.ref EXCEPT !.by = 0]
        /\ admittedWin' =
              IF scan.admitted
              THEN [others EXCEPT ![scan.w] = [on |-> TRUE, enqueued |-> FALSE,
                                               retry |-> scan.before.retry,
                                               prev |-> scan.before]]
              ELSE others
        /\ slotState' = [slotState EXCEPT ![scan.w] = IF scan.admitted THEN "cut" ELSE "free"]
        /\ scan' = NoScan /\ shots' = shots
    BY <1>4 DEF AdmitWindow
  <2> HIDE DEF others
  <2>3. OfTheScene(scene')
    <3>1. 1 \in 0..2
      OBVIOUS
    <3>2. OfTheScene([scan.ref EXCEPT !.by = 0])
      BY <1>1, <3>1, FitsStill DEF SceneRest
    <3> QED BY <2>2, <3>2 DEF SceneRest
  <2>4. \A v \in Slots : OfTheScene(admittedWin'[v].prev) /\ admittedWin'[v].retry \in 0..2
    <3>1. scan.before.retry \in 0..2 /\ OfTheScene(scan.before)
      BY DEF SceneRest, OfTheScene
    <3>2. CASE scan.admitted
      <4> SUFFICES ASSUME NEW v \in Slots
                   PROVE  OfTheScene(admittedWin'[v].prev) /\ admittedWin'[v].retry \in 0..2
        OBVIOUS
      <4>1. \/ admittedWin'[v] = others[v]
            \/ admittedWin'[v] = [on |-> TRUE, enqueued |-> FALSE,
                                  retry |-> scan.before.retry, prev |-> scan.before]
        BY <2>1, <2>2, <3>2
      <4> QED BY <2>1, <3>1, <4>1
    <3>3. CASE ~scan.admitted
      BY <2>1, <2>2, <3>3
    <3> QED BY <3>2, <3>3
  <2>5. slotState' \in [Slots -> {"free", "cut", "sealed"}]
    BY <2>2 DEF SceneRest
  <2>6. scan'.ref = NoScene /\ scan'.before = NoScene
    BY <2>2 DEF NoScan
  <2> QED BY <2>2, <2>3, <2>4, <2>5, <2>6, NoSceneFits DEF SceneRest
<1>5. ASSUME NEW w \in Slots, EnqueueTask(w) PROVE SceneRest'
  <2>1. /\ admittedWin' = [admittedWin EXCEPT ![w].enqueued = TRUE]
        /\ scene' = scene \/ scene' = [scene EXCEPT !.retry = 0]
        /\ UNCHANGED <<slotState, scan, shots>>
    BY <1>5 DEF EnqueueTask
  <2>2. \A v \in Slots : admittedWin'[v].prev = admittedWin[v].prev
                         /\ admittedWin'[v].retry = admittedWin[v].retry
    BY <1>1, <2>1
  <2>3. OfTheScene(scene')
    <3>1. 0 \in 0..2
      OBVIOUS
    <3>2. OfTheScene([scene EXCEPT !.retry = 0])
      BY <1>1, <3>1, FitsStill DEF SceneRest
    <3> QED BY <2>1, <3>2 DEF SceneRest
  <2> QED BY <2>1, <2>2, <2>3 DEF SceneRest
<1>6. ASSUME NEW w \in Slots, SealCut(w) PROVE SceneRest'
  BY <1>6 DEF SealCut, SceneRest
<1>7. ASSUME NEW w \in Slots, EndWindow(w) PROVE SceneRest'
  <2>1. /\ admittedWin' = [admittedWin EXCEPT ![w] = NotAdmitted]
        /\ scene' = IF Unfulfilled(w)
                    THEN [admittedWin[w].prev EXCEPT !.retry = admittedWin[w].retry + 1, !.by = 0]
                    ELSE IF scene.by = w THEN [scene EXCEPT !.by = 0] ELSE scene
        /\ slotState' = [slotState EXCEPT ![w] = "free"]
        /\ UNCHANGED <<scan, shots>>
    BY <1>7 DEF EndWindow
  <2>2. \A v \in Slots : OfTheScene(admittedWin'[v].prev) /\ admittedWin'[v].retry \in 0..2
    <3>1. NotAdmitted.prev = NoScene /\ NotAdmitted.retry \in 0..2
      BY DEF NotAdmitted
    <3> QED BY <1>1, <2>1, <3>1, NoSceneFits DEF SceneRest
  <2>3. OfTheScene(scene')
    <3>1. CASE Unfulfilled(w)
      <4>1. admittedWin[w].retry + 1 \in 0..2
        BY <3>1 DEF Unfulfilled, ADMIT_RETRY_MAX, SceneRest
      <4> QED BY <1>1, <2>1, <3>1, <4>1, FitsStill DEF SceneRest
    <3>2. CASE ~Unfulfilled(w)
      <4>1. 0 \in 0..2
        OBVIOUS
      <4>2. OfTheScene([scene EXCEPT !.by = 0])
        BY <1>1, <4>1, FitsStill DEF SceneRest
      <4> QED BY <2>1, <3>2, <4>2 DEF SceneRest
    <3> QED BY <3>1, <3>2
  <2>4. slotState' \in [Slots -> {"free", "cut", "sealed"}]
    BY <2>1 DEF SceneRest
  <2> QED BY <2>1, <2>2, <2>3, <2>4 DEF SceneRest
<1> QED BY <1>2, <1>3, <1>4, <1>5, <1>6, <1>7 DEF ANext

LEMMA SceneTypes == AInit /\ [][ANext]_avars => []ATypeOK
<1>1. AInit => SceneInv /\ SceneRest
  <2> SUFFICES ASSUME AInit PROVE SceneRest
    BY SceneBegins
  <2>1. NoScan.ref = NoScene /\ NoScan.before = NoScene /\ NotAdmitted.prev = NoScene
        /\ NotAdmitted.retry = 0
    BY DEF NoScan, NotAdmitted
  <2> QED BY <2>1, NoSceneFits, AdmissionAssumption DEF AInit, SceneRest
<1>2. SceneInv /\ SceneRest /\ [ANext]_avars => (SceneInv /\ SceneRest)'
  <2> SUFFICES ASSUME SceneInv, SceneRest, [ANext]_avars PROVE SceneRest'
    BY SceneSteps
  <2>1. CASE UNCHANGED avars
    BY <2>1 DEF avars, SceneRest
  <2> QED BY <2>1, SceneRestSteps
<1>3. SceneInv /\ SceneRest => ATypeOK
  <2> SUFFICES ASSUME SceneInv, SceneRest PROVE ATypeOK
    OBVIOUS
  <2>1. scene.leave \in 0..(LEAVE_CONFIRM_COUNT - 1)
    BY DEF SceneInv, Faithful, PoolLeases, LEAVE_CONFIRM_COUNT
  <2> QED BY <2>1 DEF SceneRest, OfTheScene, ATypeOK, ADMIT_RETRY_MAX
<1> QED BY <1>1, <1>2, <1>3, PTL
-------------------------------------------------------------------------------
(* L3Model: for any number of slots. *)

LoadStates == {"queued", "ok", "dropped", "failed"}
Calling == {c \in Callers : call[c] # "idle"}
\* A slot is out for each call under way and for each caller that gave a call up.
ModelRest ==
    /\ call \in [Callers -> {"idle", "enter", "load", "loading", "submit", "enlist", "wait",
                             "deliver", "timeout"}]
    /\ answer \in [Callers -> {"none", "ok", "failed"}]
    /\ job \in [Callers -> {"none", "queued", "ok", "error"}]
    /\ held \subseteq Callers
    /\ loads \in Seq(LoadStates) /\ loadFuture \in 0..Len(loads)
    /\ freeSlots \in Nat /\ inFlight \in Nat /\ freeSlots + inFlight = ModelSlots
    /\ Cardinality(Calling) + Cardinality(held) <= inFlight

\* One more, or one less, of the callers.
LEMMA OneMoreCaller ==
  ASSUME NEW S \in SUBSET Callers, NEW c \in Callers
  PROVE  /\ Cardinality(S) \in Nat
         /\ c \notin S => Cardinality(S \cup {c}) = Cardinality(S) + 1
         /\ Cardinality(S \cup {c}) <= Cardinality(S) + 1
         /\ c \in S => Cardinality(S \ {c}) = Cardinality(S) - 1
<1>1. IsFiniteSet(S)
  BY L3ModelAssumption, FS_Subset
<1>2. Cardinality(S) \in Nat
  BY <1>1, FS_CardinalityType
<1>3. c \notin S => Cardinality(S \cup {c}) = Cardinality(S) + 1
  BY <1>1, FS_AddElement
<1>4. c \in S => Cardinality(S \ {c}) = Cardinality(S) - 1
  BY <1>1, FS_RemoveElement
<1>5. Cardinality(S \cup {c}) <= Cardinality(S) + 1
  <2>1. CASE c \in S
    <3>1. S \cup {c} = S
      BY <2>1
    <3>2. Cardinality(S \cup {c}) = Cardinality(S)
      BY <3>1
    <3> QED BY <1>2, <3>2
  <2>2. CASE c \notin S
    BY <1>2, <1>3, <2>2
  <2> QED BY <2>1, <2>2
<1> QED BY <1>2, <1>3, <1>4, <1>5

\* A call that moves on keeps its slot, one that ends gives it back or leaves it to the
\* call that runs on.
LEMMA SlotKept ==
  ASSUME ModelRest, NEW c \in Callers, call[c] # "idle",
         NEW pc \in {"enter", "load", "loading", "submit", "enlist", "wait", "deliver",
                     "timeout"}, Goes(c, pc), UNCHANGED slots
  PROVE  /\ call' \in [Callers -> {"idle", "enter", "load", "loading", "submit", "enlist",
                                   "wait", "deliver", "timeout"}]
         /\ Cardinality(Calling') + Cardinality(held') <= inFlight'
<1>1. Calling' = Calling
  BY DEF Calling, Goes, ModelRest
<1> QED BY <1>1 DEF Goes, ModelRest, slots

LEMMA CallingEnds ==
  ASSUME ModelRest, NEW c \in Callers, call[c] # "idle", NEW a \in {"ok", "failed"},
         Answers(c, a)
  PROVE  /\ call' \in [Callers -> {"idle", "enter", "load", "loading", "submit", "enlist",
                                   "wait", "deliver", "timeout"}]
         /\ answer' \in [Callers -> {"none", "ok", "failed"}]
         /\ Cardinality(Calling') = Cardinality(Calling) - 1
         /\ Cardinality(Calling) \in Nat \ {0}
<1>1. Calling' = Calling \ {c} /\ c \in Calling
  BY DEF Calling, Answers, Goes, ModelRest
<1>2. Cardinality(Calling \ {c}) \in Nat /\ Cardinality(Calling) \in Nat
      /\ Cardinality(Calling \ {c}) = Cardinality(Calling) - 1
  BY <1>1, OneMoreCaller DEF Calling
<1>3. answer' \in [Callers -> {"none", "ok", "failed"}]
  BY DEF Answers, ModelRest
<1> QED BY <1>1, <1>2, <1>3 DEF Answers, Goes, ModelRest

LEMMA SlotGivenBack ==
  ASSUME ModelRest, NEW c \in Callers, call[c] # "idle", NEW a \in {"ok", "failed"},
         Answers(c, a), GivesBack, UNCHANGED held
  PROVE  /\ call' \in [Callers -> {"idle", "enter", "load", "loading", "submit", "enlist",
                                   "wait", "deliver", "timeout"}]
         /\ answer' \in [Callers -> {"none", "ok", "failed"}]
         /\ freeSlots' \in Nat /\ inFlight' \in Nat /\ freeSlots' + inFlight' = ModelSlots
         /\ Cardinality(Calling') + Cardinality(held') <= inFlight'
<1>1. Cardinality(held) \in Nat
  BY OneMoreCaller DEF ModelRest
<1>2. /\ Cardinality(Calling') = Cardinality(Calling) - 1
      /\ Cardinality(Calling) \in Nat \ {0}
  BY CallingEnds
<1>3. inFlight' = inFlight - 1 /\ freeSlots' = freeSlots + 1 /\ held' = held
  BY DEF GivesBack
<1>4. /\ freeSlots' \in Nat /\ inFlight' \in Nat /\ freeSlots' + inFlight' = ModelSlots
      /\ Cardinality(Calling') + Cardinality(held') <= inFlight'
  <2>1. inFlight \in Nat /\ freeSlots \in Nat /\ freeSlots + inFlight = ModelSlots
        /\ Cardinality(Calling) + Cardinality(held) <= inFlight /\ ModelSlots \in Nat
    BY L3ModelAssumption DEF ModelRest
  <2> QED BY <1>1, <1>2, <1>3, <2>1
<1> QED BY <1>4, CallingEnds

LEMMA AskerKeepsSlots ==
  ASSUME ModelRest, NEW c \in Callers,
         \/ RejectTask(c) \/ AcquireSlot(c) \/ HoldSlot(c) \/ CollectFinished(c)
         \/ EnterModel(c) \/ DropLate(c)
  PROVE  ModelRest'
<1>1. CASE RejectTask(c)
  <2>1. answer' \in [Callers -> {"none", "ok", "failed"}]
    BY <1>1 DEF RejectTask, ModelRest
  <2> QED BY <1>1, <2>1 DEF RejectTask, ModelRest, Calling, slots, backend
<1>2. CASE AcquireSlot(c)
  <2>1. UNCHANGED <<job, held, loads, loadFuture>> /\ call[c] = "idle"
    BY <1>2 DEF AcquireSlot, backend
  <2>2. answer' \in [Callers -> {"none", "ok", "failed"}]
    BY <1>2 DEF AcquireSlot, ModelRest
  <2>3. CASE UNCHANGED <<call, freeSlots, inFlight>>
    BY <2>1, <2>2, <2>3 DEF ModelRest, Calling
  <2>4. CASE /\ freeSlots > 0 /\ freeSlots' = freeSlots - 1 /\ inFlight' = inFlight + 1
             /\ Goes(c, "enter")
    <3>1. Calling' = Calling \cup {c} /\ c \notin Calling
      BY <2>1, <2>4 DEF Calling, Goes, ModelRest
    <3>2. Cardinality(Calling') = Cardinality(Calling) + 1 /\ Cardinality(Calling) \in Nat
          /\ Cardinality(held) \in Nat
      BY <3>1, OneMoreCaller DEF Calling, ModelRest
    <3>3. /\ freeSlots' \in Nat /\ inFlight' \in Nat /\ freeSlots' + inFlight' = ModelSlots
          /\ Cardinality(Calling') + Cardinality(held') <= inFlight'
      BY <2>1, <2>4, <3>2, L3ModelAssumption DEF ModelRest
    <3>4. call' \in [Callers -> {"idle", "enter", "load", "loading", "submit", "enlist",
                                 "wait", "deliver", "timeout"}]
      BY <2>4 DEF Goes, ModelRest
    <3> QED BY <2>1, <2>2, <3>3, <3>4 DEF ModelRest
  <2> QED BY <1>2, <2>3, <2>4 DEF AcquireSlot
<1>3. CASE HoldSlot(c)
  <2>1. UNCHANGED <<job, loads, loadFuture>> /\ call[c] # "idle" /\ Answers(c, "failed")
    BY <1>3 DEF HoldSlot, backend
  <2>2. CASE GivesBack /\ UNCHANGED held
    BY <2>1, <2>2, SlotGivenBack DEF ModelRest
  <2>3. CASE held' = held \cup {c} /\ UNCHANGED <<freeSlots, inFlight>>
    <3>1. /\ Cardinality(Calling') = Cardinality(Calling) - 1
          /\ Cardinality(Calling) \in Nat \ {0}
      BY <2>1, CallingEnds
    <3>2. Cardinality(held') <= Cardinality(held) + 1 /\ Cardinality(held) \in Nat
          /\ Cardinality(held') \in Nat /\ held' \subseteq Callers
      BY <2>3, OneMoreCaller DEF ModelRest
    <3>3. Cardinality(Calling') + Cardinality(held') <= inFlight'
      BY <2>3, <3>1, <3>2 DEF ModelRest
    <3>4. call' \in [Callers -> {"idle", "enter", "load", "loading", "submit", "enlist",
                                 "wait", "deliver", "timeout"}]
          /\ answer' \in [Callers -> {"none", "ok", "failed"}]
      BY <2>1, CallingEnds
    <3> QED BY <2>1, <2>3, <3>2, <3>3, <3>4 DEF ModelRest
  <2> QED BY <1>3, <2>2, <2>3 DEF HoldSlot
<1>4. CASE CollectFinished(c)
  <2>1. /\ c \in held /\ held' = held \ {c} /\ GivesBack
        /\ UNCHANGED <<call, answer, job, loads, loadFuture>>
    BY <1>4 DEF CollectFinished, backend
  <2>2. Calling' = Calling
    BY <2>1 DEF Calling
  <2>3. Cardinality(held') = Cardinality(held) - 1 /\ Cardinality(held) \in Nat
        /\ Cardinality(held') \in Nat /\ Cardinality(Calling) \in Nat
    BY <2>1, OneMoreCaller DEF ModelRest, Calling
  <2>4. /\ freeSlots' \in Nat /\ inFlight' \in Nat /\ freeSlots' + inFlight' = ModelSlots
        /\ Cardinality(Calling') + Cardinality(held') <= inFlight'
    BY <2>1, <2>2, <2>3, L3ModelAssumption DEF ModelRest, GivesBack
  <2> QED BY <2>1, <2>4 DEF ModelRest
<1>5. CASE EnterModel(c)
  <2>1. UNCHANGED <<job, loads, loadFuture>> /\ call[c] # "idle"
    BY <1>5 DEF EnterModel, backend
  <2>2. CASE Fails(c)
    BY <2>1, <2>2, SlotGivenBack DEF Fails, ModelRest
  <2>3. CASE Goes(c, "load") /\ UNCHANGED <<answer, slots>>
    BY <2>1, <2>3, SlotKept DEF ModelRest, slots
  <2> QED BY <1>5, <2>2, <2>3 DEF EnterModel
<1>6. CASE DropLate(c)
  BY <1>6 DEF DropLate, ModelRest, Calling, slots, backend
<1> QED BY <1>1, <1>2, <1>3, <1>4, <1>5, <1>6

LEMMA CallKeepsSlots ==
  ASSUME ModelRest, NEW c \in Callers,
         \/ EnsureLoaded(c) \/ LoadEnded(c) \/ LoadTimeout(c) \/ SubmitCall(c)
         \/ EnlistCall(c) \/ CallEnded(c) \/ CallTimeout(c) \/ DeliverResult(c)
  PROVE  ModelRest'
<1>0. ASSUME UNCHANGED <<job, loads, loadFuture>>, call[c] # "idle",
             \/ Fails(c)
             \/ /\ Goes(c, "submit") \/ Goes(c, "loading") \/ Goes(c, "wait")
                   \/ Goes(c, "deliver") \/ Goes(c, "timeout")
                /\ UNCHANGED <<answer, slots>>
      PROVE  ModelRest'
  <2>1. CASE Fails(c)
    BY <1>0, <2>1, SlotGivenBack DEF Fails, ModelRest
  <2>2. ASSUME NEW pc \in {"submit", "loading", "wait", "deliver", "timeout"},
               Goes(c, pc), UNCHANGED <<answer, slots>>
        PROVE  ModelRest'
    BY <1>0, <2>2, SlotKept DEF ModelRest, slots
  <2> QED BY <1>0, <2>1, <2>2
<1>1. CASE EnsureLoaded(c)
  <2>1. CASE \/ /\ Goes(c, "submit") \/ Goes(c, "loading")
                /\ UNCHANGED <<answer, slots, backend>>
             \/ Fails(c) /\ UNCHANGED backend
    BY <1>0, <1>1, <2>1 DEF EnsureLoaded, backend
  <2>2. CASE /\ loads' = Append(loads, "queued") /\ loadFuture' = Len(loads')
             /\ Goes(c, "loading") /\ UNCHANGED <<answer, slots>>
    <3>1. loads' \in Seq(LoadStates) /\ Len(loads') = Len(loads) + 1 /\ Len(loads) \in Nat
      BY <2>2, AppendProperties DEF ModelRest, LoadStates
    <3>2. UNCHANGED job /\ call[c] # "idle"
      BY <1>1 DEF EnsureLoaded
    <3>3. loadFuture' \in 0..Len(loads')
      BY <2>2, <3>1
    <3>4. /\ call' \in [Callers -> {"idle", "enter", "load", "loading", "submit", "enlist",
                                    "wait", "deliver", "timeout"}]
          /\ Cardinality(Calling') + Cardinality(held') <= inFlight'
      BY <2>2, <3>2, SlotKept
    <3> QED BY <2>2, <3>1, <3>2, <3>3, <3>4 DEF ModelRest, slots
  <2> QED BY <1>1, <2>1, <2>2 DEF EnsureLoaded
<1>2. CASE LoadEnded(c)
  <2>1. UNCHANGED <<job, loads>> /\ call[c] # "idle"
    BY <1>2 DEF LoadEnded
  <2>2. \/ Goes(c, "submit") /\ UNCHANGED <<answer, slots, loadFuture>>
        \/ Fails(c) /\ UNCHANGED loadFuture
        \/ Fails(c) /\ loadFuture' = 0
    BY <1>2 DEF LoadEnded
  <2>3. CASE Fails(c) /\ loadFuture' = 0
    <3>1. 0 \in 0..Len(loads)
      BY LenProperties DEF ModelRest
    <3> QED BY <2>1, <2>3, <3>1, SlotGivenBack DEF Fails, ModelRest
  <2> QED BY <1>0, <2>1, <2>2, <2>3
<1>3. CASE LoadTimeout(c)
  BY <1>0, <1>3 DEF LoadTimeout
<1>4. CASE SubmitCall(c)
  <2>1. UNCHANGED <<loads, loadFuture>> /\ call[c] # "idle"
    BY <1>4 DEF SubmitCall
  <2>2. CASE Fails(c) /\ UNCHANGED job
    BY <1>0, <2>1, <2>2
  <2>3. CASE /\ job' = [job EXCEPT ![c] = "queued"] /\ Goes(c, "enlist")
             /\ UNCHANGED <<answer, slots>>
    <3>1. job' \in [Callers -> {"none", "queued", "ok", "error"}]
      BY <2>3 DEF ModelRest
    <3> QED BY <2>1, <2>3, <3>1, SlotKept DEF ModelRest, slots
  <2> QED BY <1>4, <2>2, <2>3 DEF SubmitCall
<1>5. CASE EnlistCall(c)
  BY <1>0, <1>5 DEF EnlistCall
<1>6. CASE CallEnded(c)
  BY <1>0, <1>6 DEF CallEnded, backend
<1>7. CASE CallTimeout(c)
  BY <1>0, <1>7 DEF CallTimeout
<1>8. CASE DeliverResult(c)
  <2>1. /\ UNCHANGED <<job, loads, loadFuture, held>> /\ call[c] # "idle" /\ GivesBack
    BY <1>8 DEF DeliverResult, backend
  <2>2. PICK a \in {"ok", "failed"} : Answers(c, a)
    BY <1>8 DEF DeliverResult
  <2>3. /\ call' \in [Callers -> {"idle", "enter", "load", "loading", "submit", "enlist",
                                  "wait", "deliver", "timeout"}]
        /\ answer' \in [Callers -> {"none", "ok", "failed"}]
        /\ freeSlots' \in Nat /\ inFlight' \in Nat /\ freeSlots' + inFlight' = ModelSlots
        /\ Cardinality(Calling') + Cardinality(held') <= inFlight'
    BY <2>1, <2>2, SlotGivenBack
  <2> QED BY <2>1, <2>3 DEF ModelRest
<1> QED BY <1>1, <1>2, <1>3, <1>4, <1>5, <1>6, <1>7, <1>8

LEMMA WorkKeepsSlots == ASSUME ModelRest, WorkEnds PROVE ModelRest'
<1>1. UNCHANGED <<call, answer, slots, loadFuture>>
  BY DEF WorkEnds
<1>2. CASE Head(line)[1] = "call"
  <2>1. PICK r \in {"ok", "error"} : job' = [job EXCEPT ![Head(line)[2]] = r]
    BY <1>2 DEF WorkEnds
  <2>2. job' \in [Callers -> {"none", "queued", "ok", "error"}] /\ UNCHANGED loads
    BY <1>2, <2>1 DEF WorkEnds, ModelRest
  <2> QED BY <1>1, <2>2 DEF ModelRest, Calling, slots
<1>3. CASE Head(line)[1] # "call"
  <2>1. PICK r \in {IF Refused THEN "dropped" ELSE "ok", "failed"} :
                 loads' = [loads EXCEPT ![Head(line)[2]] = r]
    BY <1>3 DEF WorkEnds
  <2>2. loads' \in Seq(LoadStates) /\ Len(loads') = Len(loads)
    <3> DEFINE S == LoadStates
    <3>1. loads \in Seq(S) /\ r \in S
      BY <2>1 DEF ModelRest, LoadStates
    <3>2. CASE Head(line)[2] \in 1..Len(loads)
      BY <2>1, <3>1, <3>2, ExceptSeq
    <3>3. CASE Head(line)[2] \notin 1..Len(loads)
      <4>1. DOMAIN loads = 1..Len(loads)
        BY <3>1, LenProperties
      <4>2. loads = [k \in DOMAIN loads |-> loads[k]]
        BY <3>1, <4>1, SeqDef
      <4>3. loads' = loads
        BY <2>1, <3>3, <4>1, <4>2
      <4> QED BY <3>1, <4>3
    <3> QED BY <3>2, <3>3
  <2>3. UNCHANGED job
    BY <1>3 DEF WorkEnds
  <2> QED BY <1>1, <2>2, <2>3 DEF ModelRest, Calling, slots
<1> QED BY <1>2, <1>3

LEMMA ModelTypes == MInit /\ [][MNext]_mvars => []MTypeOK
<1>1. MInit => ModelRest
  <2> SUFFICES ASSUME MInit PROVE ModelRest
    OBVIOUS
  <2>1. loads \in Seq(LoadStates) /\ Len(loads) = 0
    BY EmptySeq DEF MInit
  <2>2. Calling = {} /\ held = {} /\ Cardinality({}) = 0
    BY FS_EmptySet DEF Calling, MInit
  <2> QED BY <2>1, <2>2, L3ModelAssumption DEF MInit, ModelRest
<1>2. ModelRest /\ [MNext]_mvars => ModelRest'
  <2> SUFFICES ASSUME ModelRest, [MNext]_mvars PROVE ModelRest'
    OBVIOUS
  <2>1. CASE UNCHANGED mvars
    BY <2>1 DEF mvars, slots, backend, ModelRest, Calling
  <2>2. CASE CloseModel \/ CloseWaited \/ CloseJoined
    <3>1. UNCHANGED <<call, answer, job, held, loads, loadFuture, freeSlots, inFlight>>
      BY <2>2 DEF CloseModel, CloseWaited, CloseJoined, slots, backend
    <3> QED BY <3>1 DEF ModelRest, Calling
  <2>3. ASSUME NEW c \in Callers,
               \/ RejectTask(c) \/ AcquireSlot(c) \/ HoldSlot(c) \/ CollectFinished(c)
               \/ EnterModel(c) \/ EnsureLoaded(c) \/ LoadEnded(c) \/ LoadTimeout(c)
               \/ SubmitCall(c) \/ EnlistCall(c) \/ CallEnded(c) \/ CallTimeout(c)
               \/ DeliverResult(c) \/ DropLate(c)
        PROVE  ModelRest'
    <3>1. CASE \/ RejectTask(c) \/ AcquireSlot(c) \/ HoldSlot(c) \/ CollectFinished(c)
               \/ EnterModel(c) \/ DropLate(c)
      BY <3>1, AskerKeepsSlots
    <3>2. CASE \/ EnsureLoaded(c) \/ LoadEnded(c) \/ LoadTimeout(c) \/ SubmitCall(c)
               \/ EnlistCall(c) \/ CallEnded(c) \/ CallTimeout(c) \/ DeliverResult(c)
      BY <3>2, CallKeepsSlots
    <3> QED BY <2>3, <3>1, <3>2
  <2> QED BY <2>1, <2>2, <2>3, WorkKeepsSlots DEF MNext
<1>3. ModelRest => MTypeOK
  <2> SUFFICES ASSUME ModelRest PROVE MTypeOK
    OBVIOUS
  <2>1. freeSlots \in 0..ModelSlots /\ inFlight \in 0..ModelSlots
    BY L3ModelAssumption DEF ModelRest
  <2> QED BY <2>1 DEF ModelRest, MTypeOK
<1> QED BY <1>1, <1>2, <1>3, PTL
-------------------------------------------------------------------------------
(* WindowFusion. *)

LEMMA FusionTypes == FusionInit /\ [][FusionNext]_fusionvars => []FusionTypeOK
<1> DEFINE Rest == fusionBook \in {"sealed", "done", "gone"}
<1>1. FusionInit => FusionInv /\ Rest
  BY FusionBegins DEF FusionInit
<1>2. FusionInv /\ Rest /\ [FusionNext]_fusionvars => (FusionInv /\ Rest)'
  <2> SUFFICES ASSUME FusionInv, Rest, [FusionNext]_fusionvars PROVE Rest'
    BY FusionSteps
  <2>1. fusionBook' \in {fusionBook, "done", "gone"}
    BY DEF FusionNext, fusionvars, ExpireFusion, ExpireFusionEnd, ExpireBranch, EndBranch,
       FindStage, MakeStage, OpenState, EnterState, AddMaterials, TakeRows, Identify, TakeResults,
       TakeGaps, TakeParent, AppendVersion, WriteFusion, SettleFusion, CleanupStage, ForgetState
  <2> QED BY <2>1
<1>3. FusionInv /\ Rest => FusionTypeOK
  <2> SUFFICES ASSUME FusionInv, Rest PROVE FusionTypeOK
    OBVIOUS
  <2>1. \A s \in 1..Len(states) : states[s].mats \subseteq [b : Parts, good : BOOLEAN]
    BY DEF FusionInv, StateOK, StateRecords, Learnt
  <2>2. \A l \in log : l.state \in 1..Len(states) /\ l.ver \in 1..Len(states[l.state].vers)
    BY DEF FusionInv, LineOK
  <2> QED BY <2>1, <2>2 DEF FusionInv, FusionTypeOK
<1> HIDE DEF Rest
<1> QED BY <1>1, <1>2, <1>3, PTL
-------------------------------------------------------------------------------
(* UnderstandingStore. *)

\* Records are numbered from one.
StoreRest ==
    /\ starts \in 0..MaxStoreStarts
    /\ \A c \in StoreCams : 0 \notin ToSet(memory[c]) /\ 0 \notin ToSet(file[c])

LEMMA NewestAreOf ==
  ASSUME NEW s \in Seq(Nat)
  PROVE  ToSet(Newest(s)) \subseteq ToSet(s)
<1>1. Len(s) \in Nat /\ PerCamera \in Nat
  BY StoreConstants
<1>2. CASE Len(s) > PerCamera
  <2> DEFINE w == SubSeq(s, Len(s) - PerCamera + 1, Len(s))
  <2>1. w \in Seq(Nat) /\ Len(w) = PerCamera
        /\ \A i \in 1..PerCamera : w[i] = s[i + (Len(s) - PerCamera)]
    BY <1>1, <1>2
  <2>2. Newest(s) = w
    BY <1>2 DEF Newest
  <2> HIDE DEF w
  <2>3. ToSet(w) = {w[i] : i \in 1..PerCamera} /\ ToSet(s) = {s[i] : i \in 1..Len(s)}
    BY <2>1, ToSetOf
  <2>4. \A i \in 1..PerCamera : i + (Len(s) - PerCamera) \in 1..Len(s)
    BY <1>1, <1>2
  <2>5. \A i \in 1..PerCamera : w[i] \in ToSet(s)
    BY <2>1, <2>3, <2>4
  <2> QED BY <2>2, <2>3, <2>5
<1>3. CASE ~(Len(s) > PerCamera)
  BY <1>3 DEF Newest
<1> QED BY <1>2, <1>3

LEMMA StoreRestSteps == ASSUME StoreInv, StoreRest, UnderstandingNext PROVE StoreRest'
<1>1. /\ memory \in [StoreCams -> Seq(Nat)] /\ file \in [StoreCams -> Seq(Nat)]
      /\ recordsMade \in Nat
  BY DEF StoreInv, StoreShape
<1>2. ToSet(<<>>) = {}
  BY DEF ToSet
<1>3. ASSUME NEW c \in StoreCams, NEW good \in BOOLEAN
      PROVE  Read(c, good) \in Seq(Nat) /\ 0 \notin ToSet(Read(c, good))
  <2>1. Newest(file[c]) \in Seq(Nat) /\ 0 \notin ToSet(Newest(file[c]))
    <3>1. Newest(file[c]) = file[c]
      BY StoreConstants DEF StoreInv, Listed, Newest
    <3> QED BY <1>1, <3>1 DEF StoreRest
  <2>2. <<>> \in Seq(Nat)
    BY EmptySeq
  <2> QED BY <1>1, <1>2, <2>1, <2>2 DEF Read, StoreRest
<1>4. ASSUME NEW c \in StoreCams, NEW good \in BOOLEAN, NEW kept \in BOOLEAN,
             AppendRecordOf(c, good, kept)
      PROVE  StoreRest'
  <2> DEFINE list == Newest(Append(Read(c, good), recordsMade'))
  <2>1. 0 \notin ToSet(list)
    <3> DEFINE a == Append(Read(c, good), recordsMade')
    <3>1. recordsMade' \in Nat /\ recordsMade' # 0
      BY <1>1, <1>4 DEF AppendRecordOf
    <3>2. Read(c, good) \in Seq(Nat) /\ 0 \notin ToSet(Read(c, good))
      BY <1>3
    <3>3. a \in Seq(Nat) /\ Len(a) = Len(Read(c, good)) + 1 /\ a[Len(a)] = recordsMade'
          /\ \A i \in 1..Len(Read(c, good)) : a[i] = Read(c, good)[i]
      BY <3>1, <3>2
    <3> HIDE DEF a
    <3>4. ToSet(a) = {a[i] : i \in 1..Len(a)}
          /\ ToSet(Read(c, good)) = {Read(c, good)[i] : i \in 1..Len(Read(c, good))}
          /\ Len(Read(c, good)) \in Nat
      BY <3>2, <3>3, ToSetOf
    <3>5. \A i \in 1..Len(a) : i \in 1..Len(Read(c, good)) \/ i = Len(a)
      BY <3>3, <3>4
    <3>6. 0 \notin ToSet(a)
      BY <3>1, <3>2, <3>3, <3>4, <3>5
    <3>7. ToSet(Newest(a)) \subseteq ToSet(a)
      BY <3>3, NewestAreOf
    <3> QED BY <3>6, <3>7 DEF a
  <2>2. /\ memory' = [d \in StoreCams |-> IF d = c THEN list
                                          ELSE IF d \in Gone(c) THEN <<>> ELSE memory[d]]
        /\ file' = IF kept THEN [file EXCEPT ![c] = list] ELSE file
        /\ starts' = starts
    BY <1>4 DEF AppendRecordOf
  <2> HIDE DEF list
  <2>3. ASSUME NEW d \in StoreCams PROVE 0 \notin ToSet(memory'[d]) /\ 0 \notin ToSet(file'[d])
    <3>1. memory'[d] \in {list, <<>>, memory[d]}
      BY <2>2
    <3>2. file'[d] \in {list, file[d]}
      BY <1>1, <2>2
    <3> QED BY <1>2, <2>1, <3>1, <3>2 DEF StoreRest
  <2> QED BY <2>2, <2>3 DEF StoreRest
<1>5. ASSUME NEW c \in StoreCams, NEW good \in BOOLEAN, ReadHistory(c, good) PROVE StoreRest'
  <2>1. /\ memory' = [d \in StoreCams |-> IF d = c THEN Read(c, good)
                                          ELSE IF d \in Gone(c) THEN <<>> ELSE memory[d]]
        /\ UNCHANGED <<file, starts>>
    BY <1>5 DEF ReadHistory
  <2>2. ASSUME NEW d \in StoreCams PROVE 0 \notin ToSet(memory'[d])
    <3>1. memory'[d] \in {Read(c, good), <<>>, memory[d]}
      BY <2>1
    <3> QED BY <1>2, <1>3, <3>1 DEF StoreRest
  <2> QED BY <2>1, <2>2 DEF StoreRest
<1>6. ASSUME NEW c \in StoreCams, RefuseRecord(c) PROVE StoreRest'
  <2>1. /\ memory' = [d \in StoreCams |-> IF d \in Gone(c) THEN <<>> ELSE memory[d]]
        /\ UNCHANGED <<file, starts>>
    BY <1>6 DEF RefuseRecord
  <2>2. ASSUME NEW d \in StoreCams PROVE 0 \notin ToSet(memory'[d])
    <3>1. memory'[d] \in {<<>>, memory[d]}
      BY <2>1
    <3> QED BY <1>2, <3>1 DEF StoreRest
  <2> QED BY <2>1, <2>2 DEF StoreRest
<1>7. ASSUME StartStore PROVE StoreRest'
  <2>1. starts' \in 0..MaxStoreStarts
    BY <1>7, StoreAssumption DEF StartStore, StoreRest
  <2>2. memory' = [c \in StoreCams |-> <<>>] /\ file' = file
    BY <1>7 DEF StartStore
  <2> QED BY <1>2, <2>1, <2>2 DEF StoreRest
<1> QED BY <1>4, <1>5, <1>6, <1>7 DEF UnderstandingNext

LEMMA StoreTypes == UnderstandingInit /\ [][UnderstandingNext]_storevars => []UnderstandingTypeOK
<1>1. UnderstandingInit => StoreInv /\ StoreRest
  <2> SUFFICES ASSUME UnderstandingInit PROVE StoreRest
    BY StoreBegin
  <2>1. ToSet(<<>>) = {}
    BY DEF ToSet
  <2> QED BY <2>1, StoreAssumption DEF UnderstandingInit, StoreRest
<1>2. StoreInv /\ StoreRest /\ [UnderstandingNext]_storevars => (StoreInv /\ StoreRest)'
  <2> SUFFICES ASSUME StoreInv, StoreRest, [UnderstandingNext]_storevars PROVE StoreRest'
    BY StoreSteps
  <2>1. CASE UNCHANGED storevars
    BY <2>1 DEF storevars, StoreRest
  <2> QED BY <2>1, StoreRestSteps
<1>3. StoreInv /\ StoreRest => UnderstandingTypeOK
  <2> SUFFICES ASSUME StoreInv, StoreRest PROVE UnderstandingTypeOK
    OBVIOUS
  <2>1. /\ known \in Seq(StoreCams) /\ recordsMade \in Nat
        /\ memory \in [StoreCams -> Seq(Nat)] /\ file \in [StoreCams -> Seq(Nat)]
    BY DEF StoreInv, StoreShape
  <2>2. ToSet(known) \subseteq StoreCams
    BY <2>1, ToSetOf
  <2>3. ASSUME NEW c \in StoreCams
        PROVE  /\ Len(memory[c]) <= PerCamera /\ Len(file[c]) <= PerCamera
               /\ ToSet(memory[c]) \cup ToSet(file[c]) \subseteq 1..recordsMade
    <3>1. ASSUME NEW s \in Seq(Nat), Listed(s, recordsMade), 0 \notin ToSet(s)
          PROVE  ToSet(s) \subseteq 1..recordsMade
      <4>1. ToSet(s) = {s[i] : i \in 1..Len(s)} /\ ToSet(s) \subseteq Nat
        BY ToSetOf
      <4>2. \A r \in ToSet(s) : r <= recordsMade /\ r # 0
        BY <3>1, <4>1 DEF Listed
      <4> QED BY <2>1, <4>1, <4>2
    <3>2. Listed(memory[c], recordsMade) /\ Listed(file[c], recordsMade)
      BY DEF StoreInv
    <3> QED BY <2>1, <3>1, <3>2 DEF Listed, StoreRest
  <2> QED BY <2>2, <2>3 DEF StoreInv, StoreShape, StoreRest, UnderstandingTypeOK
<1> QED BY <1>1, <1>2, <1>3, PTL
-------------------------------------------------------------------------------
(* OpsEvidence, with the bundle and the contract. *)

\* What a create has copied was there, so that the manifests are whole.
OpsRest ==
    /\ world \in 0..MaxWorld /\ mishaps \in 0..MaxMishaps
    /\ \A s \in sealed : Valid(s) /\ s.maker \in Makers
    /\ bundle.maker \in Makers \cup {0}
    /\ \A m \in Makers :
          maker[m].pc \in {"reread", "integrity", "manifest", "written"} => maker[m].cfg # Absent
    /\ \A i \in Inputs : inputs[i] \in {0, 1, Broken}

\* The counts of the changes of the world and of the mishaps.
Onward ==
    /\ world' = world \/ (world < MaxWorld /\ world' = world + 1)
    /\ mishaps' = mishaps \/ (mishaps < MaxMishaps /\ mishaps' = mishaps + 1)

LEMMA CountsStay == ASSUME OpsRest, Onward PROVE world' \in 0..MaxWorld /\ mishaps' \in 0..MaxMishaps
BY BundleAssumption DEF OpsRest, Onward

LEMMA OpsFrame ==
  ASSUME OpsRest, Onward, UNCHANGED <<maker, bundle, sealed>>,
         \A i \in Inputs : inputs'[i] \in {0, 1, Broken}
  PROVE  OpsRest'
BY CountsStay DEF OpsRest, Valid

\* A create and the directory it makes.
LEMMA MakerRest ==
  ASSUME OpsInv, OpsRest, NEW m \in Makers, UNCHANGED inputs,
         \/ MakeDir(m) \/ Snapshot(m) \/ CopyPayload(m) \/ ReadAgain(m) \/ CheckMade(m)
         \/ BeginManifest(m) \/ EndManifest(m) \/ EndMake(m) \/ FailMake(m)
         \/ RemoveCreatedDir(m) \/ KillMaker(m)
  PROVE  OpsRest'
<1>1. /\ maker \in [Makers -> [pc : MakerPcs, cfg : Int, db : Int]] /\ bundle \in Dirs
      /\ MakersHonest
  BY DEF OpsInv, BundleTypes
<1>2. Onward
  BY DEF Onward, MakeDir, Snapshot, CopyPayload, ReadAgain, CheckMade, BeginManifest,
     EndManifest, EndMake, FailMake, RemoveCreatedDir, KillMaker, World, Mishap
<1>3. NoDir.maker = 0 /\ \A d \in Dirs : \A v : /\ [d EXCEPT !.db = v].maker = d.maker
                                               /\ [d EXCEPT !.cfg = v].maker = d.maker
                                               /\ [d EXCEPT !.man = v].maker = d.maker
  BY DEF NoDir, Dirs
<1>4. bundle'.maker \in Makers \cup {0}
  <2>1. CASE MakeDir(m)
    BY <1>3, <2>1 DEF MakeDir, OpsRest, NoDir
  <2>2. CASE Snapshot(m)
    BY <1>1, <1>3, <2>2 DEF Snapshot, OpsRest
  <2>3. CASE CopyPayload(m)
    BY <1>1, <1>3, <2>3 DEF CopyPayload, OpsRest
  <2>4. CASE \/ ReadAgain(m) \/ CheckMade(m) \/ EndMake(m) \/ FailMake(m) \/ KillMaker(m)
    BY <2>4 DEF ReadAgain, CheckMade, EndMake, FailMake, KillMaker, OpsRest
  <2>5. CASE BeginManifest(m) \/ EndManifest(m)
    <3>1. bundle'.maker = bundle.maker
      BY <1>1, <2>5 DEF BeginManifest, EndManifest, Dirs
    <3> QED BY <3>1 DEF OpsRest
  <2>6. CASE RemoveCreatedDir(m)
    <3>1. bundle'.maker \in {bundle.maker, 0}
      BY <1>1, <1>3, <2>6 DEF RemoveCreatedDir, Dirs
    <3> QED BY <3>1 DEF OpsRest
  <2> QED BY <2>1, <2>2, <2>3, <2>4, <2>5, <2>6
<1>5. ASSUME NEW k \in Makers,
             maker'[k].pc \in {"reread", "integrity", "manifest", "written"}
      PROVE  maker'[k].cfg # Absent
  <2>1. CASE k # m
    <3>1. maker'[k] = maker[k]
      BY <1>1, <2>1 DEF MakeDir, Snapshot, CopyPayload, ReadAgain, CheckMade, BeginManifest,
         EndManifest, EndMake, FailMake, RemoveCreatedDir, KillMaker, Reaches
    <3> QED BY <1>5, <3>1 DEF OpsRest
  <2>2. CASE k = m
    <3>1. CASE CopyPayload(m)
      BY <1>1, <2>2, <3>1 DEF CopyPayload
    <3>2. CASE ReadAgain(m)
      BY <1>1, <1>5, <2>2, <3>2 DEF ReadAgain, Reaches, SameBytes, OpsRest
    <3>3. CASE \/ MakeDir(m) \/ Snapshot(m) \/ EndManifest(m) \/ EndMake(m) \/ FailMake(m)
               \/ RemoveCreatedDir(m) \/ KillMaker(m)
      BY <1>1, <1>5, <2>2, <3>3 DEF MakeDir, Snapshot, EndManifest, EndMake, FailMake,
         RemoveCreatedDir, KillMaker, Reaches
    <3>4. CASE CheckMade(m) \/ BeginManifest(m)
      BY <1>1, <1>5, <2>2, <3>4 DEF CheckMade, BeginManifest, Reaches, OpsRest
    <3> QED BY <3>1, <3>2, <3>3, <3>4
  <2> QED BY <2>1, <2>2
<1>6. \A s \in sealed' : Valid(s) /\ s.maker \in Makers
  <2>1. CASE EndManifest(m)
    <3>1. /\ maker[m].cfg # Absent /\ maker[m].db >= 0 /\ m \in Nat /\ m # 0
          /\ sealed' = sealed \cup {ManifestOf(m)}
      BY <1>1, <2>1, MakersPositive DEF EndManifest, OpsRest, MakersHonest, Sound
    <3>2. Valid(ManifestOf(m)) /\ ManifestOf(m).maker = m
      BY <3>1 DEF Valid, ManifestOf, None, Absent, Half
    <3> QED BY <3>1, <3>2 DEF OpsRest
  <2>2. CASE ~EndManifest(m)
    <3>1. sealed' = sealed
      BY <2>2 DEF MakeDir, Snapshot, CopyPayload, ReadAgain, CheckMade, BeginManifest,
         EndMake, FailMake, RemoveCreatedDir, KillMaker
    <3> QED BY <3>1 DEF OpsRest
  <2> QED BY <2>1, <2>2
<1> QED BY <1>2, <1>4, <1>5, <1>6, CountsStay DEF OpsRest

\* The world, where it touches the bundle.
LEMMA WorldRest ==
  ASSUME OpsInv, OpsRest, UNCHANGED inputs,
         CommitLive \/ EditLive \/ Decay \/ ClearBundle \/ Remake
  PROVE  OpsRest'
<1>1. Onward
  BY DEF Onward, CommitLive, EditLive, Decay, ClearBundle, Remake, Turns
<1>2. CASE CommitLive \/ EditLive
  <2>1. UNCHANGED <<maker, bundle, sealed>>
    BY <1>2 DEF CommitLive, EditLive
  <2> QED BY <1>1, <2>1, OpsFrame DEF OpsRest
<1>3. CASE Decay \/ ClearBundle
  <2>1. bundle'.maker \in {bundle.maker, 0} /\ UNCHANGED <<maker, sealed>>
    BY <1>3 DEF Decay, ClearBundle, NoDir, OpsInv, BundleTypes, Dirs
  <2> QED BY <1>1, <2>1, CountsStay DEF OpsRest
<1>4. CASE Remake
  <2>1. PICK m \in Makers, v \in {0, 1} :
          LET man == [db |-> v, cfg |-> 0, maker |-> m]
          IN  /\ bundle' = [db |-> v, cfg |-> 0, man |-> man, maker |-> m]
              /\ sealed' = sealed \cup {man}
    BY <1>4 DEF Remake
  <2>2. Valid([db |-> v, cfg |-> 0, maker |-> m])
    BY MakersPositive DEF Valid, None, Absent, Half
  <2>3. maker' = maker
    BY <1>4 DEF Remake
  <2> QED BY <1>1, <2>1, <2>2, <2>3, CountsStay DEF OpsRest
<1> QED BY <1>2, <1>3, <1>4

LEMMA BundleRest ==
  ASSUME OpsInv, OpsRest, BundleNext, UNCHANGED inputs PROVE OpsRest'
<1>1. CASE \/ BeginVerify("good") \/ BeginVerify("mktarget") \/ VerifyBundle(bundle)
           \/ MakeTarget \/ RestoreDb \/ RestoreCfg
           \/ FailRead({"scan", "manifest", "db", "sound", "cfg", "mktarget", "rdb", "rcfg"},
                       {"rdb", "rcfg"})
           \/ UndoTarget \/ EndRead
  <2>1. UNCHANGED <<maker, bundle, sealed>>
    BY <1>1 DEF BeginVerify, VerifyBundle, ScanEntries, ReadManifest, ReadDb, CheckDb, ReadCfg,
       MakeTarget, RestoreDb, RestoreCfg, FailRead, UndoTarget, EndRead
  <2>2. Onward
    BY <1>1 DEF Onward, BeginVerify, VerifyBundle, ScanEntries, ReadManifest, ReadDb, CheckDb,
       ReadCfg, MakeTarget, RestoreDb, RestoreCfg, FailRead, UndoTarget, EndRead, World, Mishap
  <2> QED BY <2>1, <2>2, OpsFrame DEF OpsRest
<1> QED BY <1>1, MakerRest, WorldRest DEF BundleNext

\* The commands about the contract and the seal, and what changes beside them.
LEMMA CommandsRest ==
  ASSUME OpsInv, OpsRest,
         \/ PrepareAndCheck /\ UNCHANGED sealvars
         \/ SealAndUnseal \/ FailCommand \/ EndCommand
         \/ (\E r \in Releases, i \in 1..Len(TreeFiles) : Upgrade(r, i)) /\ UNCHANGED sealvars
         \/ ClearContract /\ UNCHANGED sealvars
  PROVE  OpsRest'
<1>1. CASE PrepareAndCheck /\ UNCHANGED sealvars
  <2>1. UNCHANGED <<maker, bundle, sealed>> /\ inputs' = inputs
    BY <1>1 DEF PrepareAndCheck, BeginPrepare, MakeContractDir, WalkTree, BindDigest, BindAgain,
       BeginContract, EndContract, ScanContract, CheckBackup, UndoContract, VerifyBundle,
       BeginVerifyContract, ScanEntries, ReadManifest, ReadDb, CheckDb, ReadCfg, BundleSide,
       sealvars
  <2>2. Onward
    BY <1>1 DEF Onward, PrepareAndCheck, BeginPrepare, MakeContractDir, WalkTree, BindDigest,
       BindAgain, BeginContract, EndContract, ScanContract, CheckBackup, UndoContract,
       VerifyBundle, BeginVerifyContract, ScanEntries, ReadManifest, ReadDb, CheckDb, ReadCfg,
       World, Mishap
  <2> QED BY <2>1, <2>2, OpsFrame DEF OpsRest
<1>2. CASE SealAndUnseal
  <2>1. UNCHANGED <<maker, bundle, sealed>>
    BY <1>2 DEF SealAndUnseal, BeginSeal, MakeSealDir, BindLedger, WalkEvidence, BindHostProbe,
       BindAcceptance, VerifySoak, BindSoak, BindBundle, BindContract, BeginSealWrite,
       EndSealWrite, UndoSeal, BeginUnseal, WalkTree, ScanContract, CheckBackup, VerifyBundle,
       ScanEntries, ReadManifest, ReadDb, CheckDb, ReadCfg, InputChanges, EvidenceChanges, SpareDecays,
       BundleSide
  <2>2. Onward
    BY <1>2 DEF Onward, SealAndUnseal, BeginSeal, MakeSealDir, BindLedger, WalkEvidence,
       BindHostProbe, BindAcceptance, VerifySoak, BindSoak, BindBundle, BindContract,
       BeginSealWrite, EndSealWrite, UndoSeal, BeginUnseal, WalkTree, ScanContract, CheckBackup,
       VerifyBundle, ScanEntries, ReadManifest, ReadDb, CheckDb, ReadCfg, InputChanges,
       EvidenceChanges, SpareDecays, World, Mishap, Turns
  <2>3. inputs' = inputs
        \/ \E i \in Inputs : inputs' = [inputs EXCEPT ![i] = IF @ = 0 THEN 1 ELSE Broken]
    BY <1>2 DEF SealAndUnseal, BeginSeal, MakeSealDir, BindLedger, WalkEvidence, BindHostProbe,
       BindAcceptance, VerifySoak, BindSoak, BindBundle, BindContract, BeginSealWrite,
       EndSealWrite, UndoSeal, BeginUnseal, InputChanges, EvidenceChanges, SpareDecays, OpsSide, sealvars
  <2>4. ASSUME NEW k \in Inputs PROVE inputs'[k] \in {0, 1, Broken}
    <3>1. DOMAIN inputs = Inputs
      BY DEF OpsInv, SealTypes
    <3> QED BY <2>3, <3>1 DEF OpsRest
  <2> QED BY <2>1, <2>2, <2>4, OpsFrame
<1>3. CASE FailCommand \/ EndCommand
  <2>1. UNCHANGED <<maker, bundle, sealed>> /\ inputs' = inputs
    BY <1>3 DEF FailCommand, EndCommand, BundleSide, OpsSide, sealvars
  <2>2. Onward
    BY <1>3 DEF Onward, FailCommand, EndCommand, Mishap
  <2> QED BY <2>1, <2>2, OpsFrame DEF OpsRest
<1>4. ASSUME (\E r \in Releases, i \in 1..Len(TreeFiles) : Upgrade(r, i)) \/ ClearContract,
             UNCHANGED sealvars
      PROVE  OpsRest'
  <2>1. UNCHANGED <<maker, bundle, sealed>> /\ inputs' = inputs
    BY <1>4 DEF Upgrade, ClearContract, BundleSide, sealvars
  <2>2. Onward
    BY <1>4 DEF Onward, Upgrade, ClearContract, Turns
  <2> QED BY <2>1, <2>2, OpsFrame DEF OpsRest
<1> QED BY <1>1, <1>2, <1>3, <1>4

LEMMA OpsTypes == OpsInit /\ [][OpsNext]_opsvars => []OpsTypeOK
<1>1. OpsInit => OpsInv /\ OpsRest
  <2> SUFFICES ASSUME OpsInit PROVE OpsRest
    BY OpsBegins
  <2>1. \A m \in Makers : maker[m].pc = "idle"
    BY DEF OpsInit, AllIdle
  <2>2. \A i \in Inputs : inputs[i] = 0
    BY DEF OpsInit
  <2>3. bundle.maker \in Makers \cup {0} /\ \A s \in sealed : Valid(s) /\ s.maker \in Makers
    <3>1. CASE opsCase = "bundle"
      BY <3>1 DEF OpsInit, NothingMade, NoDir
    <3>2. CASE opsCase # "bundle"
      <4>1. bundle.maker = 1 /\ sealed = {[db |-> 0, cfg |-> 0, maker |-> 1]}
        BY <3>2 DEF OpsInit, MadeBundle
      <4>2. Valid([db |-> 0, cfg |-> 0, maker |-> 1])
        BY DEF Valid, None, Absent, Half
      <4> QED BY <4>1, <4>2, EvidenceAssumption
    <3> QED BY <3>1, <3>2
  <2>4. world = 0 /\ mishaps = 0
    BY DEF OpsInit, AllIdle
  <2> QED BY <2>1, <2>2, <2>3, <2>4, BundleAssumption DEF OpsRest
<1>2. OpsInv /\ OpsRest /\ [OpsNext]_opsvars => (OpsInv /\ OpsRest)'
  <2> SUFFICES ASSUME OpsInv, OpsRest, [OpsNext]_opsvars PROVE OpsRest'
    BY OpsNextKeeps
  <2>1. CASE UNCHANGED opsvars
    BY <2>1 DEF opsvars, bundlevars, contractvars, sealvars, OpsRest, Valid
  <2>2. CASE BundleNext /\ UNCHANGED <<contractvars, sealvars>>
    BY <2>2, BundleRest DEF sealvars
  <2>3. CASE (PrepareAndCheck \/ WorldOfContract) /\ UNCHANGED sealvars
    BY <2>3, CommandsRest, WorldRest DEF sealvars, WorldOfContract, DecayWorld
  <2>4. CASE SealAndUnseal \/ FailCommand \/ EndCommand
    BY <2>4, CommandsRest
  <2> QED BY <2>1, <2>2, <2>3, <2>4 DEF OpsNext
<1>3. OpsInv /\ OpsRest => OpsTypeOK
  <2> SUFFICES ASSUME OpsInv, OpsRest PROVE OpsTypeOK
    OBVIOUS
  <2>1. rd.quiet \in BOOLEAN /\ kr.mine \in BOOLEAN /\ sr.mine \in BOOLEAN
    BY DEF OpsInv, BundleTypes, ReadRegs, ContractTypes, SealTypes
  <2> QED BY <2>1 DEF OpsRest, OpsTypeOK, BundleTypeOK
<1> QED BY <1>1, <1>2, <1>3, PTL
-------------------------------------------------------------------------------
(* DesktopSession. *)

LEMMA SessionTypes == SessionInit /\ [][SessionNext]_sessionvars => []SessionTypeOK
<1>1. SessionInit => SessionInv
  BY SessionBegins
<1>2. SessionInv /\ [SessionNext]_sessionvars => SessionInv'
  BY SessionSteps
<1>3. SessionInv => SessionTypeOK
  <2> SUFFICES ASSUME SessionInv PROVE SessionTypeOK
    OBVIOUS
  <2>1. service \in [Gens -> BackendStates] /\ gen \in [Gens -> ReaderStates]
        /\ launch \in [Gens -> LaunchStates]
    BY DEF SessionInv, AllSaySo, Attempts
  <2>2. ReaderStates = [reader : {"none", "reading", "posted", "closed"},
                        post : {"none", "navigate", "ready", "ok", "incomplete", "fault"},
                        hs : {"nothing", "ok", "incomplete"}, sent : BOOLEAN]
    BY DEF ReaderStates, PagesAndEnds
  <2>3. \A c \in Clients : client[c].g \in 0..MaxGens
    BY DEF SessionInv, WhoDoesWhat, ClientStates
  <2>4. win.allowed \subseteq Gens
    BY DEF SessionInv, WindowKeeps, WindowStates
  <2> QED BY <2>1, <2>2, <2>3, <2>4
          DEF SessionInv, OneLives, SessionTypeOK, BackendStates, Phases, PagesAndEnds,
              LaunchStates
<1> QED BY <1>1, <1>2, <1>3, PTL
-------------------------------------------------------------------------------
(* SemanticUpdater. *)

\* What is known of evidence is a digest, wherever it is kept.
OfEvidence == Digests \cup {0}
UpRest ==
    /\ closed \subseteq OpenEvents /\ place \in OpenEvents \cup {0}
    /\ assetOf \in [OpenEvents -> OfEvidence] /\ fileOf \in [OpenEvents -> OfEvidence]
    /\ \A e \in OpenEvents : note[e].digest \in OfEvidence
    /\ up.bytes \in OfEvidence

LEMMA NotesOfDigests ==
  ASSUME note \in [OpenEvents -> Notes], \A k \in OpenEvents : note[k].digest \in OfEvidence,
         NEW e \in OpenEvents, NEW d \in OfEvidence
  PROVE  /\ \A st \in {"noEvidence", "published", "backoff"} :
              Noted(e, st, d) => \A k \in OpenEvents : note'[k].digest \in OfEvidence
         /\ FailNote(e, d) => \A k \in OpenEvents : note'[k].digest \in OfEvidence
         /\ \A k \in OpenEvents : [note EXCEPT ![e] = NoNote][k].digest \in OfEvidence
<1>1. ASSUME NEW r, r.digest \in OfEvidence
      PROVE  \A k \in OpenEvents : [note EXCEPT ![e] = r][k].digest \in OfEvidence
  BY <1>1
<1>2. ASSUME NEW st \in {"noEvidence", "published", "backoff"}, Noted(e, st, d)
      PROVE  \A k \in OpenEvents : note'[k].digest \in OfEvidence
  <2> DEFINE r == [st |-> st, tries |-> note[e].tries,
                   digest |-> IF d = 0 THEN note[e].digest ELSE d]
  <2>1. r.digest \in OfEvidence
    OBVIOUS
  <2>2. note' = [note EXCEPT ![e] = r]
    BY <1>2 DEF Noted
  <2> HIDE DEF r
  <2> QED BY <1>1, <2>1, <2>2
<1>3. ASSUME FailNote(e, d)
      PROVE  \A k \in OpenEvents : note'[k].digest \in OfEvidence
  <2> DEFINE n == note[e].tries + 1
             r == [st |-> IF n > RetryMax THEN "failed" ELSE "retry", tries |-> n,
                   digest |-> IF d = 0 THEN note[e].digest ELSE d]
  <2>1. r.digest \in OfEvidence
    OBVIOUS
  <2>2. note' = [note EXCEPT ![e] = r]
    BY <1>3 DEF FailNote
  <2> HIDE DEF n, r
  <2> QED BY <1>1, <2>1, <2>2
<1>4. NoNote.digest \in OfEvidence
  BY DEF NoNote, OfEvidence
<1> QED BY <1>1, <1>2, <1>3, <1>4

LEMMA UpFrame ==
  ASSUME UpRest, closed' = closed, assetOf' = assetOf, fileOf' = fileOf,
         place' \in OpenEvents \cup {0},
         \A k \in OpenEvents : note'[k].digest \in OfEvidence, up'.bytes \in OfEvidence
  PROVE  UpRest'
  BY DEF UpRest

LEMMA UpRestStep ==
  ASSUME UpdaterInv, UpRest, UpdaterNext
  PROVE  UpRest'
<1>1. /\ note \in [OpenEvents -> Notes] /\ up \in UpStates
      /\ up.pc \in {"read", "model", "publish"} => up.e \in OpenEvents
  BY UpdaterConstants DEF UpdaterInv, UpShape, UpStates
<1>2. /\ \A k \in OpenEvents : note[k].digest \in OfEvidence
      /\ up.bytes \in OfEvidence /\ place \in OpenEvents \cup {0} /\ 0 \in OfEvidence
      /\ \A k \in OpenEvents : fileOf[k] \in OfEvidence /\ assetOf[k] \in OfEvidence
  BY DEF UpRest, OfEvidence
<1>3. Scanning.bytes = 0 /\ [Scanning EXCEPT !.pc = "drain"].bytes = 0
  BY DEF Scanning
<1>4. CASE BeginScan
  <2>1. up'.bytes = 0
    BY <1>4 DEF BeginScan, Scanning
  <2> QED BY <1>2, <1>4, <2>1, UpFrame DEF BeginScan, tables, memoryOf
<1>5. CASE EvaluateNext
  <2> DEFINE e == Head(up.rows)
  <2>1. e \in OpenEvents
    BY <1>1, <1>5, HeadTailProperties DEF EvaluateNext, UpStates
  <2>2. /\ EvaluateEvent(e) \/ UNCHANGED memoryOf
        /\ up' = [up EXCEPT !.rows = Tail(@)] /\ UNCHANGED tables
    BY <1>5 DEF EvaluateNext
  <2>3. up'.bytes = up.bytes
    BY <1>1, <2>2 DEF UpStates
  <2> HIDE DEF e
  <2>4. \A k \in OpenEvents : note'[k].digest \in OfEvidence
    <3>1. CASE UNCHANGED memoryOf
      BY <1>2, <3>1 DEF memoryOf
    <3>2. CASE EvaluateEvent(e)
      <4>1. \/ note' = note \/ Noted(e, "noEvidence", 0) \/ Noted(e, "published", fileOf[e])
            \/ Noted(e, "backoff", fileOf[e]) \/ note' = [note EXCEPT ![e] = NoNote]
        BY <3>2 DEF EvaluateEvent, memoryOf
      <4> QED BY <1>1, <1>2, <2>1, <4>1, NotesOfDigests
    <3> QED BY <2>2, <3>1, <3>2
  <2> QED BY <1>2, <2>2, <2>3, <2>4, UpFrame DEF tables
<1>6. CASE EndScan
  <2>1. up'.bytes = up.bytes /\ place' \in OpenEvents \cup {0}
    BY <1>1, <1>6 DEF EndScan, UpStates
  <2> QED BY <1>2, <1>6, <2>1, UpFrame DEF EndScan, memoryOf
<1>15. CASE ScanRaises
  <2>1. up'.bytes = 0
    BY <1>15 DEF ScanRaises, Scanning
  <2> QED BY <1>2, <1>15, <2>1, UpFrame DEF ScanRaises, tables, memoryOf
<1>7. CASE TakeItem
  <2>1. up'.bytes = 0
    BY <1>3, <1>7 DEF TakeItem, Scanning
  <2> QED BY <1>2, <1>7, <2>1, UpFrame DEF TakeItem, tables
<1>8. CASE ReadEvidence
  <2>1. up.e \in OpenEvents /\ UNCHANGED tables
    BY <1>1, <1>8 DEF ReadEvidence
  <2>2. \/ note' = note \/ Noted(up.e, "noEvidence", 0) \/ FailNote(up.e, 0)
        \/ Noted(up.e, "published", fileOf[up.e])
    BY <1>8 DEF ReadEvidence
  <2>3. BackToQueue \/ up' = [up EXCEPT !.pc = "model", !.bytes = fileOf[up.e]]
    BY <1>8 DEF ReadEvidence
  <2>4. up'.bytes \in OfEvidence
    <3>1. CASE BackToQueue
      BY <1>2, <1>3, <3>1 DEF BackToQueue
    <3>2. CASE up' = [up EXCEPT !.pc = "model", !.bytes = fileOf[up.e]]
      BY <1>1, <1>2, <2>1, <3>2 DEF UpStates
    <3> QED BY <2>3, <3>1, <3>2
  <2>5. \A k \in OpenEvents : note'[k].digest \in OfEvidence
    BY <1>1, <1>2, <2>1, <2>2, NotesOfDigests
  <2> QED BY <1>2, <2>1, <2>4, <2>5, UpFrame DEF tables
<1>9. CASE ModelFails \/ PublishDescription \/ ProcessingFails
  <2>1. up.e \in OpenEvents
    BY <1>1, <1>9 DEF ModelFails, PublishDescription, ProcessingFails
  <2>2. \/ FailNote(up.e, up.bytes) \/ FailNote(up.e, 0) \/ Noted(up.e, "published", up.bytes)
        \/ note' = [note EXCEPT ![up.e] = NoNote]
    BY <1>9 DEF ModelFails, PublishDescription, ProcessingFails
  <2>3. \A k \in OpenEvents : note'[k].digest \in OfEvidence
    BY <1>1, <1>2, <2>1, <2>2, NotesOfDigests
  <2>4. BackToQueue /\ UNCHANGED <<closed, assetOf, fileOf, place>>
    BY <1>9 DEF ModelFails, PublishDescription, ProcessingFails, tables
  <2> QED BY <1>2, <1>3, <2>3, <2>4, UpFrame DEF BackToQueue
<1>10. CASE Understood
  <2>1. up'.bytes = up.bytes
    BY <1>1, <1>10 DEF Understood, UpStates
  <2> QED BY <1>2, <1>10, <2>1, UpFrame DEF Understood, tables, memoryOf
<1>11. CASE UpdaterRestarts
  <2>1. \A k \in OpenEvents : note'[k].digest \in OfEvidence
    BY <1>11 DEF UpdaterRestarts, Forgotten, NoNote, OfEvidence
  <2> QED BY <1>2, <1>3, <1>11, <2>1, UpFrame DEF UpdaterRestarts, Forgotten, tables
<1>12. ASSUME NEW e \in OpenEvents, EventEnds(e) PROVE UpRest'
  BY <1>12 DEF EventEnds, UpRest, memoryOf
<1>13. ASSUME NEW e \in OpenEvents, FileRecorded(e) PROVE UpRest'
  BY <1>2, <1>13 DEF FileRecorded, UpRest, memoryOf
<1>14. ASSUME NEW e \in OpenEvents, NEW d \in Digests \cup {0}, FileChanges(e, d) PROVE UpRest'
  BY <1>14 DEF FileChanges, UpRest, memoryOf, OfEvidence
<1> QED BY <1>4, <1>5, <1>6, <1>7, <1>8, <1>9, <1>10, <1>11, <1>12, <1>13, <1>14, <1>15
        DEF UpdaterNext

LEMMA UpdaterTypes == UpdaterInit /\ [][UpdaterNext]_updatervars => []UpdaterTypeOK
<1>1. UpdaterInit => UpdaterInv /\ UpRest
  BY UpdaterBegins DEF UpdaterInit, UpRest, OfEvidence, NoNote, Scanning
<1>2. UpdaterInv /\ UpRest /\ [UpdaterNext]_updatervars => (UpdaterInv /\ UpRest)'
  <2> SUFFICES ASSUME UpdaterInv, UpRest, [UpdaterNext]_updatervars
               PROVE  UpdaterInv' /\ UpRest'
    OBVIOUS
  <2>1. CASE UNCHANGED updatervars
    BY <2>1, UpdaterRests DEF updatervars, tables, memoryOf, UpRest
  <2> QED BY <2>1, UpdaterSteps, UpRestStep
<1>3. UpdaterInv /\ UpRest => UpdaterTypeOK
  <2> SUFFICES ASSUME UpdaterInv, UpRest PROVE UpdaterTypeOK
    OBVIOUS
  <2>1. note \in [OpenEvents -> Notes]
    BY DEF UpdaterInv, UpShape
  <2>2. \A e \in OpenEvents :
          note[e].st \in {"none", "retry", "failed", "noEvidence", "published", "backoff"}
    BY <2>1 DEF Notes
  <2> QED BY <2>2 DEF UpdaterInv, UpShape, UpRest, OfEvidence, UpdaterTypeOK
<1> QED BY <1>1, <1>2, <1>3, PTL
-------------------------------------------------------------------------------
(* NotifyHub. *)

\* Time stays within its bound, and no failure is counted once the last try is made.
HubRest ==
    /\ clock \in 1..MaxClock
    /\ \A e \in Alarms : view.fails[e] <= MaxTries /\ durable.fails[e] <= MaxTries

LEMMA HubRestStep ==
  ASSUME HubInv, HubRest, HubNext
  PROVE  HubRest'
<1>1. view \in Counts /\ durable \in Counts /\ round.batch \in Seq(Alarms) /\ MaxTries \in Nat
  BY HubAssumption DEF HubInv, HubCore, HubShape, RoundStates
<1>2. ASSUME UNCHANGED <<clock, view, durable>> PROVE HubRest'
  BY <1>2 DEF HubRest
<1>3. CASE CommitTries \/ HubRestarts
  BY <1>3 DEF CommitTries, HubRestarts, HubRest
<1>4. CASE AdvanceCursor
  <2>1. view'.fails = view.fails /\ durable' = view' /\ clock' = clock
    BY <1>1, <1>4 DEF AdvanceCursor, Counts
  <2> QED BY <2>1 DEF HubRest
<1>5. CASE Tick
  BY <1>5, HubAssumption DEF Tick, HubRest
<1>6. ASSUME NEW accepted \in SUBSET Outlets, SendNext(accepted) PROVE HubRest'
  <2> DEFINE e == Head(round.batch)
  <2>1. e \in Alarms /\ UNCHANGED <<clock, durable>>
    BY <1>1, <1>6, HeadTailProperties DEF SendNext
  <2>2. \/ view' = view
        \/ view' = [view EXCEPT !.fails[e] = 0]
        \/ view' = [view EXCEPT !.fails[e] = @ + 1] /\ ~(view.fails[e] >= MaxTries)
    BY <1>6 DEF SendNext
  <2> HIDE DEF e
  <2>3. view.fails \in [Alarms -> Nat] /\ view.fails[e] \in Nat
    BY <1>1, <2>1 DEF Counts
  <2>4. ASSUME NEW n \in Nat, n <= MaxTries, view' = [view EXCEPT !.fails[e] = n]
        PROVE  HubRest'
    <3>1. view'.fails = [view.fails EXCEPT ![e] = n]
      BY <1>1, <2>4 DEF Counts
    <3> QED BY <2>1, <2>3, <2>4, <3>1 DEF HubRest
  <2>5. CASE view' = view
    BY <1>2, <2>1, <2>5
  <2>6. CASE view' = [view EXCEPT !.fails[e] = 0]
    BY <1>1, <2>4, <2>6
  <2>7. CASE view' = [view EXCEPT !.fails[e] = @ + 1] /\ ~(view.fails[e] >= MaxTries)
    <3>1. view.fails[e] + 1 \in Nat /\ view.fails[e] + 1 <= MaxTries
      BY <1>1, <2>3, <2>7
    <3> QED BY <2>4, <2>7, <3>1
  <2> QED BY <2>2, <2>5, <2>6, <2>7
<1>7. CASE BeginRound \/ RoundFails \/ \E e \in Alarms, t \in 1..MaxClock : StoreAlarm(e, t)
  BY <1>2, <1>7 DEF BeginRound, RoundFails, StoreAlarm
<1> QED BY <1>3, <1>4, <1>5, <1>6, <1>7 DEF HubNext

LEMMA HubTypes == HubInit /\ [][HubNext]_hubvars => []HubTypeOK
<1>1. HubInit => HubInv /\ HubRest
  BY HubBegins, HubAssumption DEF HubInit, HubRest, NoMeta
<1>2. HubInv /\ HubRest /\ [HubNext]_hubvars => (HubInv /\ HubRest)'
  <2> SUFFICES ASSUME HubInv, HubRest, [HubNext]_hubvars PROVE HubInv' /\ HubRest'
    OBVIOUS
  <2>1. CASE UNCHANGED hubvars
    BY <2>1, HubRests DEF hubvars, HubRest
  <2> QED BY <2>1, HubSteps, HubRestStep
<1>3. HubInv /\ HubRest => HubTypeOK
  <2> SUFFICES ASSUME HubInv, HubRest PROVE HubTypeOK
    OBVIOUS
  <2>1. MaxTries \in Nat /\ MaxClock \in Nat /\ clock \in Nat /\ clock <= MaxClock
    BY HubAssumption DEF HubRest
  <2>2. startOf \in [Alarms -> 0..MaxClock]
    <3>1. startOf \in [Alarms -> Nat] /\ \A e \in Alarms : startOf[e] <= clock
      BY DEF HubInv, HubCore, HubShape
    <3>2. \A e \in Alarms : startOf[e] \in 0..MaxClock
      BY <2>1, <3>1
    <3> QED BY <3>1, <3>2
  <2>3. ASSUME NEW meta \in Counts, meta.cursor <= clock,
               \A e \in Alarms : meta.fails[e] <= MaxTries
        PROVE  meta \in Metas
    <3>1. meta.cursor \in 0..MaxClock
      BY <2>1, <2>3 DEF Counts
    <3>2. meta.fails \in [Alarms -> 0..MaxTries]
      <4>1. meta.fails \in [Alarms -> Nat]
        BY <2>3 DEF Counts
      <4>2. \A e \in Alarms : meta.fails[e] \in 0..MaxTries
        BY <2>1, <2>3, <4>1
      <4> QED BY <4>1, <4>2
    <3> QED BY <2>3, <3>1, <3>2 DEF Counts, Metas
  <2>4. view \in Metas /\ durable \in Metas
    BY <2>3 DEF HubInv, HubCore, HubShape, HubRest
  <2>5. round.pc \in {"wait", "send", "cursor"} /\ round.batch \in Seq(Alarms)
    BY DEF HubInv, HubCore, HubShape, RoundStates
  <2> QED BY <2>2, <2>4, <2>5 DEF HubInv, HubCore, HubShape, HubRest, HubTypeOK
<1> QED BY <1>1, <1>2, <1>3, PTL
-------------------------------------------------------------------------------
(* BestFrames. *)

LEMMA LeftStep ==
  ASSUME FramesInv, left \subseteq Frames, FramesNext
  PROVE  left' \subseteq Frames
<1>1. /\ cam.at \in Frames \cup {0} /\ cam.old \in Frames \cup {0}
      /\ \A o \in Owners : assets[o].path \in Frames \cup {0}
      /\ cam.pc = "index" => cam.at \in Frames
      /\ cam.pc = "sweep" => cam.old \in Frames
  BY FramesFacts DEF FramesInv, FrameShape, CameraKnows
<1>2. ASSUME NEW e \in Happenings, LinkFrame(e) PROVE left' \subseteq Frames
  <2>1. assets[e].path \in Frames \cup {0}
    BY <1>1 DEF Owners
  <2> QED BY <1>2, <2>1 DEF LinkFrame
<1>3. CASE SweepFails
  BY <1>1, <1>3 DEF SweepFails
<1>4. CASE CameraCrash
  BY <1>1, <1>4 DEF CameraCrash
<1>5. CASE IndexFails
  BY <1>1, <1>5 DEF IndexFails
<1>6. CASE \/ IndexFrame \/ SweepOld \/ ObjectGone \/ ReadBytes \/ MarkRow
           \/ \E f \in Frames : WriteFrame(f) \/ \E how \in {"none", "bad"} : HarmFile(f, how)
           \/ \E e \in Happenings : EndHappening(e) \/ \E stored \in BOOLEAN : OpenHappening(e, stored)
           \/ \E o \in Owners : ReadRow(o)
  BY <1>6 DEF IndexFrame, SweepOld, ObjectGone, ReadBytes, MarkRow, WriteFrame,
     HarmFile, EndHappening, OpenHappening, ReadRow
<1> QED BY <1>2, <1>3, <1>4, <1>6, <1>5 DEF FramesNext

LEMMA FrameTypes == FramesInit /\ [][FramesNext]_framevars => []FramesTypeOK
<1>1. FramesInit => FramesInv /\ left \subseteq Frames
  BY FramesBegin DEF FramesInit
<1>2. FramesInv /\ left \subseteq Frames /\ [FramesNext]_framevars
        => (FramesInv /\ left \subseteq Frames)'
  <2> SUFFICES ASSUME FramesInv, left \subseteq Frames, [FramesNext]_framevars
               PROVE  FramesInv' /\ left' \subseteq Frames
    OBVIOUS
  <2>1. CASE UNCHANGED framevars
    BY <2>1, FramesStep DEF framevars
  <2> QED BY <2>1, FramesStep, LeftStep
<1>3. FramesInv /\ left \subseteq Frames => FramesTypeOK
  BY DEF FramesInv, FrameShape, Assets, FramesTypeOK
<1> QED BY <1>1, <1>2, <1>3, PTL
-------------------------------------------------------------------------------
(* EnvironmentBaseline. *)

\* What is known of a scene is one the camera has shown.
ScenesSeen ==
    /\ onCamera \in 0..MaxScenes /\ profile \in 0..MaxScenes
    /\ \A t \in 1..MaxAttempts : scenes[t] \in -1..MaxScenes
    /\ \A a \in Admins : jobs[a].scene \in 0..MaxScenes

\* What a request may do with the job of its thread.
LEMMA JobsSeen ==
  ASSUME BaseInv, ScenesSeen, NEW a \in Admins, NEW j, j.scene \in 0..MaxScenes,
         jobs' = [jobs EXCEPT ![a] = j]
  PROVE  \A b \in Admins : jobs'[b].scene \in 0..MaxScenes
  BY DEF BaseInv, BaseShape, ScenesSeen

LEMMA RequestSeen ==
  ASSUME BaseInv, ScenesSeen, NEW a \in Admins, NEW ans,
         FailsWith(a, ans) \/ JobAnswers(a, ans)
  PROVE  \A b \in Admins : jobs'[b].scene \in 0..MaxScenes
<1>1. jobs[a] \in Jobs /\ jobs[a].scene \in 0..MaxScenes /\ 0 \in 0..MaxScenes
  BY BaselineAssumption DEF BaseInv, BaseShape, ScenesSeen
<1>2. CASE JobAnswers(a, ans)
  <2> DEFINE j == [JobDone(ans) EXCEPT !.file = jobs[a].file]
  <2>1. j.scene = 0 /\ jobs' = [jobs EXCEPT ![a] = j]
    BY <1>2 DEF JobAnswers, Job, JobDone
  <2> HIDE DEF j
  <2> QED BY <1>1, <2>1, JobsSeen
<1>3. CASE jobs' = [jobs EXCEPT ![a] = [jobs[a] EXCEPT !.pc = "note", !.answer = ans]]
  <2> DEFINE j == [jobs[a] EXCEPT !.pc = "note", !.answer = ans]
  <2>1. j.scene = jobs[a].scene
    BY <1>1 DEF Jobs
  <2> HIDE DEF j
  <2>2. jobs' = [jobs EXCEPT ![a] = j]
    BY <1>3 DEF j
  <2> QED BY <1>1, <2>1, <2>2, JobsSeen
<1> QED BY <1>2, <1>3 DEF FailsWith, Job

LEMMA AdminsSeen ==
  ASSUME BaseInv, ScenesSeen, NEW a \in Admins,
         \/ AskBaseline(a) \/ AskProfile(a) \/ CopyFrame(a) \/ Analyzed(a) \/ NotAnalyzed(a)
         \/ StoreScene(a) \/ Raises(a) \/ Establish(a) \/ EstablishFails(a)
         \/ Discard(a) \/ DiscardUnsure(a) \/ NoteFailure(a)
  PROVE  ScenesSeen'
<1>1. /\ jobs[a] \in Jobs /\ jobs[a].scene \in 0..MaxScenes /\ 0 \in 0..MaxScenes
      /\ attempts \in Nat /\ MaxAttempts \in Nat /\ scenes \in [1..MaxAttempts -> Int]
      /\ 0 \in -1..MaxScenes /\ \A s \in 0..MaxScenes : s \in -1..MaxScenes
  BY BaselineAssumption DEF BaseInv, BaseShape, ScenesSeen
<1>2. ASSUME NEW j, j.scene \in 0..MaxScenes, jobs' = [jobs EXCEPT ![a] = j],
             UNCHANGED <<onCamera, profile, scenes>>
      PROVE  ScenesSeen'
  BY <1>2, JobsSeen DEF ScenesSeen
<1>3. ASSUME NEW ans, FailsWith(a, ans) \/ JobAnswers(a, ans),
             UNCHANGED <<onCamera, profile, scenes>>
      PROVE  ScenesSeen'
  BY <1>3, RequestSeen DEF ScenesSeen
<1>4. CASE AskBaseline(a)
  <2>1. UNCHANGED <<onCamera, profile, scenes>>
    BY <1>4 DEF AskBaseline, tablesOfBaselines
  <2>2. \/ jobs' = [jobs EXCEPT ![a] = [JobDone("none") EXCEPT !.pc = "frame", !.asks = "baseline"]]
        \/ jobs' = [jobs EXCEPT ![a] = JobDone("busy")]
    BY <1>4 DEF AskBaseline, Job
  <2>3. /\ [JobDone("none") EXCEPT !.pc = "frame", !.asks = "baseline"].scene = 0
        /\ JobDone("busy").scene = 0
    BY DEF JobDone
  <2> QED BY <1>1, <1>2, <2>1, <2>2, <2>3
<1>5. CASE AskProfile(a)
  <2>1. UNCHANGED <<onCamera, profile, scenes>>
        /\ jobs' = [jobs EXCEPT ![a] = [JobDone("none") EXCEPT !.pc = "frame", !.asks = "profile"]]
    BY <1>5 DEF AskProfile, tablesOfBaselines, Job
  <2>2. [JobDone("none") EXCEPT !.pc = "frame", !.asks = "profile"].scene = 0
    BY DEF JobDone
  <2> QED BY <1>1, <1>2, <2>1, <2>2
<1>6. CASE CopyFrame(a)
  <2>1. UNCHANGED <<onCamera, profile, scenes>>
    BY <1>6 DEF CopyFrame, tablesOfBaselines
  <2>2. FailsWith(a, "unavailable")
        \/ jobs' = [jobs EXCEPT ![a] = [jobs[a] EXCEPT !.pc = "model", !.scene = onCamera]]
    BY <1>6 DEF CopyFrame, Job
  <2>3. [jobs[a] EXCEPT !.pc = "model", !.scene = onCamera].scene \in 0..MaxScenes
    BY <1>1 DEF ScenesSeen, Jobs
  <2> QED BY <1>2, <1>3, <2>1, <2>2, <2>3
<1>7. CASE Analyzed(a)
  <2>1. profile' \in 0..MaxScenes /\ UNCHANGED <<onCamera, scenes>>
    BY <1>1, <1>7 DEF Analyzed
  <2>2. JobGoes(a, "store") \/ JobAnswers(a, "ok")
    BY <1>7 DEF Analyzed
  <2>3. \A b \in Admins : jobs'[b].scene \in 0..MaxScenes
    <3>1. CASE JobGoes(a, "store")
      <4>1. [jobs[a] EXCEPT !.pc = "store"].scene = jobs[a].scene
        BY <1>1 DEF Jobs
      <4> QED BY <1>1, <3>1, <4>1, JobsSeen DEF JobGoes, Job
    <3> QED BY <2>2, <3>1, RequestSeen
  <2> QED BY <2>1, <2>3 DEF ScenesSeen
<1>8. CASE NotAnalyzed(a) \/ Raises(a) \/ DiscardUnsure(a)
  <2>1. UNCHANGED <<onCamera, profile, scenes>>
    BY <1>8 DEF NotAnalyzed, Raises, DiscardUnsure, tablesOfBaselines
  <2>2. FailsWith(a, "refused") \/ JobAnswers(a, "raised") \/ FailsWith(a, "unavailable")
    BY <1>8 DEF NotAnalyzed, Raises, DiscardUnsure
  <2> QED BY <1>3, <2>1, <2>2
<1>9. CASE StoreScene(a)
  <2> DEFINE j == [jobs[a] EXCEPT !.pc = "commit", !.file = attempts']
  <2>1. /\ UNCHANGED <<onCamera, profile>> /\ jobs' = [jobs EXCEPT ![a] = j]
        /\ scenes' = [scenes EXCEPT ![attempts'] = jobs[a].scene]
    BY <1>9 DEF StoreScene, tablesOfBaselines, Job
  <2>2. j.scene = jobs[a].scene
    BY <1>1 DEF Jobs
  <2> HIDE DEF j
  <2>3. \A b \in Admins : jobs'[b].scene \in 0..MaxScenes
    BY <1>1, <2>1, <2>2, JobsSeen
  <2>4. \A t \in 1..MaxAttempts : scenes'[t] \in -1..MaxScenes
    BY <1>1, <2>1 DEF ScenesSeen
  <2> QED BY <2>1, <2>3, <2>4 DEF ScenesSeen
<1>10. CASE Establish(a) \/ NoteFailure(a)
  <2>1. UNCHANGED <<onCamera, profile, scenes>>
    BY <1>10 DEF Establish, NoteFailure
  <2>2. JobAnswers(a, "ok") \/ JobAnswers(a, jobs[a].answer)
    BY <1>10 DEF Establish, NoteFailure
  <2> QED BY <1>3, <2>1, <2>2
<1>11. CASE EstablishFails(a)
  <2>1. UNCHANGED <<onCamera, profile, scenes>> /\ JobGoes(a, "discard")
    BY <1>11 DEF EstablishFails
  <2>2. [jobs[a] EXCEPT !.pc = "discard"].scene = jobs[a].scene
    BY <1>1 DEF Jobs
  <2> QED BY <1>1, <1>2, <2>1, <2>2 DEF JobGoes, Job
<1>12. CASE Discard(a)
  <2>1. UNCHANGED <<onCamera, profile>> /\ FailsWith(a, "unavailable")
        /\ (scenes' = scenes \/ scenes' = [scenes EXCEPT ![jobs[a].file] = 0])
    BY <1>12 DEF Discard, tablesOfBaselines
  <2>2. \A t \in 1..MaxAttempts : scenes'[t] \in -1..MaxScenes
    BY <1>1, <2>1 DEF ScenesSeen
  <2>3. \A b \in Admins : jobs'[b].scene \in 0..MaxScenes
    BY <2>1, RequestSeen
  <2> QED BY <2>1, <2>2, <2>3 DEF ScenesSeen
<1> QED BY <1>4, <1>5, <1>6, <1>7, <1>8, <1>9, <1>10, <1>11, <1>12

LEMMA ScenesSeenStep ==
  ASSUME BaseInv, ScenesSeen, [BaselineNext]_baselinevars
  PROVE  ScenesSeen'
<1>1. ASSUME UNCHANGED <<onCamera, profile, scenes, jobs>> PROVE ScenesSeen'
  BY <1>1 DEF ScenesSeen
<1>2. CASE UNCHANGED baselinevars
  BY <1>1, <1>2 DEF baselinevars, tablesOfBaselines, memoryOfBaselines
<1>3. CASE ReadPointer \/ ReadVersion \/ ReadScene
  BY <1>1, <1>3 DEF ReadPointer, ReadVersion, ReadScene, tablesOfBaselines
<1>4. CASE SceneChanges
  <2>1. onCamera' \in 0..MaxScenes
    BY <1>4, BaselineAssumption DEF SceneChanges, ScenesSeen
  <2> QED BY <1>4, <2>1 DEF SceneChanges, tablesOfBaselines, memoryOfBaselines, ScenesSeen
<1>5. CASE Restart
  <2>1. \A b \in Admins : jobs'[b].scene \in 0..MaxScenes
    BY <1>5, BaselineAssumption DEF Restart, JobDone
  <2> QED BY <1>5, <2>1 DEF Restart, tablesOfBaselines, ScenesSeen
<1>6. ASSUME NEW t \in 1..MaxAttempts, NEW how \in {0, -1}, HarmScene(t, how)
      PROVE  ScenesSeen'
  <2>1. scenes \in [1..MaxAttempts -> Int] /\ how \in -1..MaxScenes
    BY BaselineAssumption DEF BaseInv, BaseShape
  <2>2. \A k \in 1..MaxAttempts : scenes'[k] \in -1..MaxScenes
    BY <1>6, <2>1 DEF HarmScene, ScenesSeen
  <2> QED BY <1>6, <2>2 DEF HarmScene, tablesOfBaselines, memoryOfBaselines, ScenesSeen
<1> QED BY <1>2, <1>3, <1>4, <1>5, <1>6, AdminsSeen DEF BaselineNext

LEMMA BaselineTypes == BaselineInit /\ [][BaselineNext]_baselinevars => []BaselineTypeOK
<1>1. BaselineInit => BaseInv /\ ScenesSeen
  <2> SUFFICES ASSUME BaselineInit PROVE ScenesSeen
    BY BaselineBegin
  <2>1. 0 \in 0..MaxScenes /\ 0 \in -1..MaxScenes /\ JobDone("none").scene = 0
    BY BaselineAssumption DEF JobDone
  <2>2. /\ onCamera = 0 /\ profile = 0 /\ \A t \in 1..MaxAttempts : scenes[t] = 0
        /\ \A a \in Admins : jobs[a] = JobDone("none")
    BY DEF BaselineInit
  <2> QED BY <2>1, <2>2 DEF ScenesSeen
<1>2. BaseInv /\ ScenesSeen /\ [BaselineNext]_baselinevars => (BaseInv /\ ScenesSeen)'
  BY BaselinesStep, ScenesSeenStep
<1>3. BaseInv /\ ScenesSeen => BaselineTypeOK
  <2> SUFFICES ASSUME BaseInv, ScenesSeen PROVE BaselineTypeOK
    OBVIOUS
  <2> DEFINE n == Len(versions)
             nameOf == [i \in 1..n |-> versions[i].file]
  <2>1. /\ attempts \in 0..MaxAttempts /\ MaxAttempts \in Nat /\ n \in Nat /\ pointer = n
        /\ \A i \in 1..n : versions[i].file \in 1..attempts
    <3>1. /\ versions \in Seq(FileRows) /\ attempts \in 0..MaxAttempts /\ pointer = n
          /\ MaxAttempts \in Nat /\ \A i \in 1..n : versions[i].file <= attempts
      BY BaselineAssumption DEF BaseInv, BaseShape, NamesOnce, VersionsKept
    <3>2. n \in Nat /\ \A i \in 1..n : versions[i] \in FileRows
      BY <3>1, LenProperties, ElementOfSeq
    <3> QED BY <3>1, <3>2 DEF FileRows
  <2>2. \A i, k \in 1..n : versions[i].file = versions[k].file => i = k
    BY DEF BaseInv, VersionsKept
  <2> HIDE DEF n
  <2>3. nameOf \in Injection(1..n, 1..attempts)
    <3>1. nameOf \in [1..n -> 1..attempts]
      BY <2>1
    <3>2. \A i, k \in 1..n : nameOf[i] = nameOf[k] => i = k
      BY <2>2
    <3> HIDE DEF nameOf
    <3> QED BY <3>1, <3>2 DEF Injection, IsInjective
  <2>4. n <= attempts
    <3>1. /\ IsFiniteSet(1..attempts) /\ Cardinality(1..attempts) = attempts
          /\ Cardinality(1..n) = n
      BY <2>1, FS_Interval
    <3> HIDE DEF nameOf
    <3>2. Cardinality(1..n) <= Cardinality(1..attempts)
      BY <2>3, <3>1, FS_Injection
    <3> QED BY <2>1, <3>1, <3>2
  <2>5. scenes \in [1..MaxAttempts -> -1..MaxScenes]
    <3>1. scenes \in [1..MaxAttempts -> Int]
      BY DEF BaseInv, BaseShape
    <3> QED BY <3>1 DEF ScenesSeen
  <2>6. \A a \in Admins :
          jobs[a].pc \in {"idle", "frame", "model", "store", "commit", "discard", "note"}
    BY DEF BaseInv, BaseShape, Jobs
  <2>7. status.pc \in {"idle", "row", "file"}
    BY DEF BaseInv, BaseShape
  <2>8. pointer \in 0..MaxAttempts
    BY <2>1, <2>4
  <2> QED BY <2>1, <2>5, <2>6, <2>7, <2>8 DEF ScenesSeen, BaselineTypeOK
<1> QED BY <1>1, <1>2, <1>3, PTL
-------------------------------------------------------------------------------
(* ReviewTruth. *)

\* Whatever is written of a time is a time that was, and a latch is an alarm.
ReviewRest ==
    /\ instant \in 0..MaxInstant /\ running \in BOOLEAN /\ watched.latched \in 0..MaxFired
    /\ reviews \in [Segs -> TruthRows] /\ alarmRows \in [Fired -> TruthRows]
    /\ underway.tStart \in 0..MaxInstant /\ underway.last \in 0..MaxInstant
    /\ \A a \in Fired : alarmOf[a].at \in 0..MaxInstant

LEMMA RowsOfTimes ==
  ASSUME NEW row \in TruthRows, NEW t \in 0..MaxInstant
  PROVE  /\ Recovered(row) \in TruthRows
         /\ [row EXCEPT !.st = "closed", !.tLast = t, !.tEnd = t] \in TruthRows
         /\ [row EXCEPT !.tLast = LaterOf(@, t)] \in TruthRows
         /\ LaterOf(row.tLast, t) \in 0..MaxInstant
         /\ [st |-> "open", tStart |-> t, tLast |-> t, tEnd |-> 0] \in TruthRows
<1>1. LaterOf(row.tLast, t) \in 0..MaxInstant /\ 0 \in 0..MaxInstant
  BY ReviewConstants DEF LaterOf, TruthRows
<1> QED BY <1>1 DEF Recovered, TruthRows

\* A row that is replaced by another.
LEMMA RowReplaced ==
  ASSUME NEW S, NEW table \in [S -> TruthRows], NEW k, NEW row, k \in S => row \in TruthRows
  PROVE  [table EXCEPT ![k] = row] \in [S -> TruthRows]
  OBVIOUS

LEMMA SeeFrameRest ==
  ASSUME KeptInv, ReviewRest, NEW rezoned \in BOOLEAN,
         NEW where \in {"zone", "beside", "unseen", "gone"}, SeeFrame(rezoned, where)
  PROVE  ReviewRest'
<1>1. /\ underway \in Underways /\ issued.alarms \in 0..MaxFired /\ MaxFired \in Nat
      /\ alarmOf \in [Fired -> [review : Nat, at : Nat]] /\ instant \in 0..MaxInstant
      /\ UNCHANGED <<instant, running, reviews, alarmRows>>
  BY KeptFacts, ReviewConstants DEF SeeFrame, ReviewRest, database
<1>2. \/ watched'.latched \in {0, watched.latched}
      \/ watched'.latched = issued.alarms + 1 /\ issued.alarms < MaxFired
  BY DEF SeeFrame
<1>3. watched'.latched \in 0..MaxFired
  BY <1>1, <1>2 DEF ReviewRest
<1>4. \/ underway' = underway
      \/ underway' = [id |-> issued.segs + 1, tStart |-> instant, last |-> instant,
                      persisted |-> FALSE, retryAt |-> instant]
      \/ underway' = [underway EXCEPT !.last = instant]
  BY DEF SeeFrame
<1>5. underway'.tStart \in 0..MaxInstant /\ underway'.last \in 0..MaxInstant
  BY <1>1, <1>4 DEF ReviewRest, Underways
<1>6. alarmOf' = alarmOf
      \/ \E r : alarmOf' = [alarmOf EXCEPT ![issued.alarms + 1] = [review |-> r, at |-> instant]]
  BY DEF SeeFrame
<1>7. \A a \in Fired : alarmOf'[a].at \in 0..MaxInstant
  <2>1. CASE alarmOf' = alarmOf
    BY <2>1 DEF ReviewRest
  <2>2. ASSUME NEW r,
               alarmOf' = [alarmOf EXCEPT ![issued.alarms + 1] = [review |-> r, at |-> instant]]
        PROVE  \A a \in Fired : alarmOf'[a].at \in 0..MaxInstant
    <3> SUFFICES ASSUME NEW a \in Fired PROVE alarmOf'[a].at \in 0..MaxInstant
      OBVIOUS
    <3>1. alarmOf[a].at \in 0..MaxInstant
      BY DEF ReviewRest
    <3>2. alarmOf'[a] = IF a = issued.alarms + 1 THEN [review |-> r, at |-> instant]
                        ELSE alarmOf[a]
      BY <1>1, <2>2
    <3> QED BY <1>1, <3>1, <3>2
  <2> QED BY <1>6, <2>1, <2>2
<1> QED BY <1>1, <1>3, <1>5, <1>7 DEF ReviewRest

\* The calls of a frame: the memory is left, or the review let go of; a row is written.
LEMMA CallsRest ==
  ASSUME KeptInv, ReviewRest, NEW out \in Outcomes,
         ReleaseAlarm(out) \/ OpenSegment(out) \/ FlushAlarm(out) \/ UpdateSegment(out)
         \/ WriteAlarm(out) \/ CloseSegment(out)
  PROVE  ReviewRest'
<1>1. /\ underway \in Underways /\ instant \in 0..MaxInstant /\ NoReview.tStart = 0
      /\ NoReview.last = 0 /\ 0 \in 0..MaxInstant
      /\ \A r \in Segs : reviews[r] \in TruthRows
      /\ \A a \in Fired : alarmRows[a] \in TruthRows
      /\ underway.tStart \in 0..MaxInstant /\ underway.last \in 0..MaxInstant
  BY KeptFacts, ReviewConstants DEF ReviewRest, NoReview
<1>2. UNCHANGED <<instant, running, watched, alarmOf>>
  BY DEF ReleaseAlarm, OpenSegment, FlushAlarm, UpdateSegment, WriteAlarm, CloseSegment
<1>3. underway'.tStart \in 0..MaxInstant /\ underway'.last \in 0..MaxInstant
  <2>1. \/ underway' = underway \/ underway' = NoReview
        \/ underway' = [underway EXCEPT !.retryAt = instant + OpenRetry,
                                        !.persisted = (out = "done")]
    BY DEF ReleaseAlarm, OpenSegment, FlushAlarm, UpdateSegment, WriteAlarm, CloseSegment
  <2> QED BY <1>1, <2>1 DEF Underways
<1>4. reviews' \in [Segs -> TruthRows]
  <2>1. ASSUME NEW r, NEW row, r \in Segs => row \in TruthRows,
               reviews' = [reviews EXCEPT ![r] = row]
        PROVE  reviews' \in [Segs -> TruthRows]
    BY <2>1, RowReplaced DEF ReviewRest
  <2>2. CASE ReleaseAlarm(out) \/ FlushAlarm(out) \/ WriteAlarm(out)
    BY <2>2 DEF ReleaseAlarm, FlushAlarm, WriteAlarm, ReviewRest
  <2>3. CASE OpenSegment(out)
    <3> DEFINE row == [st |-> "open", tStart |-> underway.tStart, tLast |-> underway.tStart,
                       tEnd |-> 0]
    <3>1. reviews' = reviews \/ reviews' = [reviews EXCEPT ![underway.id] = row]
      BY <2>3 DEF OpenSegment
    <3>2. row \in TruthRows
      BY <1>1 DEF TruthRows
    <3> HIDE DEF row
    <3> QED BY <2>1, <3>1, <3>2 DEF ReviewRest
  <2>4. CASE UpdateSegment(out)
    <3> DEFINE row == [reviews[underway.id] EXCEPT !.tLast = LaterOf(@, instant)]
    <3>1. reviews' = reviews \/ reviews' = [reviews EXCEPT ![underway.id] = row]
      BY <2>4 DEF UpdateSegment
    <3>2. underway.id \in Segs => row \in TruthRows
      BY <1>1, RowsOfTimes
    <3> HIDE DEF row
    <3> QED BY <2>1, <3>1, <3>2 DEF ReviewRest
  <2>5. CASE CloseSegment(out)
    <3> DEFINE end == LaterOf(reviews[underway.id].tLast, underway.last)
               row == [reviews[underway.id] EXCEPT !.st = "closed", !.tLast = end, !.tEnd = end]
    <3>1. reviews' = reviews \/ reviews' = [reviews EXCEPT ![underway.id] = row]
      BY <2>5 DEF CloseSegment
    <3>2. underway.id \in Segs => end \in 0..MaxInstant
      BY <1>1, RowsOfTimes
    <3> HIDE DEF end
    <3>3. underway.id \in Segs => row \in TruthRows
      BY <1>1, <3>2, RowsOfTimes
    <3> HIDE DEF row
    <3> QED BY <2>1, <3>1, <3>3 DEF ReviewRest
  <2> QED BY <2>2, <2>3, <2>4, <2>5
<1>5. alarmRows' \in [Fired -> TruthRows]
  <2>1. ASSUME NEW a, NEW row, a \in Fired => row \in TruthRows,
               alarmRows' = [alarmRows EXCEPT ![a] = row]
        PROVE  alarmRows' \in [Fired -> TruthRows]
    BY <2>1, RowReplaced DEF ReviewRest
  <2>2. CASE OpenSegment(out) \/ UpdateSegment(out) \/ CloseSegment(out)
    BY <2>2 DEF OpenSegment, UpdateSegment, CloseSegment, ReviewRest
  <2>3. CASE ReleaseAlarm(out)
    <3> DEFINE a == frame.closing
               row == [alarmRows[a] EXCEPT !.st = "closed", !.tLast = instant, !.tEnd = instant]
    <3>1. alarmRows' = alarmRows \/ alarmRows' = [alarmRows EXCEPT ![a] = row]
      BY <2>3 DEF ReleaseAlarm
    <3>2. a \in Fired => row \in TruthRows
      BY <1>1, RowsOfTimes
    <3> HIDE DEF row
    <3> QED BY <2>1, <3>1, <3>2 DEF ReviewRest
  <2>4. ASSUME NEW a, WriteRow(a, out) PROVE alarmRows' \in [Fired -> TruthRows]
    <3> DEFINE row == [st |-> "open", tStart |-> alarmOf[a].at, tLast |-> alarmOf[a].at,
                       tEnd |-> 0]
    <3>1. alarmRows' = alarmRows \/ alarmRows' = [alarmRows EXCEPT ![a] = row]
      BY <2>4 DEF WriteRow
    <3>2. a \in Fired => row \in TruthRows
      BY <1>1 DEF ReviewRest, TruthRows
    <3> HIDE DEF row
    <3> QED BY <2>1, <3>1, <3>2 DEF ReviewRest
  <2>5. CASE FlushAlarm(out) \/ WriteAlarm(out)
    BY <2>4, <2>5 DEF FlushAlarm, WriteAlarm
  <2> QED BY <2>2, <2>3, <2>5
<1> QED BY <1>2, <1>3, <1>4, <1>5 DEF ReviewRest

LEMMA ReviewRestStep ==
  ASSUME KeptInv, ReviewRest, [ReviewNext]_reviewvars
  PROVE  ReviewRest'
<1>1. /\ \A r \in Segs : reviews[r] \in TruthRows /\ Recovered(reviews[r]) \in TruthRows
      /\ \A a \in Fired : alarmRows[a] \in TruthRows /\ Recovered(alarmRows[a]) \in TruthRows
      /\ 0 \in 0..MaxInstant /\ 0 \in 0..MaxFired
  <2>1. /\ \A r \in Segs : reviews[r] \in TruthRows
        /\ \A a \in Fired : alarmRows[a] \in TruthRows
    BY DEF ReviewRest
  <2>2. 0 \in 0..MaxInstant /\ 0 \in 0..MaxFired
    BY ReviewConstants
  <2> QED BY <2>1, <2>2, RowsOfTimes
<1>2. CASE UNCHANGED reviewvars
  BY <1>2 DEF reviewvars, ReviewRest
<1>3. CASE StartReviews
  <2>1. reviews' \in [Segs -> TruthRows] /\ alarmRows' \in [Fired -> TruthRows]
    BY <1>1, <1>3 DEF StartReviews
  <2>2. instant' \in 0..MaxInstant
    BY <1>3, ReviewConstants DEF StartReviews, ReviewRest
  <2> QED BY <1>3, <2>1, <2>2 DEF StartReviews, ReviewRest
<1>4. ASSUME NEW out \in Outcomes, FinalizeReviews(out) PROVE ReviewRest'
  <2>1. reviews' \in [Segs -> TruthRows] /\ alarmRows' \in [Fired -> TruthRows]
    BY <1>1, <1>4 DEF FinalizeReviews
  <2> QED BY <1>4, <2>1 DEF FinalizeReviews, ReviewRest
<1>5. CASE ReviewProcessEnds
  BY <1>1, <1>5 DEF ReviewProcessEnds, ReviewRest, database, NoReview, Outside
<1>6. CASE Elapse
  <2>1. instant' \in 0..MaxInstant
    BY <1>6, ReviewConstants DEF Elapse, ReviewRest
  <2> QED BY <1>6, <2>1 DEF Elapse, ReviewRest, database
<1> QED BY <1>2, <1>3, <1>4, <1>5, <1>6, SeeFrameRest, CallsRest DEF ReviewNext

LEMMA ReviewTypes == ReviewInit /\ [][ReviewNext]_reviewvars => []ReviewTypeOK
<1>1. ReviewInit => KeptInv /\ ReviewRest
  <2> SUFFICES ASSUME ReviewInit PROVE ReviewRest
    BY KeptStarts
  <2>1. NoTruth \in TruthRows /\ 0 \in 0..MaxInstant /\ 0 \in 0..MaxFired
    BY ReviewConstants DEF NoTruth, TruthRows
  <2> QED BY <2>1 DEF ReviewInit, ReviewRest, NoReview, Outside
<1>2. KeptInv /\ ReviewRest /\ [ReviewNext]_reviewvars => (KeptInv /\ ReviewRest)'
  BY StepKept, ReviewRestStep
<1>3. KeptInv /\ ReviewRest => ReviewTypeOK
  <2> SUFFICES ASSUME KeptInv, ReviewRest PROVE ReviewTypeOK
    OBVIOUS
  <2>1. deferred \subseteq Fired /\ frame.flushing \subseteq Fired
    BY DEF KeptInv, AlarmReason, Pending, Ours
  <2>2. frame.pc \in {"wait", "release", "open", "flush", "update", "write", "close"}
    BY DEF KeptInv, FramePlace
  <2>3. underway.id \in 0..MaxSegments
    BY KeptFacts DEF Underways
  <2> QED BY <2>1, <2>2, <2>3 DEF ReviewRest, ReviewTypeOK
<1> QED BY <1>1, <1>2, <1>3, PTL
-------------------------------------------------------------------------------
(* Recording. *)

LEMMA RecordingTypes == RecordingInit /\ [][RecordingNext]_recvars => []RecordingTypeOK
<1>1. RecordingInit => RecInv /\ time <= MaxTime
  BY RecordingBegin, RecordingAssumption DEF RecordingInit
<1>2. RecInv /\ time <= MaxTime /\ [RecordingNext]_recvars => (RecInv /\ time <= MaxTime)'
  <2> SUFFICES ASSUME RecInv, time <= MaxTime, [RecordingNext]_recvars PROVE time' <= MaxTime
    BY RecStep, RecStutter
  <2>1. CASE Passes
    BY <2>1, RecFacts, RecordingAssumption DEF Passes
  <2>2. CASE UNCHANGED recvars
    BY <2>2 DEF recvars
  <2>3. CASE RecordingNext /\ ~Passes
    <3>1. time' = time
      BY <2>3 DEF RecordingNext, Maintain, RecorderFails, Protect, BeginCapacity, EndCapacity,
         ListReviews, Export, Cut, Register, ExportFails, RecorderCrash, FfmpegFails, CleanNext,
         ReadClip, HarmClip
    <3> QED BY <3>1
  <2> QED BY <2>1, <2>2, <2>3
<1>3. RecInv /\ time <= MaxTime => RecordingTypeOK
  <2> SUFFICES ASSUME RecInv, time <= MaxTime PROVE RecordingTypeOK
    OBVIOUS
  <2>1. time \in Nat /\ MaxTime \in Nat /\ time <= MaxTime
    BY RecFacts, RecordingAssumption
  <2>2. \A s \in segments : s.start \in 0..MaxTime /\ s.mtime \in s.start..MaxTime
    BY <2>1, SegmentFacts
  <2>3. \A r \in Reviews : clips[r].row \in {"none", "available", "missing", "corrupt"}
    BY DEF RecInv, RecShape, Clips
  <2>4. recorder.proc \in {"none", "runs", "hangs", "dead"}
    BY DEF RecInv, RecShape
  <2>5. minder.pc \in {"wait", "protect", "age", "capacity", "reviews", "export", "cut", "register"}
    BY DEF RecInv, RecShape
  <2> QED BY <2>1, <2>2, <2>3, <2>4, <2>5 DEF RecordingTypeOK
<1> QED BY <1>1, <1>2, <1>3, PTL
-------------------------------------------------------------------------------
(* MaterialsStore. *)

LEMMA MatTypes == MatInit /\ [][MatNext]_matvars => []MatTypeOK
<1>1. MatInit => MatInv
  BY MatInitial
<1>2. MatInv /\ [MatNext]_matvars => MatInv'
  BY MatStep
<1>3. MatInv => MatTypeOK
  <2> SUFFICES ASSUME MatInv PROVE MatTypeOK
    OBVIOUS
  <2>1. MatShape /\ WellMade(pkg, packs, lease) /\ MaxPkgs \in Nat /\ packs \in 0..MaxPkgs
    BY MaterialsAssumption DEF MatInv, MatShape
  <2>2. ASSUME NEW p \in Pkgs
        PROVE  /\ pkg[p].st \in {"gone", "waiting", "consumable", "fallback"}
               /\ pkg[p].why \in {"none", "timeout", "verdict"}
               /\ pkg[p].res \in {"none"} \cup Verdicts
               /\ {pkg[p].prev, pkg[p].nxt} \subseteq 0..packs
    <3>1. pkg[p] \in Packages /\ pkg[p].prev <= packs /\ pkg[p].nxt <= packs
      BY <2>1 DEF WellMade, PackageFits
    <3>2. pkg[p].prev \in Nat /\ pkg[p].nxt \in Nat
      BY <3>1 DEF Packages, Pkgs
    <3>3. pkg[p].prev \in 0..packs /\ pkg[p].nxt \in 0..packs
      BY <2>1, <3>1, <3>2
    <3> QED BY <3>1, <3>3 DEF Packages
  <2>3. \A p \in Pkgs : lease[p] \in {"none", "leased", "expired"} /\ alive[p] \in 0..3
    BY <2>1 DEF MatShape, LeaseStates
  <2>4. account.refs \in [Pkgs -> Nat] /\ account.bytes \in 0..StoreCap
    <3> DEFINE onShow == {f \in Pkgs : account.refs[f] > 0}
    <3>1. account.refs \in [Pkgs -> Nat] /\ account.bytes = Cardinality(onShow)
          /\ account.bytes <= StoreCap
      BY DEF MatInv, Exact, PkgAccounts
    <3>2. IsFiniteSet(onShow)
      BY PkgsFinite, FS_Subset
    <3> HIDE DEF onShow
    <3>3. Cardinality(onShow) \in Nat
      BY <3>2, FS_CardinalityType
    <3> QED BY <3>1, <3>3, MaterialsAssumption
  <2>5. ASSUME NEW c \in PkgCams
        PROVE  leaseCount[c].leased \in Nat /\ leaseCount[c].expired \in Nat
    <3>1. \A st : Cardinality(LeasesOf(pkg, lease, c, st)) \in Nat
      <4> TAKE st
      <4>1. IsFiniteSet(LeasesOf(pkg, lease, c, st))
        BY PkgsFinite, FS_Subset DEF LeasesOf
      <4> QED BY <4>1, FS_CardinalityType
    <3> QED BY <3>1 DEF MatInv, LeasesCounted
  <2>6. billed \in Nat /\ dead \in Nat
    <3>1. Cardinality(LiveArrays) \in Nat
      BY <2>1, LiveFinite, FS_CardinalityType DEF LiveArrays, MatShape
    <3> QED BY <2>1, <3>1 DEF MatInv, CopiesPaid, MatShape
  <2> QED BY <2>1, <2>2, <2>3, <2>4, <2>5, <2>6 DEF MatShape, MatTypeOK
<1> QED BY <1>1, <1>2, <1>3, PTL
-------------------------------------------------------------------------------
(* The parts beside one another. *)

\* A step of the whole is a step of a part or leaves it: what is true of every behaviour of
\* the part is true of it here.
LEMMA EachPartMoves ==
  [PartsNext]_partsvars =>
    /\ [HNext]_hvars
    /\ [PoolNext]_pvars
    /\ [ANext]_avars
    /\ [MNext]_mvars
    /\ [BNext]_bvars
    /\ [CropNext]_cropvars
    /\ [ProgressNext]_eprogvars
    /\ [FusionNext]_fusionvars
    /\ [UnderstandingNext]_storevars
    /\ [OpsNext]_opsvars
    /\ [SessionNext]_sessionvars
    /\ [HubNext]_hubvars
    /\ [UpdaterNext]_updatervars
    /\ [FramesNext]_framevars
    /\ [BaselineNext]_baselinevars
    /\ [ReviewNext]_reviewvars
    /\ [RecordingNext]_recvars
    /\ [MatNext]_matvars
  BY DEF PartsNext, partsvars

LEMMA EachPartBegins ==
  PartsInit =>
    /\ HInit
    /\ PoolInit
    /\ AInit
    /\ MInit
    /\ BInit
    /\ CropInit
    /\ ProgressInit
    /\ FusionInit
    /\ UnderstandingInit
    /\ OpsInit
    /\ SessionInit
    /\ HubInit
    /\ UpdaterInit
    /\ FramesInit
    /\ BaselineInit
    /\ ReviewInit
    /\ RecordingInit
    /\ MatInit
  BY DEF PartsInit

\* The part that moves.
Chosen ==
    subject \in {"harvest", "pool", "admission", "l3model", "budget", "crops", "progress",
                 "fusion", "store", "operations", "desktop", "hub", "updater", "frames",
                 "baseline", "reviews", "recording", "materials"}

\* Every part, whichever moves, has the types its module says, for every value of the
\* constants (the types the run checks, of all eighteen parts).
THEOREM PartsTypeSafe == PartsSpec => []PartsTypeOK
<1>1. PartsInit => Chosen
  BY DEF PartsInit, Chosen
<1>2. Chosen /\ [PartsNext]_partsvars => Chosen'
  BY DEF PartsNext, partsvars, Chosen
<1>3. PartsSpec => []HTypeOK
  BY EachPartBegins, EachPartMoves, HarvestTypes, PTL DEF PartsSpec
<1>4. PartsSpec => []PoolTypeOK
  BY EachPartBegins, EachPartMoves, PoolTypes, PTL DEF PartsSpec
<1>5. PartsSpec => []ATypeOK
  BY EachPartBegins, EachPartMoves, SceneTypes, PTL DEF PartsSpec
<1>6. PartsSpec => []MTypeOK
  BY EachPartBegins, EachPartMoves, ModelTypes, PTL DEF PartsSpec
<1>7. PartsSpec => []BTypeOK
  BY EachPartBegins, EachPartMoves, BudgetTypes, PTL DEF PartsSpec
<1>8. PartsSpec => []CropTypeOK
  BY EachPartBegins, EachPartMoves, CropTypes, PTL DEF PartsSpec
<1>9. PartsSpec => []ProgressTypeOK
  BY EachPartBegins, EachPartMoves, ProgressTypes, PTL DEF PartsSpec
<1>10. PartsSpec => []FusionTypeOK
  BY EachPartBegins, EachPartMoves, FusionTypes, PTL DEF PartsSpec
<1>11. PartsSpec => []UnderstandingTypeOK
  BY EachPartBegins, EachPartMoves, StoreTypes, PTL DEF PartsSpec
<1>12. PartsSpec => []OpsTypeOK
  BY EachPartBegins, EachPartMoves, OpsTypes, PTL DEF PartsSpec
<1>13. PartsSpec => []SessionTypeOK
  BY EachPartBegins, EachPartMoves, SessionTypes, PTL DEF PartsSpec
<1>14. PartsSpec => []HubTypeOK
  BY EachPartBegins, EachPartMoves, HubTypes, PTL DEF PartsSpec
<1>15. PartsSpec => []UpdaterTypeOK
  BY EachPartBegins, EachPartMoves, UpdaterTypes, PTL DEF PartsSpec
<1>16. PartsSpec => []FramesTypeOK
  BY EachPartBegins, EachPartMoves, FrameTypes, PTL DEF PartsSpec
<1>17. PartsSpec => []BaselineTypeOK
  BY EachPartBegins, EachPartMoves, BaselineTypes, PTL DEF PartsSpec
<1>18. PartsSpec => []ReviewTypeOK
  BY EachPartBegins, EachPartMoves, ReviewTypes, PTL DEF PartsSpec
<1>19. PartsSpec => []RecordingTypeOK
  BY EachPartBegins, EachPartMoves, RecordingTypes, PTL DEF PartsSpec
<1>20. PartsSpec => []MatTypeOK
  BY EachPartBegins, EachPartMoves, MatTypes, PTL DEF PartsSpec
<1>21. Chosen
      /\ HTypeOK
      /\ PoolTypeOK
      /\ ATypeOK
      /\ MTypeOK
      /\ BTypeOK
      /\ CropTypeOK
      /\ ProgressTypeOK
      /\ FusionTypeOK
      /\ UnderstandingTypeOK
      /\ OpsTypeOK
      /\ SessionTypeOK
      /\ HubTypeOK
      /\ UpdaterTypeOK
      /\ FramesTypeOK
      /\ BaselineTypeOK
      /\ ReviewTypeOK
      /\ RecordingTypeOK
      /\ MatTypeOK
        => PartsTypeOK
  BY DEF PartsTypeOK, Chosen
<1> QED BY <1>1, <1>2, <1>3, <1>4, <1>5, <1>6, <1>7, <1>8, <1>9, <1>10,
           <1>11, <1>12, <1>13, <1>14, <1>15, <1>16, <1>17, <1>18, <1>19, <1>20, <1>21, PTL DEF PartsSpec
================================================================================
