---------------------------- MODULE L2RuntimeProofs ----------------------------
(***************************************************************************)
(* Theorems of L2Runtime: what its state may hold, who answers for a        *)
(* pending branch, what the records rest on and what stop() leaves behind, *)
(* for any cameras, branches, capacity of the queue and number of windows. *)
(*                                                                         *)
(* The invariants rest on each other: a branch has somebody in whose hands *)
(* it is (Owned) because of what each thread may hold where it stands      *)
(* (Hands), what the queue holds (QueueKept) and who closes a window that   *)
(* was marked (Marked); nothing is left after stop() because each window   *)
(* on the books when stop() lists them, or put there later, has somebody    *)
(* who takes it off (Swept) and each lease a line or a window it is for     *)
(* (LeaseKept).                                                            *)
(***************************************************************************)
EXTENDS L2Runtime, TLAPS, FiniteSetTheorems, SequenceTheorems

(***************************************************************************)
(* The inductive invariant.                                                *)
(***************************************************************************)
WinStates == {"unused", "held", "producing", "sealed", "gone"}
BranchStates == {"none", "pending"} \cup Terminals
Entries == [cam : L2Cams, mats : SUBSET Nat, id : Nat, st : WinStates, done : BOOLEAN,
            br : [Branches -> BranchStates]]
Places == [w : 0..MaxWin, b : Branches \cup {"none"}]
L2Steps == {"idle", "turn", "register", "process", "check", "insert", "evict", "expire"}
L3Steps == {"idle", "gate", "model", "publish", "grant", "append", "fuse", "authorize"}
StopSteps == {"none", "commit", "join", "drain", "windows", "closing", "closed"}

\* The shape of each variable.
WindowsOK == win \in [Wins -> Entries] /\ frozen \subseteq Wins /\ made \in 0..MaxWin
QueueOK == queue \in [L2Cams -> Seq(L2Tasks)] /\ rotor \in L2Cams
AuthorityOK ==
    /\ bounds \in L2Bounds
    /\ registry \in [L2Cams -> Nat] /\ epoch \in Nat
    /\ stopping \in BOOLEAN /\ committed \in BOOLEAN
    /\ \A c \in L2Cams : registry[c] \in 1..(bounds.changes[c] + 1)
ThreadsOK ==
    /\ l2 \in [pc : L2Steps, at : Places, victims : SUBSET L2Tasks]
    /\ l3 \in [pc : L3Steps, at : L2Tasks \cup {NoTask}, good : BOOLEAN, epoch : Nat]
    /\ stopper \in [pc : StopSteps, tasks : SUBSET L2Tasks, keys : SUBSET Wins, at : 0..MaxWin]
PublishedOK ==
    history \subseteq [w : Wins, b : Branches, good : BOOLEAN] /\ versions \subseteq L2Tasks
StoreOK ==
    /\ mats \in [L2Cams -> Seq(Nat)] /\ taken \in [L2Cams -> Nat]
    /\ waiting \in [L2Cams -> Seq(Nat)] /\ leased \in [L2Cams -> SUBSET Nat]
    /\ cursor \in {0} \cup L2Cams
    /\ \A c \in L2Cams : /\ mats[c] \in Seq(1..(bounds.changes[c] + 1))
                         /\ taken[c] <= Len(mats[c]) /\ Len(waiting[c]) <= 2
                         /\ ToSet(waiting[c]) \subseteq 1..Len(mats[c])
    /\ \A w \in Wins : win[w].mats \subseteq 1..Len(mats[win[w].cam])
Shape == WindowsOK /\ QueueOK /\ AuthorityOK /\ ThreadsOK /\ PublishedOK

\* What a thread has in hand where it stands.
L2Hand ==
    /\ l2.pc \notin {"idle", "turn"} => l2.at.w \in 1..made
    /\ l2.pc \in {"check", "insert"} => l2.at.b \in Branches
    /\ l2.pc # "evict" => l2.victims = {}
    /\ l2.pc = "expire" => win[l2.at.w].done
L3Hand ==
    /\ l3.pc # "idle" => l3.at \in L2Tasks
    /\ l3.pc \in {"idle", "gate", "model", "grant", "fuse", "authorize"} => l3.good
    /\ l3.pc \in {"append", "fuse", "authorize"} /\ l3.good => win[l3.at.w].br[l3.at.b] = "ok"
    /\ l3.pc \in {"publish", "append"} /\ ~l3.good => win[l3.at.w].br[l3.at.b] = "failed"
StopHand ==
    /\ stopping <=> stopper.pc # "none"
    /\ committed <=> stopper.pc \notin {"none", "commit"}
    /\ stopper.pc # "drain" => stopper.tasks = {}
    /\ stopper.pc \notin {"windows", "closing"} => stopper.keys = {}
    /\ stopper.pc = "closing" => stopper.at \in Wins /\ win[stopper.at].done
Hands == L2Hand /\ L3Hand /\ StopHand

\* The queue holds tasks of windows made, at their camera, no more than it may,
\* and nothing once stop() has emptied it.
QueueKept ==
    /\ \A c \in L2Cams : \A t \in ToSet(queue[c]) : t.w <= made /\ CamOf(t) = c
    /\ Cardinality(Queued) <= QueueCap
    /\ stopper.pc \in {"drain", "windows", "closing", "closed"} => Queued = {}

\* A window leaves the books settled, and its camera with it.
Blank(w) == ~win[w].done /\ \A b \in Branches : win[w].br[b] = "none"
BooksKept ==
    /\ \A w \in Wins : w > made => win[w].st = "unused"
    /\ \A w \in Wins : win[w].st \in {"unused", "held"} => Blank(w)
    /\ \A w \in Wins : win[w].st = "held" <=> l2.pc = "register" /\ l2.at.w = w
    /\ \A w \in Wins : ~Listed(w) => \A b \in Branches : win[w].br[b] # "pending"
    /\ \A w \in frozen : Listed(w) \/ win[w].st = "held"

\* A window found too old is being closed by the thread that marked it.
Closer(w) == \/ l2.pc = "expire" /\ l2.at.w = w
             \/ stopper.pc = "closing" /\ stopper.at = w
Marked == \A w \in Wins : Listed(w) /\ win[w].done => Closer(w)

\* A window that came on the books after stop() had listed them: none of its
\* branches gets past the check of stop, so the end of its production settles it.
Late(w) ==
    /\ l2.pc \in {"process", "check"} /\ l2.at.w = w /\ ~win[w].done
    /\ \A b \in Branches : win[w].br[b] = "pending" => l2.pc = "check" /\ l2.at.b = b
Swept ==
    stopper.pc \in {"windows", "closing", "closed"} =>
        \A w \in Wins : Listed(w) => w \in stopper.keys \/ Closer(w) \/ Late(w)

\* A lease is of a material that waits, or of the window the L2 thread is at.
InWork == {"register", "process", "check", "insert", "evict"}
LeaseKept ==
    /\ \A c \in L2Cams : \A n \in leased[c] :
         n \in ToSet(waiting[c])
           \/ (l2.pc \in InWork /\ win[l2.at.w].cam = c /\ n \in win[l2.at.w].mats)
    /\ stopper.pc = "closed" => \A c \in L2Cams : waiting[c] = <<>>

L2Inv == Shape /\ StoreOK /\ Hands /\ QueueKept /\ BooksKept /\ Marked /\ Swept
           /\ LeaseKept /\ Owned /\ HistoryHonest
-------------------------------------------------------------------------------
(* Operators. *)

\* The place of an element among those of a finite set of numbers: places are
\* distinct, in order, and none is left out.
Rank(in, i) == Cardinality({j \in in : j <= i})
LEMMA RankFacts ==
  ASSUME NEW in \in SUBSET Nat, IsFiniteSet(in)
  PROVE  /\ Cardinality(in) \in Nat
         /\ \A i \in in : Rank(in, i) \in 1..Cardinality(in)
         /\ \A i, j \in in : i < j => Rank(in, i) < Rank(in, j)
         /\ \A i, j \in in : Rank(in, i) = Rank(in, j) => i = j
         /\ \A k \in 1..Cardinality(in) : \E i \in in : Rank(in, i) = k
<1> DEFINE upto(i) == {j \in in : j <= i}
           place(i) == Cardinality(upto(i))
           m == Cardinality(in)
<1>1. IsFiniteSet(in) /\ m \in Nat /\ in \subseteq Nat
  BY FS_CardinalityType
<1>2. ASSUME NEW i \in in PROVE IsFiniteSet(upto(i)) /\ place(i) \in 1..m
  <2>1. upto(i) \in SUBSET in /\ {i} \in SUBSET upto(i)
    BY <1>1
  <2>2. IsFiniteSet(upto(i)) /\ place(i) <= m
    BY <1>1, <2>1, FS_Subset
  <2>3. Cardinality({i}) = 1 /\ Cardinality({i}) <= place(i)
    BY <2>1, <2>2, FS_Subset, FS_Singleton
  <2>4. place(i) \in Nat
    BY <2>2, FS_CardinalityType
  <2> HIDE DEF place, m
  <2> QED BY <2>2, <2>3, <2>4, <1>1
<1>3. ASSUME NEW i \in in, NEW j \in in, i < j PROVE place(i) < place(j)
  <2>1. upto(i) \cup {j} \in SUBSET upto(j) /\ j \notin upto(i)
    <3>1. i \in Nat /\ j \in Nat /\ \A k \in in : k \in Nat
      BY <1>1
    <3>2. \A k \in in : k <= i => k <= j
      BY <3>1, <1>3
    <3>3. j <= j /\ ~(j <= i)
      BY <3>1, <1>3
    <3> QED BY <3>2, <3>3
  <2>2. Cardinality(upto(i) \cup {j}) = place(i) + 1
    BY <1>2, <2>1, FS_AddElement
  <2>3. Cardinality(upto(i) \cup {j}) <= place(j)
    BY <1>2, <2>1, FS_Subset
  <2>4. place(i) \in Nat /\ place(j) \in Nat
    BY <1>2, FS_CardinalityType
  <2> HIDE DEF place
  <2> QED BY <2>2, <2>3, <2>4
<1>4. ASSUME NEW i \in in, NEW j \in in, place(i) = place(j) PROVE i = j
  <2>1. place(i) \in Nat /\ place(j) \in Nat
    BY <1>2, FS_CardinalityType
  <2>2. i \in Nat /\ j \in Nat
    BY <1>1
  <2> HIDE DEF place
  <2>3. CASE i < j
    BY <2>1, <2>3, <1>3, <1>4
  <2>4. CASE j < i
    BY <2>1, <2>4, <1>3, <1>4
  <2> QED BY <2>2, <2>3, <2>4
<1>5. ASSUME NEW k \in 1..m PROVE \E i \in in : place(i) = k
  <2> SUFFICES ASSUME \A i \in in : place(i) # k PROVE FALSE
    OBVIOUS
  <2> DEFINE rest == (1..m) \ {k}
             f == [i \in in |-> place(i)]
  <2>1. IsFiniteSet(rest) /\ Cardinality(rest) = m - 1
    <3>1. IsFiniteSet(1..m) /\ Cardinality(1..m) = m
      BY <1>1, FS_Interval
    <3> QED BY <3>1, FS_RemoveElement
  <2>2. f \in [in -> rest]
    BY <1>2
  <2> HIDE DEF rest
  <2>3. \E x, y \in in : x # y /\ f[x] = f[y]
    <3>1. Cardinality(rest) < m
      BY <1>1, <2>1
    <3> HIDE DEF f
    <3> QED BY <1>1, <2>1, <2>2, <3>1, FS_PigeonHole
  <2> QED BY <2>3, <1>4
<1> QED BY <1>1, <1>2, <1>3, <1>4, <1>5 DEF Rank

\* A set of numbers that is not empty has a least one.
LEMMA LeastOne ==
  ASSUME NEW S \in SUBSET Nat, IsFiniteSet(S), S # {}
  PROVE  \E o \in S : \A p \in S : o <= p
<1>1. Cardinality(S) \in Nat /\ Cardinality(S) # 0
  BY FS_CardinalityType, FS_EmptySet
<1>2. PICK o \in S : Rank(S, o) = 1
  BY <1>1, RankFacts
<1>3. ASSUME NEW p \in S, p < o PROVE FALSE
  <2>1. Rank(S, p) < 1 /\ Rank(S, p) \in 1..Cardinality(S)
    BY <1>2, <1>3, RankFacts
  <2> QED BY <1>1, <2>1
<1> QED BY <1>2, <1>3

\* What is kept of a line is the part in the set, and no longer than the line.
LEMMA KeptFacts ==
  ASSUME NEW T, NEW line \in Seq(T), NEW S
  PROVE  /\ Kept(line, S) \in Seq(T)
         /\ ToSet(Kept(line, S)) = ToSet(line) \cap S
         /\ Len(Kept(line, S)) <= Len(line)
<1> DEFINE in == {i \in DOMAIN line : line[i] \in S}
           upto(i) == {j \in in : j <= i}
           place(i) == Cardinality(upto(i))
           m == Cardinality(in)
           at(k) == CHOOSE i \in in : place(i) = k
<1>1. in \subseteq 1..Len(line) /\ IsFiniteSet(in) /\ m \in Nat /\ m <= Len(line)
  <2>1. IsFiniteSet(1..Len(line)) /\ Cardinality(1..Len(line)) = Len(line)
    <3>1. Len(line) \in Nat
      OBVIOUS
    <3> QED BY <3>1, FS_Interval
  <2>2. in \in SUBSET (1..Len(line))
    OBVIOUS
  <2> QED BY <2>1, <2>2, FS_Subset, FS_CardinalityType
<1>2. \A i \in in : place(i) \in 1..m /\ \A j \in in : place(i) = place(j) => i = j
  <2>1. in \in SUBSET Nat
    BY <1>1
  <2> QED BY <1>1, <2>1, RankFacts DEF Rank
<1>3. \A k \in 1..m : \E i \in in : place(i) = k
  <2>1. in \in SUBSET Nat
    BY <1>1
  <2> QED BY <1>1, <2>1, RankFacts DEF Rank
<1>6. ASSUME NEW k \in 1..m PROVE at(k) \in in /\ place(at(k)) = k
  BY <1>3
<1>7. ASSUME NEW i \in in PROVE place(i) \in 1..m /\ at(place(i)) = i
  BY <1>2, <1>6
<1>8. Kept(line, S) = [k \in 1..m |-> line[at(k)]]
  BY DEF Kept
<1> HIDE DEF m, at, place
<1>9. Kept(line, S) \in Seq(T) /\ Len(Kept(line, S)) = m
  BY <1>1, <1>6, <1>8
<1>10. ToSet(Kept(line, S)) = ToSet(line) \cap S
  <2>1. ToSet(Kept(line, S)) = {line[at(k)] : k \in 1..m}
    BY <1>8 DEF ToSet
  <2>2. ASSUME NEW x \in ToSet(line) \cap S PROVE x \in {line[at(k)] : k \in 1..m}
    <3>1. PICK i \in in : x = line[i]
      BY DEF ToSet
    <3> QED BY <3>1, <1>7
  <2>3. ASSUME NEW k \in 1..m PROVE line[at(k)] \in ToSet(line) \cap S
    BY <1>6 DEF ToSet
  <2> QED BY <2>1, <2>2, <2>3
<1> QED BY <1>1, <1>9, <1>10

\* A line and its elements.
LEMMA LineFacts ==
  ASSUME NEW T, NEW line \in Seq(T)
  PROVE  /\ ToSet(line) \subseteq T
         /\ line \in Seq(ToSet(line))
         /\ \A i \in 1..Len(line) : line[i] \in ToSet(line)
         /\ line # <<>> => /\ Head(line) \in ToSet(line)
                           /\ Tail(line) \in Seq(T)
                           /\ ToSet(line) = {Head(line)} \cup ToSet(Tail(line))
<1>1. \A i \in 1..Len(line) : line[i] \in T
  BY ElementOfSeq
<1>2. \A x \in ToSet(line) : \E i \in 1..Len(line) : x = line[i]
  BY DEF ToSet
<1>3. \A i \in 1..Len(line) : line[i] \in ToSet(line)
  BY DEF ToSet
<1>4. line \in Seq(ToSet(line))
  BY <1>3, IsASeq
<1>5. ASSUME line # <<>>
      PROVE  /\ Head(line) \in ToSet(line) /\ Tail(line) \in Seq(T)
             /\ ToSet(line) = {Head(line)} \cup ToSet(Tail(line))
  <2>1. /\ Head(line) = line[1] /\ Len(line) \in Nat \ {0}
        /\ Tail(line) \in Seq(T) /\ Len(Tail(line)) = Len(line) - 1
        /\ \A i \in 1..Len(Tail(line)) : Tail(line)[i] = line[i + 1]
    BY <1>5, HeadTailProperties
  <2>2. \A i \in 1..Len(line) : i = 1 \/ (i - 1 \in 1..Len(Tail(line)) /\ Tail(line)[i - 1] = line[i])
    BY <2>1
  <2>3. \A x : x \in ToSet(Tail(line)) <=> \E i \in 1..Len(Tail(line)) : x = Tail(line)[i]
    <3> DEFINE tl == Tail(line)
    <3>1. DOMAIN tl = 1..Len(tl)
      BY <2>1, LenProperties
    <3> HIDE DEF tl
    <3>2. \A x : x \in ToSet(tl) <=> \E i \in 1..Len(tl) : x = tl[i]
      BY <3>1 DEF ToSet
    <3> QED BY <3>2 DEF tl
  <2>4. \A i \in 1..Len(Tail(line)) : i + 1 \in 1..Len(line)
    BY <2>1
  <2>5. 1 \in 1..Len(line)
    BY <2>1
  <2>6. ToSet(line) \subseteq {Head(line)} \cup ToSet(Tail(line))
    <3> SUFFICES ASSUME NEW x \in ToSet(line), x # Head(line)
                 PROVE  x \in ToSet(Tail(line))
      OBVIOUS
    <3>1. PICK i \in 1..Len(line) : x = line[i]
      BY <1>2
    <3>2. i - 1 \in 1..Len(Tail(line)) /\ Tail(line)[i - 1] = x
      BY <2>1, <2>2, <3>1
    <3> QED BY <2>3, <3>2
  <2>7. ToSet(Tail(line)) \subseteq ToSet(line)
    BY <1>3, <2>1, <2>3, <2>4
  <2> QED BY <1>3, <2>1, <2>5, <2>6, <2>7
<1> QED BY <1>1, <1>2, <1>3, <1>4, <1>5

LEMMA AppendFacts ==
  ASSUME NEW T, NEW line \in Seq(T), NEW x \in T
  PROVE  Append(line, x) \in Seq(T) /\ ToSet(Append(line, x)) = ToSet(line) \cup {x}
<1> DEFINE new == Append(line, x)
<1>1. /\ new \in Seq(T) /\ Len(new) = Len(line) + 1 /\ Len(line) \in Nat
      /\ \A i \in 1..Len(line) : new[i] = line[i]
      /\ new[Len(line) + 1] = x
  BY AppendProperties
<1> HIDE DEF new
<1>2. \A y : y \in ToSet(new) <=> \E i \in 1..Len(line) + 1 : y = new[i]
  BY <1>1 DEF ToSet
<1>3. \A y : y \in ToSet(line) <=> \E i \in 1..Len(line) : y = line[i]
  BY DEF ToSet
<1>4. \A i \in 1..Len(line) + 1 : i \in 1..Len(line) \/ i = Len(line) + 1
  BY <1>1
<1>5. ToSet(new) \subseteq ToSet(line) \cup {x}
  BY <1>1, <1>2, <1>3, <1>4
<1>6. ToSet(line) \cup {x} \subseteq ToSet(new)
  <2>1. \A i \in 1..Len(line) : i \in 1..Len(line) + 1
    BY <1>1
  <2>2. Len(line) + 1 \in 1..Len(line) + 1
    BY <1>1
  <2> QED BY <1>1, <1>2, <1>3, <2>1, <2>2
<1> QED BY <1>1, <1>5, <1>6 DEF new

\* A waiting line keeps its start and the latest: two at most.
LEMMA AbsorbedFacts ==
  ASSUME NEW T, NEW line \in Seq(T)
  PROVE  /\ Absorbed(line) \in Seq(T) /\ Len(Absorbed(line)) <= 2
         /\ ToSet(Absorbed(line)) \subseteq ToSet(line)
<1>1. CASE Len(line) <= 2
  BY <1>1 DEF Absorbed
<1>2. CASE ~(Len(line) <= 2)
  <2>1. Absorbed(line) = <<Head(line), line[Len(line)]>> /\ Head(line) = line[1]
    BY <1>2 DEF Absorbed
  <2>2. line[1] \in T /\ line[Len(line)] \in T /\ line[1] \in ToSet(line)
          /\ line[Len(line)] \in ToSet(line)
    BY <1>2, LineFacts
  <2> QED BY <2>1, <2>2 DEF ToSet
<1> QED BY <1>1, <1>2

\* What the scheduler offers, or leaves in the line, are materials of the camera.
LEMMA OfferFacts ==
  ASSUME StoreOK, NEW c \in L2Cams, NEW dead
  PROVE  /\ Fresh(c) \in Seq(1..Len(mats[c]))
         /\ Harvested(c, dead) \in Seq(1..Len(mats[c])) /\ Len(Harvested(c, dead)) <= 2
         /\ Offer(c, dead) \in Seq(1..Len(mats[c]))
         /\ TakenBy(c, dead) \in 0..Len(mats[c])
<1> DEFINE N == 1..Len(mats[c])
<1>1. /\ mats[c] \in Seq(Nat) /\ Len(mats[c]) \in Nat /\ taken[c] \in Nat
      /\ taken[c] <= Len(mats[c]) /\ waiting[c] \in Seq(Nat) /\ ToSet(waiting[c]) \subseteq N
  BY DEF StoreOK
<1>2. waiting[c] \in Seq(N)
  BY <1>1, LineFacts
<1>3. Fresh(c) \in Seq(N)
  <2> DEFINE n == Len(mats[c]) - taken[c]
  <2>1. n \in Nat /\ \A i \in 1..n : taken[c] + i \in N
    BY <1>1
  <2> HIDE DEF n, N
  <2>2. [i \in 1..n |-> taken[c] + i] \in Seq(N)
    BY <2>1
  <2> QED BY <2>2 DEF Fresh, n
<1>4. Live(c, Fresh(c), dead) \in Seq(N) /\ Live(c, waiting[c], dead) \in Seq(N)
  BY <1>2, <1>3, KeptFacts DEF Live
<1> HIDE DEF N
<1>5. Harvested(c, dead) \in Seq(N) /\ Len(Harvested(c, dead)) <= 2
  <2>1. waiting[c] \o Live(c, Fresh(c), dead) \in Seq(N)
    BY <1>2, <1>4
  <2> QED BY <2>1, AbsorbedFacts DEF Harvested
<1>6. Offer(c, dead) \in Seq(N)
  <2> DEFINE alive == Live(c, Fresh(c), dead)
  <2>1. ~(Len(alive) <= 2) => SubSeq(alive, 1, 2) \in Seq(N)
    BY <1>4
  <2> QED BY <1>4, <2>1 DEF Offer
<1>7. TakenBy(c, dead) \in 0..Len(mats[c])
  <2>1. Len(Offer(c, dead)) = 2 => Offer(c, dead)[2] \in N
    BY <1>6
  <2> QED BY <1>1, <2>1 DEF TakenBy, N
<1> QED BY <1>3, <1>5, <1>6, <1>7 DEF N

\* The rotation has one first camera.
LEMMA RotationFacts ==
  ASSUME cursor \in {0} \cup L2Cams, NEW c \in L2Cams, NEW d \in L2Cams,
         TurnOf(c) <= TurnOf(d), TurnOf(d) <= TurnOf(c)
  PROVE  c = d
<1>1. /\ Cardinality(L2Cams) \in Nat /\ c \in 1..Cardinality(L2Cams)
      /\ d \in 1..Cardinality(L2Cams) /\ cursor \in 0..Cardinality(L2Cams)
  BY L2Assumption, FS_CardinalityType
<1> QED BY <1>1 DEF TurnOf

\* The queue, and what leaves it when it is full.
LEMMA QueueFinite ==
  ASSUME QueueOK
  PROVE  /\ Queued \subseteq L2Tasks /\ IsFiniteSet(Queued) /\ Cardinality(Queued) \in Nat
         /\ \A c \in L2Cams : ToSet(queue[c]) \subseteq Queued
<1>1. Queued \subseteq L2Tasks
  BY LineFacts DEF Queued, QueueOK
<1>2. \A c \in L2Cams : ToSet(queue[c]) \subseteq Queued
  BY DEF Queued
<1>3. IsFiniteSet(Wins) /\ IsFiniteSet(Branches)
  BY FS_Interval, L2Assumption DEF Wins
<1>4. IsFiniteSet(Wins \X Branches)
  BY <1>3, FS_Product
<1>5. IsFiniteSet(L2Tasks)
  <2> DEFINE f == [x \in Wins \X Branches |-> [w |-> x[1], b |-> x[2]]]
  <2>1. f \in [Wins \X Branches -> L2Tasks]
    BY DEF L2Tasks
  <2>2. ASSUME NEW t \in L2Tasks PROVE \E x \in Wins \X Branches : f[x] = t
    <3>1. t.w \in Wins /\ t.b \in Branches /\ t = [w |-> t.w, b |-> t.b]
      BY DEF L2Tasks
    <3>2. <<t.w, t.b>> \in Wins \X Branches /\ f[<<t.w, t.b>>] = t
      BY <3>1
    <3> QED BY <3>2
  <2>3. f \in Surjection(Wins \X Branches, L2Tasks)
    BY <2>1, <2>2 DEF Surjection
  <2> QED BY <1>4, <2>3, FS_Surjection
<1> QED BY <1>1, <1>2, <1>5, FS_Subset, FS_CardinalityType

LEMMA VictimFacts ==
  ASSUME QueueOK, QueueKept, NEW w \in Wins, NEW t \in L2Tasks
  PROVE  /\ Victims(w) \subseteq Queued
         /\ Cardinality((Queued \ Victims(w)) \cup {t}) <= QueueCap
<1>1. QueueCap \in Nat \ {0} /\ Cardinality(Queued) <= QueueCap
  BY L2Assumption DEF QueueKept
<1>2. CASE Cardinality(Queued) < QueueCap
  <2>1. Victims(w) = {}
    BY <1>2 DEF Victims
  <2>2. Queued \ Victims(w) = Queued
    BY <2>1
  <2>3. /\ Cardinality(Queued) \in Nat
        /\ Cardinality(Queued \cup {t}) =
             IF t \in Queued THEN Cardinality(Queued) ELSE Cardinality(Queued) + 1
    BY QueueFinite, FS_AddElement
  <2>4. Cardinality(Queued \cup {t}) <= QueueCap
    BY <1>1, <1>2, <2>3
  <2> QED BY <2>1, <2>2, <2>4
<1>3. CASE ~(Cardinality(Queued) < QueueCap)
  <2>1. Victims(w) \subseteq Queued /\ Victims(w) # {}
    <3> DEFINE others == {u.w : u \in Queued} \ {w}
    <3>1. CASE others # {}
      <4>1. others \in SUBSET Nat /\ others \in SUBSET Wins
        BY QueueFinite DEF L2Tasks, Wins
      <4>2. \E o \in others : \A p \in others : o <= p
        <5>1. IsFiniteSet(others)
          <6>1. IsFiniteSet(Wins)
            BY FS_Interval, L2Assumption DEF Wins
          <6> QED BY <4>1, <6>1, FS_Subset
        <5> HIDE DEF others
        <5> QED BY <3>1, <4>1, <5>1, LeastOne
      <4> DEFINE first == CHOOSE o \in others : \A p \in others : o <= p
      <4>3. first \in others
        BY <4>2
      <4>4. Victims(w) = {u \in Queued : u.w = first}
        BY <1>3, <3>1 DEF Victims
      <4> QED BY <4>3, <4>4
    <3>2. CASE others = {}
      <4>1. Victims(w) = {Head(queue[win[w].cam])}
        BY <1>3, <3>2 DEF Victims
      <4>2. Queued # {}
        BY <1>1, <1>3, FS_EmptySet
      <4>3. PICK c \in L2Cams : \E u \in ToSet(queue[c]) : u \in Queued
        BY <4>2 DEF Queued
      <4> PICK u \in ToSet(queue[c]) : u \in Queued
        BY <4>3
      <4>4. u.w = w
        BY <3>2, <4>3
      <4>5. win[w].cam = c
        BY <4>3, <4>4 DEF QueueKept, CamOf
      <4>6. queue[c] \in Seq(L2Tasks) /\ queue[c] # <<>>
        BY <4>3 DEF QueueOK, ToSet
      <4>7. Head(queue[c]) \in Queued
        BY <4>6, LineFacts, QueueFinite
      <4> QED BY <4>1, <4>5, <4>7
    <3> QED BY <3>1, <3>2
  <2>2. PICK x \in Queued : x \in Victims(w)
    BY <2>1
  <2>3. /\ IsFiniteSet(Queued \ {x}) /\ Cardinality(Queued \ {x}) = Cardinality(Queued) - 1
        /\ Queued \ Victims(w) \in SUBSET (Queued \ {x})
    BY <2>2, QueueFinite, FS_RemoveElement
  <2>4. /\ IsFiniteSet(Queued \ Victims(w))
        /\ Cardinality(Queued \ Victims(w)) <= Cardinality(Queued) - 1
        /\ Cardinality(Queued \ Victims(w)) \in Nat
    BY <2>3, FS_Subset, FS_CardinalityType
  <2>5. Cardinality((Queued \ Victims(w)) \cup {t}) <= Cardinality(Queued \ Victims(w)) + 1
    <3> DEFINE rest == Queued \ Victims(w)
    <3> HIDE DEF rest
    <3>1. Cardinality(rest \cup {t}) =
            IF t \in rest THEN Cardinality(rest) ELSE Cardinality(rest) + 1
      BY <2>4, FS_AddElement DEF rest
    <3>2. Cardinality(rest) \in Nat
      BY <2>4 DEF rest
    <3>3. Cardinality(rest \cup {t}) <= Cardinality(rest) + 1
      BY <3>1, <3>2
    <3> QED BY <3>3 DEF rest
  <2>6. Cardinality((Queued \ Victims(w)) \cup {t}) \in Nat
    BY <2>4, FS_AddElement, FS_CardinalityType
  <2> QED BY <1>1, <2>1, <2>4, <2>5, <2>6, QueueFinite
<1> QED BY <1>2, <1>3
-------------------------------------------------------------------------------
(* Windows. *)

\* What any step may do to the windows, except to make one, to put it on the books,
\* to register a branch or to mark a window too old.
Evolves ==
    /\ win' \in [Wins -> Entries] /\ frozen' \subseteq frozen
    /\ \A v \in Wins :
        /\ win'[v].cam = win[v].cam /\ win'[v].mats = win[v].mats
        /\ win'[v].done = win[v].done
        /\ \A b \in Branches : \/ win'[v].br[b] = win[v].br[b]
                               \/ win[v].br[b] = "pending" /\ win'[v].br[b] \in Terminals
        /\ \/ win'[v].st = win[v].st
           \/ win[v].st = "producing" /\ win'[v].st = "sealed"
           \/ Listed(v) /\ win'[v].st = "gone"
        /\ win'[v].st = "gone" =>
             v \notin frozen' /\ \A b \in Branches : win'[v].br[b] # "pending"

LEMMA EntryFacts ==
  /\ \A e \in Entries : /\ e.cam \in L2Cams /\ e.mats \subseteq Nat /\ e.id \in Nat
                        /\ e.st \in WinStates /\ e.done \in BOOLEAN
                        /\ e.br \in [Branches -> BranchStates]
  /\ \A e \in Entries, s \in WinStates : [e EXCEPT !.st = s] \in Entries
  /\ \A e \in Entries, b \in Branches, x \in BranchStates : [e EXCEPT !.br[b] = x] \in Entries
  /\ \A e \in Entries, br \in [Branches -> BranchStates] : [e EXCEPT !.br = br] \in Entries
  BY DEF Entries

LEMMA EvolvesSame ==
  ASSUME WindowsOK, BooksKept, UNCHANGED <<win, frozen>>
  PROVE  Evolves
  BY DEF WindowsOK, BooksKept, Evolves, Listed

LEMMA SettleNowFacts ==
  ASSUME WindowsOK, BooksKept, NEW w \in Wins, NEW e \in Entries, SettleNow(w, e),
         e.cam = win[w].cam, e.mats = win[w].mats, e.done = win[w].done,
         e.st = win[w].st \/ (win[w].st = "producing" /\ e.st = "sealed"),
         \A b \in Branches : \/ e.br[b] = win[w].br[b]
                             \/ win[w].br[b] = "pending" /\ e.br[b] \in Terminals
  PROVE  /\ Evolves
         /\ \A v \in Wins \ {w} : win'[v] = win[v]
         /\ win'[w].br = e.br
         /\ win'[w].st = IF Settleable(e) THEN "gone" ELSE e.st
<1> DEFINE new == IF Settleable(e) THEN [e EXCEPT !.st = "gone"] ELSE e
<1>1. new \in Entries
  BY EntryFacts DEF WinStates
<1>2. win' = [win EXCEPT ![w] = new] /\ win \in [Wins -> Entries]
  BY DEF SettleNow, WindowsOK
<1>3. /\ new.cam = e.cam /\ new.mats = e.mats /\ new.done = e.done /\ new.br = e.br
      /\ new.st = IF Settleable(e) THEN "gone" ELSE e.st
  BY DEF Entries
<1> HIDE DEF new
<1>4. win' \in [Wins -> Entries] /\ win'[w] = new /\ \A v \in Wins \ {w} : win'[v] = win[v]
  BY <1>1, <1>2
<1>5. frozen' \subseteq frozen /\ (Settleable(e) => w \notin frozen')
  BY DEF SettleNow
<1>6. Settleable(e) => Listed(w) /\ \A b \in Branches : e.br[b] # "pending"
  BY DEF Settleable, Listed
<1>7. \A v \in frozen : win[v].st # "gone"
  BY DEF BooksKept, Listed, WindowsOK
<1>8. \A v \in Wins : win[v].st = "gone" => \A b \in Branches : win[v].br[b] # "pending"
  BY DEF BooksKept, Listed
<1>9. Evolves
  <2> SUFFICES ASSUME NEW v \in Wins
               PROVE
        /\ win'[v].cam = win[v].cam /\ win'[v].mats = win[v].mats
        /\ win'[v].done = win[v].done
        /\ \A b \in Branches : \/ win'[v].br[b] = win[v].br[b]
                               \/ win[v].br[b] = "pending" /\ win'[v].br[b] \in Terminals
        /\ \/ win'[v].st = win[v].st
           \/ win[v].st = "producing" /\ win'[v].st = "sealed"
           \/ Listed(v) /\ win'[v].st = "gone"
        /\ win'[v].st = "gone" =>
             v \notin frozen' /\ \A b \in Branches : win'[v].br[b] # "pending"
    BY <1>4, <1>5 DEF Evolves
  <2>1. CASE v # w
    BY <2>1, <1>4, <1>5, <1>7, <1>8
  <2>2. CASE v = w /\ Settleable(e)
    BY <2>2, <1>3, <1>4, <1>5, <1>6
  <2>3. CASE v = w /\ ~Settleable(e)
    BY <2>3, <1>3, <1>4, <1>5, <1>7, <1>8
  <2> QED BY <2>1, <2>2, <2>3
<1> QED BY <1>3, <1>4, <1>9

LEMMA MaybeSettleFacts ==
  ASSUME WindowsOK, BooksKept, NEW w \in Wins, MaybeSettle(w)
  PROVE  Evolves
  BY SettleNowFacts DEF MaybeSettle, WindowsOK

\* A branch that is judged is not pending any more.
LEMMA JudgeFacts ==
  ASSUME WindowsOK, BooksKept, NEW w \in Wins, NEW b \in Branches, NEW x \in Terminals,
         Judge(w, b, x)
  PROVE  /\ Evolves
         /\ ~(win'[w].st \in {"producing", "sealed"} /\ win'[w].br[b] = "pending")
         /\ \A v \in Wins \ {w} : win'[v] = win[v]
         /\ \A c \in Branches \ {b} : win'[w].br[c] = win[w].br[c]
         /\ ~Pending(w, b) => UNCHANGED <<win, frozen>>
<1> DEFINE e == [win[w] EXCEPT !.br[b] = x]
<1>1. CASE Pending(w, b)
  <2>1. win[w] \in Entries /\ x \in BranchStates /\ x # "pending"
    BY DEF WindowsOK, BranchStates, Terminals
  <2>2. e \in Entries
    BY <2>1, EntryFacts
  <2>3. /\ e.cam = win[w].cam /\ e.mats = win[w].mats /\ e.done = win[w].done
        /\ e.st = win[w].st /\ e.br[b] = x
        /\ \A c \in Branches \ {b} : e.br[c] = win[w].br[c]
    BY <2>1, EntryFacts DEF Entries
  <2>4. SettleNow(w, e)
    BY <1>1 DEF Judge
  <2>5. \A c \in Branches : \/ e.br[c] = win[w].br[c]
                            \/ win[w].br[c] = "pending" /\ e.br[c] \in Terminals
    BY <1>1, <2>3 DEF Pending
  <2> HIDE DEF e
  <2>6. /\ Evolves /\ \A v \in Wins \ {w} : win'[v] = win[v]
        /\ win'[w].br = e.br
    BY <2>2, <2>3, <2>4, <2>5, SettleNowFacts
  <2> QED BY <1>1, <2>1, <2>3, <2>6
<1>2. CASE ~Pending(w, b)
  <2>1. UNCHANGED <<win, frozen>>
    BY <1>2 DEF Judge
  <2>2. Evolves
    BY <2>1, EvolvesSame
  <2> QED BY <1>2, <2>1, <2>2 DEF Pending, Listed, WindowsOK
<1> QED BY <1>1, <1>2

LEMMA JudgeAllFacts ==
  ASSUME WindowsOK, BooksKept, NEW tasks \in SUBSET L2Tasks, NEW x \in Terminals,
         JudgeAll(tasks, x)
  PROVE  /\ Evolves
         /\ \A t \in tasks : ~(win'[t.w].st \in {"producing", "sealed"}
                                 /\ win'[t.w].br[t.b] = "pending")
<1> DEFINE hit(w) == {b \in Branches : [w |-> w, b |-> b] \in tasks /\ Pending(w, b)}
           br(w) == [b \in Branches |-> IF b \in hit(w) THEN x ELSE win[w].br[b]]
           entry(w) == [win[w] EXCEPT !.br = br(w)]
           over == {w \in Wins : hit(w) # {} /\ Settleable(entry(w))}
<1>1. /\ win' = [w \in Wins |-> IF w \in over THEN [entry(w) EXCEPT !.st = "gone"]
                                ELSE entry(w)]
      /\ frozen' = frozen \ over
  BY DEF JudgeAll
<1>2. x \in BranchStates /\ x # "pending" /\ "gone" \in WinStates
  BY DEF BranchStates, Terminals, WinStates
<1>3. ASSUME NEW w \in Wins
      PROVE  /\ win[w] \in Entries /\ br(w) \in [Branches -> BranchStates]
             /\ entry(w) \in Entries
             /\ entry(w).cam = win[w].cam /\ entry(w).mats = win[w].mats
             /\ entry(w).done = win[w].done /\ entry(w).st = win[w].st
             /\ entry(w).br = br(w)
  <2>1. win[w] \in Entries
    BY DEF WindowsOK
  <2>2. br(w) \in [Branches -> BranchStates]
    BY <1>2, <2>1, EntryFacts
  <2> HIDE DEF br
  <2> QED BY <2>1, <2>2, EntryFacts DEF Entries
<1>4. ASSUME NEW w \in Wins, NEW b \in Branches
      PROVE  /\ \/ br(w)[b] = win[w].br[b]
                \/ win[w].br[b] = "pending" /\ br(w)[b] \in Terminals
             /\ [w |-> w, b |-> b] \in tasks /\ Listed(w) => br(w)[b] # "pending"
             /\ win[w].br[b] # "pending" => br(w)[b] # "pending"
  BY <1>2 DEF Pending
<1>5. ASSUME NEW w \in over
      PROVE  Listed(w) /\ \A b \in Branches : br(w)[b] # "pending"
  <2>1. entry(w).br = br(w) /\ Settleable(entry(w))
    BY <1>3
  <2> QED BY <2>1 DEF Settleable, Pending
<1> HIDE DEF br, over
<1>6. ASSUME NEW w \in Wins
      PROVE  /\ win'[w] \in Entries
             /\ win'[w].cam = win[w].cam /\ win'[w].mats = win[w].mats
             /\ win'[w].done = win[w].done /\ win'[w].br = br(w)
             /\ win'[w].st = IF w \in over THEN "gone" ELSE win[w].st
  <2> HIDE DEF entry
  <2> QED BY <1>1, <1>2, <1>3, EntryFacts DEF Entries
<1>7. \A v \in frozen : win[v].st # "gone"
  BY DEF BooksKept, Listed, WindowsOK
<1>8. \A v \in Wins : win[v].st = "gone" => \A b \in Branches : win[v].br[b] # "pending"
  BY DEF BooksKept, Listed
<1>9. Evolves
  <2>1. win' \in [Wins -> Entries] /\ frozen' \subseteq frozen
    <3> HIDE DEF entry
    <3> QED BY <1>1, <1>6
  <2>2. ASSUME NEW v \in Wins, win'[v].st = "gone"
        PROVE  v \notin frozen' /\ \A b \in Branches : win'[v].br[b] # "pending"
    <3>1. CASE v \in over
      BY <1>1, <1>5, <1>6, <3>1
    <3>2. CASE v \notin over
      <4>1. win[v].st = "gone"
        BY <1>6, <2>2, <3>2
      <4>2. v \notin frozen'
        BY <1>1, <1>7, <4>1
      <4>3. ASSUME NEW b \in Branches PROVE win'[v].br[b] # "pending"
        BY <1>4, <1>6, <1>8, <4>1
      <4> QED BY <4>2, <4>3
    <3> QED BY <3>1, <3>2
  <2>3. ASSUME NEW v \in Wins PROVE win'[v].st = win[v].st \/ (Listed(v) /\ win'[v].st = "gone")
    BY <1>5, <1>6
  <2> QED BY <1>4, <1>6, <2>1, <2>2, <2>3 DEF Evolves
<1>10. ASSUME NEW t \in tasks
       PROVE  ~(win'[t.w].st \in {"producing", "sealed"} /\ win'[t.w].br[t.b] = "pending")
  <2>1. t.w \in Wins /\ t.b \in Branches /\ t = [w |-> t.w, b |-> t.b]
    BY DEF L2Tasks
  <2>2. CASE Listed(t.w)
    BY <1>4, <1>6, <2>1, <2>2
  <2>3. CASE ~Listed(t.w)
    BY <1>6, <2>1, <2>3 DEF Listed
  <2> QED BY <2>2, <2>3
<1> QED BY <1>9, <1>10

\* A window that was marked and is closed has left the books.
LEMMA ClosedFacts ==
  ASSUME WindowsOK, BooksKept, NEW w \in Wins, NEW x \in Terminals, win[w].done, Closed(w, x)
  PROVE  /\ Evolves /\ win'[w].st = "gone"
         /\ \A v \in Wins \ {w} : win'[v] = win[v]
<1> DEFINE br == [b \in Branches |-> IF win[w].br[b] = "pending" THEN x ELSE win[w].br[b]]
           new == [win[w] EXCEPT !.st = "gone", !.br = br]
<1>1. win[w] \in Entries /\ win[w].st \notin {"unused", "held"}
  BY DEF WindowsOK, BooksKept, Blank
<1>2. x \in BranchStates /\ x # "pending" /\ "gone" \in WinStates
  BY DEF BranchStates, Terminals, WinStates
<1>3. /\ br \in [Branches -> BranchStates]
      /\ \A b \in Branches : br[b] # "pending"
      /\ \A b \in Branches : \/ br[b] = win[w].br[b]
                             \/ win[w].br[b] = "pending" /\ br[b] \in Terminals
  BY <1>1, <1>2, EntryFacts
<1> HIDE DEF br
<1>4. /\ new \in Entries /\ new.cam = win[w].cam /\ new.mats = win[w].mats
      /\ new.done = win[w].done /\ new.st = "gone" /\ new.br = br
  BY <1>1, <1>2, <1>3 DEF Entries
<1>5. win' = [win EXCEPT ![w] = new] /\ win \in [Wins -> Entries] /\ frozen' = frozen \ {w}
  BY DEF Closed, WindowsOK, br
<1> HIDE DEF new
<1>6. win' \in [Wins -> Entries] /\ win'[w] = new /\ \A v \in Wins \ {w} : win'[v] = win[v]
  BY <1>4, <1>5
<1>7. \A v \in frozen : win[v].st # "gone"
  BY DEF BooksKept, Listed, WindowsOK
<1>8. \A v \in Wins : win[v].st = "gone" => \A b \in Branches : win[v].br[b] # "pending"
  BY DEF BooksKept, Listed
<1>9. win[w].st = "gone" \/ Listed(w)
  BY <1>1, EntryFacts DEF Listed, WinStates
<1>10. Evolves
  <2> SUFFICES ASSUME NEW v \in Wins
               PROVE
        /\ win'[v].cam = win[v].cam /\ win'[v].mats = win[v].mats
        /\ win'[v].done = win[v].done
        /\ \A b \in Branches : \/ win'[v].br[b] = win[v].br[b]
                               \/ win[v].br[b] = "pending" /\ win'[v].br[b] \in Terminals
        /\ win'[v].st = win[v].st \/ (Listed(v) /\ win'[v].st = "gone")
        /\ win'[v].st = "gone" =>
             v \notin frozen' /\ \A b \in Branches : win'[v].br[b] # "pending"
    BY <1>5, <1>6 DEF Evolves
  <2>1. CASE v # w
    BY <2>1, <1>5, <1>6, <1>7, <1>8
  <2>2. CASE v = w
    BY <2>2, <1>3, <1>4, <1>5, <1>6, <1>9
  <2> QED BY <2>1, <2>2
<1> QED BY <1>4, <1>6, <1>10
-------------------------------------------------------------------------------
(* What a step keeps when the windows only evolve. *)

LEMMA MadeFacts ==
  ASSUME WindowsOK
  PROVE  made \in Nat /\ MaxWin \in Nat /\ made <= MaxWin /\ 1..made \subseteq Wins
  BY L2Assumption DEF WindowsOK, Wins

LEMMA EvolvesFacts ==
  ASSUME WindowsOK, Evolves, NEW w \in Wins
  PROVE  /\ Listed(w)' => Listed(w)
         /\ \A b \in Branches : Pending(w, b)' => Pending(w, b)
         /\ \A b \in Branches : win[w].br[b] \in Terminals => win'[w].br[b] = win[w].br[b]
         /\ \A b \in Branches : win'[w].br[b] = "none" <=> win[w].br[b] = "none"
         /\ \A s \in {"unused", "held"} : win'[w].st = s <=> win[w].st = s
<1>1. \A b \in Branches : \/ win'[w].br[b] = win[w].br[b]
                          \/ win[w].br[b] = "pending" /\ win'[w].br[b] \in Terminals
  BY DEF Evolves
<1>2. Listed(w)' => Listed(w)
  BY DEF Evolves, Listed
<1>3. \A s \in {"unused", "held"} : win'[w].st = s <=> win[w].st = s
  BY DEF Evolves, Listed
<1> QED BY <1>1, <1>2, <1>3 DEF Pending, Terminals

LEMMA KeepsStore ==
  ASSUME L2Inv, Evolves, UNCHANGED <<bounds, mats, taken, waiting, cursor>>,
         leased' \in [L2Cams -> SUBSET Nat]
  PROVE  StoreOK'
  BY DEF L2Inv, StoreOK, Evolves

LEMMA KeepsBooks ==
  ASSUME L2Inv, Evolves, made' = made,
         l2'.pc = "register" <=> l2.pc = "register",
         l2.pc = "register" => l2'.at.w = l2.at.w
  PROVE  WindowsOK' /\ BooksKept'
<1>1. WindowsOK /\ BooksKept
  BY DEF L2Inv, Shape
<1>2. WindowsOK'
  BY <1>1 DEF WindowsOK, Evolves
<1>3. ASSUME NEW w \in Wins
      PROVE  /\ (w > made => win[w].st = "unused")'
             /\ (win[w].st \in {"unused", "held"} => Blank(w))'
             /\ (win[w].st = "held" <=> l2.pc = "register" /\ l2.at.w = w)'
             /\ (~Listed(w) => \A b \in Branches : win[w].br[b] # "pending")'
  <2>1. (w > made => win[w].st = "unused")'
    BY <1>1, EvolvesFacts DEF BooksKept
  <2>2. (win[w].st \in {"unused", "held"} => Blank(w))'
    BY <1>1, EvolvesFacts DEF BooksKept, Blank, Evolves
  <2>3. (win[w].st = "held" <=> l2.pc = "register" /\ l2.at.w = w)'
    BY <1>1, EvolvesFacts DEF BooksKept
  <2>4. (~Listed(w) => \A b \in Branches : win[w].br[b] # "pending")'
    <3>1. ~Listed(w) => \A b \in Branches : win[w].br[b] # "pending"
      BY <1>1 DEF BooksKept
    <3>2. \A b \in Branches : \/ win'[w].br[b] = win[w].br[b]
                              \/ win[w].br[b] = "pending" /\ win'[w].br[b] \in Terminals
      BY DEF Evolves
    <3>3. ~Listed(w)' => ~Listed(w) \/ win'[w].st = "gone"
      BY DEF Evolves, Listed
    <3>4. win'[w].st = "gone" => \A b \in Branches : win'[w].br[b] # "pending"
      BY DEF Evolves
    <3> QED BY <3>1, <3>2, <3>3, <3>4 DEF Terminals
  <2> QED BY <2>1, <2>2, <2>3, <2>4
<1>4. (\A w \in frozen : Listed(w) \/ win[w].st = "held")'
  <2> SUFFICES ASSUME NEW w \in frozen' PROVE Listed(w)' \/ win'[w].st = "held"
    OBVIOUS
  <2>1. w \in frozen /\ w \in Wins /\ win'[w].st # "gone"
    BY <1>1 DEF Evolves, WindowsOK
  <2>2. Listed(w) \/ win[w].st = "held"
    BY <1>1, <2>1 DEF BooksKept
  <2> QED BY <2>1, <2>2 DEF Evolves, Listed
<1> QED BY <1>2, <1>3, <1>4 DEF BooksKept

\* What became of a branch stays.
LEMMA KeepsRecords ==
  ASSUME L2Inv, Evolves, UNCHANGED published
  PROVE  PublishedOK' /\ HistoryHonest'
<1>1. PublishedOK /\ HistoryHonest /\ WindowsOK
  BY DEF L2Inv, Shape
<1>2. \A w \in Wins, b \in Branches : win[w].br[b] \in Terminals => win'[w].br[b] = win[w].br[b]
  BY <1>1, EvolvesFacts
<1> QED BY <1>1, <1>2 DEF PublishedOK, HistoryHonest, published, Terminals, L2Tasks

LEMMA KeepsMarked ==
  ASSUME L2Inv, Evolves, \A w \in Wins : Closer(w) /\ Listed(w)' => Closer(w)'
  PROVE  Marked'
<1>1. Marked /\ WindowsOK
  BY DEF L2Inv, Shape
<1>2. \A w \in Wins : win'[w].done = win[w].done /\ (Listed(w)' => Listed(w))
  BY <1>1, EvolvesFacts DEF Evolves
<1> QED BY <1>1, <1>2 DEF Marked

LEMMA KeepsOwned ==
  ASSUME L2Inv, Evolves,
         \A t \in L2Tasks : Pending(t.w, t.b)' /\ InHands(t) => InHands(t)'
  PROVE  Owned'
<1>1. Owned /\ WindowsOK
  BY DEF L2Inv, Shape
<1>2. \A t \in L2Tasks : Pending(t.w, t.b)' => Pending(t.w, t.b)
  BY <1>1, EvolvesFacts DEF L2Tasks
<1> QED BY <1>1, <1>2 DEF Owned

LEMMA KeepsLease ==
  ASSUME L2Inv, Evolves, UNCHANGED <<leased, waiting>>,
         l2.pc \in InWork => l2'.pc \in InWork /\ l2'.at.w = l2.at.w,
         stopper'.pc = "closed" => stopper.pc = "closed"
  PROVE  LeaseKept'
<1>1. LeaseKept /\ L2Hand /\ WindowsOK
  BY DEF L2Inv, Hands, Shape
<1>2. l2.pc \in InWork => l2.at.w \in Wins
  BY <1>1, MadeFacts DEF L2Hand, InWork
<1> QED BY <1>1, <1>2 DEF LeaseKept, Evolves

LEMMA KeepsQueue ==
  ASSUME L2Inv, Evolves, QueueOK', made' = made,
         \A c \in L2Cams : ToSet(queue'[c]) \subseteq ToSet(queue[c]),
         stopper'.pc \in {"drain", "windows", "closing", "closed"} =>
           stopper.pc \in {"drain", "windows", "closing", "closed"} \/ Queued' = {}
  PROVE  QueueKept'
<1>1. QueueOK /\ QueueKept /\ WindowsOK
  BY DEF L2Inv, Shape
<1>2. Queued' \subseteq Queued
  BY DEF Queued
<1>3. Cardinality(Queued') <= QueueCap
  <2>1. /\ IsFiniteSet(Queued) /\ Cardinality(Queued) \in Nat
        /\ Cardinality(Queued') <= Cardinality(Queued) /\ Cardinality(Queued') \in Nat
    BY <1>1, <1>2, QueueFinite, FS_Subset, FS_CardinalityType
  <2> QED BY <1>1, <2>1, L2Assumption DEF QueueKept
<1>4. \A c \in L2Cams : \A t \in ToSet(queue'[c]) : t.w <= made' /\ win'[t.w].cam = c
  <2> SUFFICES ASSUME NEW c \in L2Cams, NEW t \in ToSet(queue'[c])
               PROVE  t.w <= made' /\ win'[t.w].cam = c
    OBVIOUS
  <2>1. t \in ToSet(queue[c]) /\ t \in L2Tasks
    BY <1>1, QueueFinite
  <2>2. t.w \in Wins
    BY <2>1 DEF L2Tasks
  <2> QED BY <1>1, <2>1, <2>2 DEF QueueKept, CamOf, Evolves
<1> QED BY <1>1, <1>2, <1>3, <1>4 DEF QueueKept, CamOf

LEMMA KeepsSwept ==
  ASSUME L2Inv, Evolves, UNCHANGED stopper,
         \A w \in Wins : Closer(w) /\ Listed(w)' => Closer(w)',
         \A w \in Wins : Late(w) /\ Listed(w)' /\ stopping => Late(w)'
  PROVE  Swept'
<1>1. Swept /\ StopHand /\ WindowsOK
  BY DEF L2Inv, Hands, Shape
<1>2. \A w \in Wins : Listed(w)' => Listed(w)
  BY <1>1, EvolvesFacts
<1>3. stopper.pc \in {"windows", "closing", "closed"} => stopping
  BY <1>1 DEF StopHand
<1> QED BY <1>1, <1>2, <1>3 DEF Swept

LEMMA KeepsL3Hand ==
  ASSUME L2Inv, Evolves, UNCHANGED l3
  PROVE  L3Hand'
<1>1. L3Hand /\ WindowsOK
  BY DEF L2Inv, Hands, Shape
<1>2. CASE l3.pc = "idle"
  BY <1>2, <1>1 DEF L3Hand
<1>3. CASE l3.pc # "idle"
  <2>1. l3.at \in L2Tasks
    BY <1>1, <1>3 DEF L3Hand
  <2>2. win[l3.at.w].br[l3.at.b] \in Terminals =>
          win'[l3.at.w].br[l3.at.b] = win[l3.at.w].br[l3.at.b]
    BY <1>1, <2>1, EvolvesFacts DEF L2Tasks
  <2> QED BY <1>1, <2>2 DEF L3Hand, Terminals
<1> QED BY <1>2, <1>3
-------------------------------------------------------------------------------
(* The L3 thread. *)

\* What a step of the L3 thread leaves alone.
ByL3 ==
    /\ Evolves
    /\ UNCHANGED <<bounds, mats, taken, waiting, leased, cursor, made, authority, l2, stopper>>

LEMMA ByL3Keeps ==
  ASSUME L2Inv, ByL3, QueueOK', \A c \in L2Cams : ToSet(queue'[c]) \subseteq ToSet(queue[c])
  PROVE  /\ WindowsOK' /\ AuthorityOK' /\ StoreOK' /\ L2Hand' /\ StopHand'
         /\ QueueKept' /\ BooksKept' /\ Marked' /\ Swept' /\ LeaseKept'
<1>1. /\ Evolves /\ UNCHANGED <<bounds, mats, taken, waiting, leased, cursor, made>>
      /\ UNCHANGED <<registry, epoch, stopping, committed, l2, stopper>>
  BY DEF ByL3, authority
<1>2. WindowsOK' /\ BooksKept'
  BY <1>1, KeepsBooks
<1>3. AuthorityOK'
  BY <1>1 DEF L2Inv, Shape, AuthorityOK
<1>4. StoreOK'
  BY <1>1, KeepsStore DEF L2Inv, StoreOK
<1>5. L2Hand'
  <2>1. L2Hand /\ WindowsOK
    BY DEF L2Inv, Hands, Shape
  <2>2. l2.pc = "expire" => l2.at.w \in Wins
    BY <2>1, MadeFacts DEF L2Hand
  <2> QED BY <1>1, <2>1, <2>2 DEF L2Hand, Evolves
<1>6. StopHand'
  BY <1>1 DEF L2Inv, Hands, StopHand, Evolves
<1>7. QueueKept'
  BY <1>1, KeepsQueue
<1>8. \A w \in Wins : Closer(w) => Closer(w)'
  BY <1>1 DEF Closer
<1>9. Marked'
  BY <1>1, <1>8, KeepsMarked
<1>10. \A w \in Wins : Late(w) => Late(w)'
  BY <1>1, EvolvesFacts DEF Late, Evolves, Terminals
<1>11. Swept'
  BY <1>1, <1>8, <1>10, KeepsSwept
<1>12. LeaseKept'
  BY <1>1, KeepsLease
<1> QED BY <1>2, <1>3, <1>4, <1>5, <1>6, <1>7, <1>9, <1>11, <1>12

LEMMA L3IdleFacts ==
  ASSUME ThreadsOK, L3Idle
  PROVE  /\ l3' \in [pc : L3Steps, at : L2Tasks \cup {NoTask}, good : BOOLEAN, epoch : Nat]
         /\ L3Hand' /\ l3'.pc = "idle"
  BY DEF ThreadsOK, L3Idle, L3Steps, L3Hand

\* A step that ends the task of the L3 thread leaves its branch settled.
LEMMA L3Ends ==
  ASSUME L2Inv, ByL3, UNCHANGED <<queue, rotor>>, L3Idle, PublishedOK', HistoryHonest',
         l3.pc # "idle",
         ~(win'[l3.at.w].st \in {"producing", "sealed"} /\ win'[l3.at.w].br[l3.at.b] = "pending")
  PROVE  L2Inv'
<1>1. ThreadsOK /\ QueueOK /\ QueueOK' /\ UNCHANGED <<l2, stopper>> /\ Evolves
  BY DEF L2Inv, Shape, QueueOK, ByL3
<1>2. ThreadsOK' /\ L3Hand' /\ l3'.pc = "idle"
  BY <1>1, L3IdleFacts DEF ThreadsOK
<1>3. /\ WindowsOK' /\ AuthorityOK' /\ StoreOK' /\ L2Hand' /\ StopHand'
      /\ QueueKept' /\ BooksKept' /\ Marked' /\ Swept' /\ LeaseKept'
  BY <1>1, ByL3Keeps
<1>4. Owned'
  <2> SUFFICES ASSUME NEW t \in L2Tasks, Pending(t.w, t.b)', InHands(t) PROVE InHands(t)'
    BY <1>1, KeepsOwned
  <2>1. t # l3.at
    BY DEF Pending, Listed
  <2>2. win[t.w].done => win'[t.w].done
    BY <1>1 DEF Evolves, L2Tasks
  <2> QED BY <1>1, <2>1, <2>2 DEF InHands, Queued
<1> QED BY <1>1, <1>2, <1>3, <1>4 DEF L2Inv, Shape, Hands

\* ... and one that goes on keeps it in hand, or has it settled.
LEMMA L3GoesOn ==
  ASSUME L2Inv, ByL3, UNCHANGED <<queue, rotor>>, PublishedOK', HistoryHonest', L3Hand',
         l3.pc # "idle", l3'.at = l3.at, l3'.good \in BOOLEAN, l3'.epoch \in Nat,
         l3' \in [pc : L3Steps, at : L2Tasks \cup {NoTask}, good : BOOLEAN, epoch : Nat],
         \/ l3'.pc \in {"gate", "model", "publish", "grant"}
         \/ ~(win'[l3.at.w].st \in {"producing", "sealed"}
                /\ win'[l3.at.w].br[l3.at.b] = "pending")
  PROVE  L2Inv'
<1>1. ThreadsOK /\ QueueOK /\ QueueOK' /\ UNCHANGED <<l2, stopper>> /\ Evolves
  BY DEF L2Inv, Shape, QueueOK, ByL3
<1>2. ThreadsOK'
  BY <1>1 DEF ThreadsOK
<1>3. /\ WindowsOK' /\ AuthorityOK' /\ StoreOK' /\ L2Hand' /\ StopHand'
      /\ QueueKept' /\ BooksKept' /\ Marked' /\ Swept' /\ LeaseKept'
  BY <1>1, ByL3Keeps
<1>4. Owned'
  <2> SUFFICES ASSUME NEW t \in L2Tasks, Pending(t.w, t.b)', InHands(t) PROVE InHands(t)'
    BY <1>1, KeepsOwned
  <2>1. win[t.w].done => win'[t.w].done
    BY <1>1 DEF Evolves, L2Tasks
  <2>2. t = l3.at => l3'.pc \in {"gate", "model", "publish", "grant"}
    BY DEF Pending, Listed
  <2> QED BY <1>1, <2>1, <2>2 DEF InHands, Queued
<1> QED BY <1>1, <1>2, <1>3, <1>4 DEF L2Inv, Shape, Hands

LEMMA DequeueKeeps == ASSUME L2Inv, Dequeue PROVE L2Inv'
<1> PICK c \in L2Cams : /\ queue[c] # <<>>
                        /\ queue' = [queue EXCEPT ![c] = Tail(@)]
                        /\ rotor' = (c % Cardinality(L2Cams)) + 1
                        /\ l3' = [l3 EXCEPT !.pc = "gate", !.at = Head(queue[c])]
  BY DEF Dequeue
<1>1. /\ QueueOK /\ ThreadsOK /\ WindowsOK /\ BooksKept /\ L3Hand /\ PublishedOK
  BY DEF L2Inv, Shape, Hands
<1>2. /\ l3.pc = "idle" /\ UNCHANGED <<materials, win, authority, l2, stopper, published>>
  BY DEF Dequeue
<1>3. /\ Head(queue[c]) \in L2Tasks /\ Tail(queue[c]) \in Seq(L2Tasks)
      /\ ToSet(queue[c]) = {Head(queue[c])} \cup ToSet(Tail(queue[c]))
  <2>1. queue[c] \in Seq(L2Tasks)
    BY <1>1 DEF QueueOK
  <2> QED BY <2>1, LineFacts
<1>4. \A d \in L2Cams : queue'[d] = IF d = c THEN Tail(queue[c]) ELSE queue[d]
  BY <1>1 DEF QueueOK
<1>5. QueueOK'
  <2>1. Cardinality(L2Cams) \in Nat \ {0} /\ L2Cams = 1..Cardinality(L2Cams)
    BY L2Assumption, FS_CardinalityType, FS_EmptySet
  <2>2. rotor' \in L2Cams
    BY <2>1
  <2> QED BY <1>1, <1>3, <2>2 DEF QueueOK
<1>6. \A d \in L2Cams : ToSet(queue'[d]) \subseteq ToSet(queue[d])
  BY <1>3, <1>4
<1>7. ByL3
  BY <1>1, <1>2, EvolvesSame DEF ByL3, materials
<1>8. /\ WindowsOK' /\ AuthorityOK' /\ StoreOK' /\ L2Hand' /\ StopHand'
      /\ QueueKept' /\ BooksKept' /\ Marked' /\ Swept' /\ LeaseKept'
  BY <1>5, <1>6, <1>7, ByL3Keeps
<1>9. /\ l3'.pc = "gate" /\ l3'.at = Head(queue[c]) /\ l3'.good = l3.good
      /\ l3' \in [pc : L3Steps, at : L2Tasks \cup {NoTask}, good : BOOLEAN, epoch : Nat]
  BY <1>1, <1>3 DEF ThreadsOK, L3Steps
<1>10. ThreadsOK'
  BY <1>1, <1>2, <1>9 DEF ThreadsOK
<1>11. L3Hand'
  BY <1>1, <1>2, <1>3, <1>9 DEF L3Hand
<1>12. PublishedOK' /\ HistoryHonest'
  BY <1>2, <1>7, KeepsRecords DEF ByL3
<1>13. Owned'
  <2> SUFFICES ASSUME NEW t \in L2Tasks, InHands(t) PROVE InHands(t)'
    BY <1>7, KeepsOwned DEF ByL3
  <2>1. t \in Queued => t \in Queued' \/ t = Head(queue[c])
    BY <1>3, <1>4 DEF Queued
  <2> QED BY <1>2, <1>9, <2>1 DEF InHands
<1> QED BY <1>5, <1>8, <1>10, <1>11, <1>12, <1>13 DEF L2Inv, Shape, Hands

LEMMA AtL3 ==
  ASSUME L2Inv, l3.pc # "idle"
  PROVE  /\ l3.at \in L2Tasks /\ l3.at.w \in Wins /\ l3.at.b \in Branches
         /\ l3.at = [w |-> l3.at.w, b |-> l3.at.b]
         /\ WindowsOK /\ BooksKept /\ QueueOK /\ ThreadsOK /\ PublishedOK /\ HistoryHonest
         /\ L3Hand
  BY DEF L2Inv, Hands, Shape, L3Hand, L2Tasks

\* The branch of the task is judged and the thread is free again.
LEMMA JudgedEnds ==
  ASSUME L2Inv, l3.pc # "idle", NEW x \in Terminals, Judge(l3.at.w, l3.at.b, x), L3Idle,
         UNCHANGED <<bounds, mats, taken, waiting, leased, cursor, made, queue, rotor,
                     authority, l2, stopper, published>>
  PROVE  L2Inv'
<1>1. /\ Evolves
      /\ ~(win'[l3.at.w].st \in {"producing", "sealed"}
             /\ win'[l3.at.w].br[l3.at.b] = "pending")
  BY AtL3, JudgeFacts
<1>2. PublishedOK' /\ HistoryHonest'
  BY <1>1, KeepsRecords
<1> QED BY <1>1, <1>2, L3Ends DEF ByL3

LEMMA L3GateKeeps == ASSUME L2Inv, L3Gate PROVE L2Inv'
<1>1. l3.pc = "gate" /\ "gap" \in Terminals
  BY DEF L3Gate, Terminals
<1>2. UNCHANGED <<bounds, mats, taken, waiting, leased, cursor, made, queue, rotor,
                  authority, l2, stopper, published>>
  BY DEF L3Gate
<1>3. CASE Judge(l3.at.w, l3.at.b, "gap") /\ L3Idle
  BY <1>1, <1>2, <1>3, JudgedEnds
<1>4. CASE l3' = [l3 EXCEPT !.pc = "model"] /\ UNCHANGED <<win, frozen>>
  <2>1. Evolves /\ ByL3
    BY <1>1, <1>2, <1>4, AtL3, EvolvesSame DEF ByL3
  <2>2. PublishedOK' /\ HistoryHonest'
    BY <1>2, <2>1, KeepsRecords
  <2>3. /\ l3' \in [pc : L3Steps, at : L2Tasks \cup {NoTask}, good : BOOLEAN, epoch : Nat]
        /\ l3'.pc = "model" /\ l3'.at = l3.at /\ l3'.good = l3.good /\ l3'.epoch = l3.epoch
    BY <1>1, <1>4, AtL3 DEF ThreadsOK, L3Steps
  <2>4. L3Hand' /\ l3'.good \in BOOLEAN /\ l3'.epoch \in Nat
    BY <1>1, <1>4, <2>3, AtL3 DEF L3Hand, ThreadsOK
  <2> QED BY <1>1, <1>2, <2>1, <2>2, <2>3, <2>4, L3GoesOn
<1> QED BY <1>3, <1>4 DEF L3Gate

\* A failed branch: the window as it is, with this branch failed.
LEMMA OneBranch ==
  ASSUME WindowsOK, BooksKept, NEW w \in Wins, NEW b \in Branches, Pending(w, b),
         NEW x \in Terminals, win' = [win EXCEPT ![w].br[b] = x], frozen' = frozen
  PROVE  Evolves /\ win'[w].br[b] = x
<1>1. x \in BranchStates /\ x # "pending" /\ win[w] \in Entries
  BY DEF BranchStates, Terminals, WindowsOK
<1>2. win' \in [Wins -> Entries]
  BY <1>1, EntryFacts DEF WindowsOK
<1>3. /\ \A v \in Wins \ {w} : win'[v] = win[v]
      /\ win'[w].st = win[w].st /\ win'[w].done = win[w].done
      /\ win'[w].cam = win[w].cam /\ win'[w].mats = win[w].mats
      /\ win'[w].br[b] = x /\ \A c \in Branches \ {b} : win'[w].br[c] = win[w].br[c]
  BY <1>1 DEF Entries, WindowsOK
<1>4. \A v \in Wins : win[v].st = "gone" =>
        v \notin frozen /\ \A c \in Branches : win[v].br[c] # "pending"
  BY DEF BooksKept, Listed
<1>5. win[w].st # "gone" /\ win[w].br[b] = "pending"
  BY DEF Pending, Listed
<1>6. ASSUME NEW v \in Wins
      PROVE  /\ win'[v].cam = win[v].cam /\ win'[v].mats = win[v].mats
             /\ win'[v].done = win[v].done /\ win'[v].st = win[v].st
             /\ \A c \in Branches : \/ win'[v].br[c] = win[v].br[c]
                                    \/ win[v].br[c] = "pending" /\ win'[v].br[c] \in Terminals
             /\ win'[v].st = "gone" =>
                  v \notin frozen /\ \A c \in Branches : win'[v].br[c] # "pending"
  <2>1. CASE v # w
    BY <2>1, <1>3, <1>4
  <2>2. CASE v = w
    BY <2>2, <1>3, <1>5
  <2> QED BY <2>1, <2>2
<1> QED BY <1>2, <1>3, <1>6 DEF Evolves

LEMMA UnderstandKeeps == ASSUME L2Inv, Understand PROVE L2Inv'
<1>1. l3.pc = "model" /\ "failed" \in Terminals
  BY DEF Understand, Terminals
<1>2. UNCHANGED <<bounds, mats, taken, waiting, leased, cursor, made, queue, rotor,
                  authority, l2, stopper, published>>
  BY DEF Understand
<1> DEFINE w == l3.at.w
           b == l3.at.b
<1>3. CASE Judge(w, b, "failed") /\ L3Idle
  BY <1>1, <1>2, <1>3, JudgedEnds
<1>4. CASE /\ Pending(w, b) /\ win' = [win EXCEPT ![w].br[b] = "failed"]
           /\ l3' = [l3 EXCEPT !.pc = "publish", !.good = FALSE] /\ UNCHANGED frozen
  <2>1. Evolves /\ win'[w].br[b] = "failed"
    BY <1>1, <1>4, AtL3, OneBranch
  <2>2. ByL3 /\ PublishedOK' /\ HistoryHonest'
    BY <1>2, <2>1, KeepsRecords DEF ByL3
  <2>3. /\ l3' \in [pc : L3Steps, at : L2Tasks \cup {NoTask}, good : BOOLEAN, epoch : Nat]
        /\ l3'.pc = "publish" /\ l3'.at = l3.at /\ l3'.good = FALSE /\ l3'.epoch = l3.epoch
    BY <1>1, <1>4, AtL3 DEF ThreadsOK, L3Steps
  <2>4. L3Hand' /\ l3'.good \in BOOLEAN /\ l3'.epoch \in Nat
    BY <1>1, <2>1, <2>3, AtL3 DEF L3Hand, ThreadsOK
  <2> QED BY <1>1, <1>2, <2>2, <2>3, <2>4, L3GoesOn
<1>5. CASE ~Pending(w, b) /\ L3Idle /\ UNCHANGED <<win, frozen>>
  <2>1. Judge(w, b, "failed")
    BY <1>5 DEF Judge
  <2> QED BY <1>1, <1>2, <1>5, <2>1, JudgedEnds
<1>6. CASE l3' = [l3 EXCEPT !.pc = "publish"] /\ UNCHANGED <<win, frozen>>
  <2>1. Evolves /\ ByL3
    BY <1>1, <1>2, <1>6, AtL3, EvolvesSame DEF ByL3
  <2>2. PublishedOK' /\ HistoryHonest'
    BY <1>2, <2>1, KeepsRecords
  <2>3. /\ l3' \in [pc : L3Steps, at : L2Tasks \cup {NoTask}, good : BOOLEAN, epoch : Nat]
        /\ l3'.pc = "publish" /\ l3'.at = l3.at /\ l3'.good = l3.good /\ l3'.epoch = l3.epoch
    BY <1>1, <1>6, AtL3 DEF ThreadsOK, L3Steps
  <2>4. L3Hand' /\ l3'.good \in BOOLEAN /\ l3'.epoch \in Nat
    BY <1>1, <1>6, <2>3, AtL3 DEF L3Hand, ThreadsOK
  <2> QED BY <1>1, <1>2, <2>1, <2>2, <2>3, <2>4, L3GoesOn
<1> QED BY <1>3, <1>4, <1>5, <1>6 DEF Understand

LEMMA PublishGateKeeps == ASSUME L2Inv, PublishGate PROVE L2Inv'
<1>1. l3.pc = "publish" /\ "gap" \in Terminals
  BY DEF PublishGate, Terminals
<1>2. UNCHANGED <<bounds, mats, taken, waiting, leased, cursor, made, queue, rotor,
                  authority, l2, stopper, published>>
  BY DEF PublishGate
<1>3. CASE Judge(l3.at.w, l3.at.b, "gap") /\ L3Idle
  BY <1>1, <1>2, <1>3, JudgedEnds
<1>4. CASE /\ l3' = [l3 EXCEPT !.pc = IF l3.good THEN "grant" ELSE "append"]
           /\ UNCHANGED <<win, frozen>>
  <2>1. Evolves /\ ByL3
    BY <1>1, <1>2, <1>4, AtL3, EvolvesSame DEF ByL3
  <2>2. PublishedOK' /\ HistoryHonest'
    BY <1>2, <2>1, KeepsRecords
  <2>3. /\ l3' \in [pc : L3Steps, at : L2Tasks \cup {NoTask}, good : BOOLEAN, epoch : Nat]
        /\ l3'.pc = (IF l3.good THEN "grant" ELSE "append")
        /\ l3'.at = l3.at /\ l3'.good = l3.good /\ l3'.epoch = l3.epoch
    BY <1>1, <1>4, AtL3 DEF ThreadsOK, L3Steps
  <2>4. L3Hand' /\ l3'.good \in BOOLEAN /\ l3'.epoch \in Nat
    BY <1>1, <1>4, <2>3, AtL3 DEF L3Hand, ThreadsOK
  <2>5. ~l3.good => win'[l3.at.w].br[l3.at.b] = "failed"
    BY <1>1, <1>4, AtL3 DEF L3Hand
  <2> QED BY <1>1, <1>2, <2>1, <2>2, <2>3, <2>4, <2>5, L3GoesOn
<1> QED BY <1>3, <1>4 DEF PublishGate

LEMMA GrantKeeps == ASSUME L2Inv, Grant PROVE L2Inv'
<1>1. l3.pc = "grant" /\ "gap" \in Terminals /\ "ok" \in Terminals
  BY DEF Grant, Terminals
<1>2. UNCHANGED <<bounds, mats, taken, waiting, leased, cursor, made, queue, rotor,
                  authority, l2, stopper, published>>
  BY DEF Grant
<1> DEFINE w == l3.at.w
           b == l3.at.b
<1>3. CASE Judge(w, b, "gap") /\ L3Idle
  BY <1>1, <1>2, <1>3, JudgedEnds
<1>4. CASE (~Pending(w, b) \/ win[w].done) /\ MaybeSettle(w) /\ L3Idle
  <2>1. Evolves
    BY <1>1, <1>4, AtL3, MaybeSettleFacts
  <2>2. ByL3 /\ PublishedOK' /\ HistoryHonest'
    BY <1>2, <2>1, KeepsRecords DEF ByL3
  <2>3. CASE ~Pending(w, b)
    <3>1. ~(win'[w].st \in {"producing", "sealed"} /\ win'[w].br[b] = "pending")
      <4>1. WindowsOK /\ w \in Wins /\ b \in Branches
        BY <1>1, AtL3
      <4>2. \/ win'[w].br[b] = win[w].br[b]
            \/ win[w].br[b] = "pending" /\ win'[w].br[b] \in Terminals
        BY <4>1, <2>1 DEF Evolves
      <4>3. win'[w].st \in {"producing", "sealed"} => Listed(w)
        BY <4>1, <2>1 DEF Evolves, Listed
      <4> QED BY <4>2, <4>3, <2>3 DEF Pending, Listed, Terminals
    <3> QED BY <1>1, <1>2, <1>4, <2>2, <3>1, L3Ends
  <2>4. CASE win[w].done
    \* the window is being closed: somebody else has it in hand
    <3>1. /\ ThreadsOK /\ QueueOK /\ QueueOK' /\ UNCHANGED <<l2, stopper, queue, rotor>>
      BY <1>2, AtL3, <1>1 DEF QueueOK
    <3>2. ThreadsOK' /\ L3Hand' /\ l3'.pc = "idle"
      BY <1>4, <3>1, L3IdleFacts DEF ThreadsOK
    <3>3. /\ WindowsOK' /\ AuthorityOK' /\ StoreOK' /\ L2Hand' /\ StopHand'
          /\ QueueKept' /\ BooksKept' /\ Marked' /\ Swept' /\ LeaseKept'
      BY <2>2, <3>1, ByL3Keeps
    <3>4. Owned'
      <4> SUFFICES ASSUME NEW t \in L2Tasks, Pending(t.w, t.b)', InHands(t) PROVE InHands(t)'
        BY <2>1, KeepsOwned
      <4>1. win[t.w].done => win'[t.w].done
        BY <2>1 DEF Evolves, L2Tasks
      <4>2. t = l3.at => win[t.w].done
        BY <2>4
      <4> QED BY <3>1, <4>1, <4>2 DEF InHands, Queued
    <3> QED BY <2>2, <3>1, <3>2, <3>3, <3>4 DEF L2Inv, Shape, Hands
  <2> QED BY <1>4, <2>3, <2>4
<1>5. CASE /\ Pending(w, b) /\ win' = [win EXCEPT ![w].br[b] = "ok"]
           /\ l3' = [l3 EXCEPT !.pc = "append"] /\ UNCHANGED frozen
  <2>1. Evolves /\ win'[w].br[b] = "ok"
    BY <1>1, <1>5, AtL3, OneBranch
  <2>2. ByL3 /\ PublishedOK' /\ HistoryHonest'
    BY <1>2, <2>1, KeepsRecords DEF ByL3
  <2>3. /\ l3' \in [pc : L3Steps, at : L2Tasks \cup {NoTask}, good : BOOLEAN, epoch : Nat]
        /\ l3'.pc = "append" /\ l3'.at = l3.at /\ l3'.good = l3.good /\ l3'.epoch = l3.epoch
    BY <1>1, <1>5, AtL3 DEF ThreadsOK, L3Steps
  <2>4. L3Hand' /\ l3'.good \in BOOLEAN /\ l3'.epoch \in Nat
    BY <1>1, <2>1, <2>3, AtL3 DEF L3Hand, ThreadsOK
  <2> QED BY <1>1, <1>2, <2>1, <2>2, <2>3, <2>4, L3GoesOn
<1> QED BY <1>3, <1>4, <1>5 DEF Grant

LEMMA AppendRecordKeeps == ASSUME L2Inv, AppendRecord PROVE L2Inv'
<1>1. l3.pc = "append"
  BY DEF AppendRecord
<1>2. /\ UNCHANGED <<bounds, mats, taken, waiting, leased, cursor, made, queue, rotor,
                     authority, l2, stopper, versions>>
      /\ history' = history \cup {[w |-> l3.at.w, b |-> l3.at.b, good |-> l3.good]}
  BY DEF AppendRecord
<1> DEFINE w == l3.at.w
           b == l3.at.b
<1>3. /\ w \in Wins /\ b \in Branches /\ l3.good \in BOOLEAN
      /\ win[w].br[b] = IF l3.good THEN "ok" ELSE "failed"
  BY <1>1, AtL3 DEF L3Hand, ThreadsOK
<1>4. Evolves
  BY <1>1, AtL3, EvolvesSame, MaybeSettleFacts DEF AppendRecord
<1>5. ByL3
  BY <1>2, <1>4 DEF ByL3
<1>6. \A v \in Wins, c \in Branches : win[v].br[c] \in Terminals => win'[v].br[c] = win[v].br[c]
  BY <1>1, <1>4, AtL3, EvolvesFacts
<1>7. PublishedOK'
  BY <1>1, <1>2, <1>3, AtL3 DEF PublishedOK
<1>8. HistoryHonest'
  <2>1. ASSUME NEW r \in history'
        PROVE  win'[r.w].br[r.b] = IF r.good THEN "ok" ELSE "failed"
    <3>1. CASE r \in history
      <4>1. r.w \in Wins /\ r.b \in Branches
        BY <3>1, <1>1, AtL3 DEF PublishedOK
      <4>2. win[r.w].br[r.b] = IF r.good THEN "ok" ELSE "failed"
        BY <3>1, <1>1, AtL3 DEF HistoryHonest
      <4> QED BY <4>1, <4>2, <1>6 DEF Terminals
    <3>2. CASE r = [w |-> l3.at.w, b |-> l3.at.b, good |-> l3.good]
      BY <3>2, <1>3, <1>6 DEF Terminals
    <3> QED BY <1>2, <3>1, <3>2
  <2>2. ASSUME NEW v \in versions' PROVE win'[v.w].br[v.b] = "ok"
    <3>1. v.w \in Wins /\ v.b \in Branches /\ win[v.w].br[v.b] = "ok"
      BY <1>1, <1>2, AtL3 DEF PublishedOK, L2Tasks, HistoryHonest
    <3> QED BY <3>1, <1>6 DEF Terminals
  <2> QED BY <2>1, <2>2 DEF HistoryHonest
<1>9. ~(win'[w].st \in {"producing", "sealed"} /\ win'[w].br[b] = "pending")
  BY <1>3, <1>6 DEF Terminals
<1>10. CASE L3Idle
  BY <1>1, <1>2, <1>5, <1>7, <1>8, <1>9, <1>10, L3Ends
<1>11. CASE l3.good /\ l3' = [l3 EXCEPT !.pc = "fuse"]
  <2>1. /\ l3' \in [pc : L3Steps, at : L2Tasks \cup {NoTask}, good : BOOLEAN, epoch : Nat]
        /\ l3'.pc = "fuse" /\ l3'.at = l3.at /\ l3'.good = l3.good /\ l3'.epoch = l3.epoch
    BY <1>1, <1>11, AtL3 DEF ThreadsOK, L3Steps
  <2>2. L3Hand' /\ l3'.good \in BOOLEAN /\ l3'.epoch \in Nat
    BY <1>1, <1>3, <1>6, <1>11, <2>1, AtL3 DEF L3Hand, ThreadsOK, Terminals
  <2> QED BY <1>1, <1>2, <1>5, <1>7, <1>8, <1>9, <2>1, <2>2, L3GoesOn
<1> QED BY <1>10, <1>11 DEF AppendRecord

LEMMA FuseKeeps == ASSUME L2Inv, Fuse PROVE L2Inv'
<1>1. l3.pc = "fuse"
  BY DEF Fuse
<1>2. UNCHANGED <<bounds, mats, taken, waiting, leased, cursor, made, queue, rotor,
                  authority, l2, stopper, published>>
  BY DEF Fuse
<1> DEFINE w == l3.at.w
           b == l3.at.b
<1>3. w \in Wins /\ b \in Branches /\ l3.good /\ win[w].br[b] = "ok"
  BY <1>1, AtL3 DEF L3Hand
<1>4. Evolves
  BY <1>1, AtL3, EvolvesSame, MaybeSettleFacts DEF Fuse
<1>5. ByL3 /\ PublishedOK' /\ HistoryHonest'
  BY <1>2, <1>4, KeepsRecords DEF ByL3
<1>6. win'[w].br[b] = "ok"
  BY <1>1, <1>3, <1>4, AtL3, EvolvesFacts DEF Terminals
<1>7. CASE L3Idle
  BY <1>1, <1>2, <1>5, <1>6, <1>7, L3Ends
<1>8. CASE l3' = [l3 EXCEPT !.pc = "authorize", !.epoch = epoch]
  <2>1. epoch \in Nat
    BY DEF L2Inv, Shape, AuthorityOK
  <2>2. /\ l3' \in [pc : L3Steps, at : L2Tasks \cup {NoTask}, good : BOOLEAN, epoch : Nat]
        /\ l3'.pc = "authorize" /\ l3'.at = l3.at /\ l3'.good = l3.good /\ l3'.epoch = epoch
    BY <1>1, <1>8, <2>1, AtL3 DEF ThreadsOK, L3Steps
  <2>3. L3Hand' /\ l3'.good \in BOOLEAN /\ l3'.epoch \in Nat
    BY <1>1, <1>3, <1>6, <2>1, <2>2, AtL3 DEF L3Hand, ThreadsOK
  <2> QED BY <1>1, <1>2, <1>5, <1>6, <2>2, <2>3, L3GoesOn
<1> QED BY <1>7, <1>8 DEF Fuse

LEMMA WriteVersionKeeps == ASSUME L2Inv, WriteVersion PROVE L2Inv'
<1>1. l3.pc = "authorize" /\ L3Idle
  BY DEF WriteVersion
<1>2. /\ UNCHANGED <<bounds, mats, taken, waiting, leased, cursor, made, queue, rotor,
                     authority, l2, stopper, history>>
      /\ versions' \subseteq versions \cup {l3.at}
  BY DEF WriteVersion
<1> DEFINE w == l3.at.w
           b == l3.at.b
<1>3. w \in Wins /\ b \in Branches /\ l3.good /\ win[w].br[b] = "ok" /\ l3.at \in L2Tasks
  BY <1>1, AtL3 DEF L3Hand
<1>4. Evolves
  BY <1>1, AtL3, MaybeSettleFacts DEF WriteVersion
<1>5. ByL3
  BY <1>2, <1>4 DEF ByL3
<1>6. \A v \in Wins, c \in Branches : win[v].br[c] \in Terminals => win'[v].br[c] = win[v].br[c]
  BY <1>1, <1>4, AtL3, EvolvesFacts
<1>7. PublishedOK'
  BY <1>1, <1>2, <1>3, AtL3 DEF PublishedOK
<1>8. HistoryHonest'
  <2>1. ASSUME NEW r \in history'
        PROVE  win'[r.w].br[r.b] = IF r.good THEN "ok" ELSE "failed"
    <3>1. r.w \in Wins /\ r.b \in Branches
      BY <1>1, <1>2, AtL3 DEF PublishedOK
    <3>2. win[r.w].br[r.b] = IF r.good THEN "ok" ELSE "failed"
      BY <1>1, <1>2, AtL3 DEF HistoryHonest
    <3> QED BY <3>1, <3>2, <1>6 DEF Terminals
  <2>2. ASSUME NEW v \in versions' PROVE win'[v.w].br[v.b] = "ok"
    <3>1. v.w \in Wins /\ v.b \in Branches /\ win[v.w].br[v.b] = "ok"
      BY <1>1, <1>2, <1>3, AtL3 DEF PublishedOK, L2Tasks, HistoryHonest
    <3> QED BY <3>1, <1>6 DEF Terminals
  <2> QED BY <2>1, <2>2 DEF HistoryHonest
<1>9. win'[w].br[b] = "ok"
  BY <1>3, <1>6 DEF Terminals
<1> QED BY <1>1, <1>2, <1>5, <1>7, <1>8, <1>9, L3Ends
-------------------------------------------------------------------------------
(* The L2 thread. *)

ByL2 ==
    /\ Evolves
    /\ UNCHANGED <<bounds, mats, taken, waiting, cursor, made, authority, l3, stopper, published>>

L2Type == [pc : L2Steps, at : Places, victims : SUBSET L2Tasks]

LEMMA ByL2Keeps ==
  ASSUME L2Inv, ByL2, l2' \in L2Type, L2Hand', leased' \in [L2Cams -> SUBSET Nat],
         l2'.pc = "register" <=> l2.pc = "register",
         l2.pc = "register" => l2'.at.w = l2.at.w
  PROVE  /\ WindowsOK' /\ BooksKept' /\ AuthorityOK' /\ ThreadsOK' /\ PublishedOK'
         /\ HistoryHonest' /\ StoreOK' /\ Hands'
<1>1. /\ Evolves /\ UNCHANGED <<bounds, mats, taken, waiting, cursor, made, l3, stopper>>
      /\ UNCHANGED <<registry, epoch, stopping, committed>> /\ UNCHANGED published
  BY DEF ByL2, authority
<1>2. WindowsOK' /\ BooksKept'
  BY <1>1, KeepsBooks
<1>3. AuthorityOK'
  BY <1>1 DEF L2Inv, Shape, AuthorityOK
<1>4. StoreOK'
  BY <1>1, KeepsStore
<1>5. L3Hand'
  BY <1>1, KeepsL3Hand
<1>6. StopHand'
  BY <1>1 DEF L2Inv, Hands, StopHand, Evolves
<1>7. PublishedOK' /\ HistoryHonest'
  BY <1>1, KeepsRecords
<1>8. ThreadsOK'
  BY <1>1 DEF L2Inv, Shape, ThreadsOK, L2Type
<1> QED BY <1>2, <1>3, <1>4, <1>5, <1>6, <1>7, <1>8 DEF Hands

\* A step of the thread at a window.
AtWindow == {"process", "check", "insert", "evict"}
LEMMA L2GoesOn ==
  ASSUME L2Inv, ByL2, l2.pc \in AtWindow, leased' = leased,
         l2' \in L2Type, l2'.pc \in AtWindow, l2'.at.w = l2.at.w,
         l2'.pc \in {"check", "insert"} => l2'.at.b \in Branches,
         l2'.pc # "evict" => l2'.victims = {},
         QueueOK', QueueKept',
         \A w \in Wins : Late(w) /\ Listed(w)' /\ stopping => Late(w)',
         \A t \in L2Tasks : Pending(t.w, t.b)' /\ InHands(t) => InHands(t)'
  PROVE  L2Inv'
<1>1. /\ Evolves /\ UNCHANGED <<bounds, mats, taken, waiting, cursor, made, l3, stopper>>
      /\ L2Hand /\ StoreOK
  BY DEF ByL2, L2Inv, Hands
<1>2. L2Hand'
  BY <1>1 DEF L2Hand, AtWindow
<1>3. /\ WindowsOK' /\ BooksKept' /\ AuthorityOK' /\ ThreadsOK' /\ PublishedOK'
      /\ HistoryHonest' /\ StoreOK' /\ Hands'
  BY <1>1, <1>2, ByL2Keeps DEF AtWindow, StoreOK
<1>4. \A w \in Wins : Closer(w) => Closer(w)'
  BY <1>1 DEF Closer, AtWindow
<1>5. Marked' /\ Swept'
  BY <1>1, <1>4, KeepsMarked, KeepsSwept
<1>6. LeaseKept'
  BY <1>1, KeepsLease DEF InWork, AtWindow
<1>7. Owned'
  BY <1>1, KeepsOwned
<1> QED BY <1>3, <1>5, <1>6, <1>7 DEF L2Inv, Shape

LEMMA AtL2 ==
  ASSUME L2Inv
  PROVE  /\ WindowsOK /\ BooksKept /\ QueueOK /\ QueueKept /\ ThreadsOK /\ L2Hand /\ StopHand
         /\ l2 \in L2Type /\ StoreOK
         /\ l2.pc \notin {"idle", "turn"} => l2.at.w \in Wins /\ l2.at.w \in 1..made
         /\ l2.pc \in {"check", "insert"} =>
              /\ l2.at.b \in Branches /\ l2.at \in L2Tasks
              /\ l2.at = [w |-> l2.at.w, b |-> l2.at.b]
<1>1. /\ WindowsOK /\ BooksKept /\ QueueOK /\ QueueKept /\ ThreadsOK /\ L2Hand /\ StopHand
      /\ l2 \in L2Type /\ StoreOK
  BY DEF L2Inv, Hands, Shape, ThreadsOK, L2Type
<1>2. l2.pc \notin {"idle", "turn"} => l2.at.w \in Wins /\ l2.at.w \in 1..made
  BY <1>1, MadeFacts DEF L2Hand
<1>3. l2.at = [w |-> l2.at.w, b |-> l2.at.b]
  BY <1>1 DEF L2Type, Places
<1> QED BY <1>1, <1>2, <1>3 DEF L2Hand, L2Tasks

\* The queue as it was.
LEMMA QueueSame ==
  ASSUME L2Inv, Evolves, UNCHANGED <<queue, rotor, made>>,
         stopper'.pc \in {"drain", "windows", "closing", "closed"} =>
           stopper.pc \in {"drain", "windows", "closing", "closed"}
  PROVE  QueueOK' /\ QueueKept'
<1>1. QueueOK'
  BY DEF L2Inv, Shape, QueueOK
<1> QED BY <1>1, KeepsQueue

LEMMA CheckTaskKeeps == ASSUME L2Inv, CheckTask PROVE L2Inv'
<1>1. l2.pc = "check" /\ "gap" \in Terminals
  BY DEF CheckTask, Terminals
<1>2. UNCHANGED <<bounds, mats, taken, waiting, leased, cursor, made, queue, rotor,
                  authority, l3, stopper, published>>
  BY DEF CheckTask
<1> DEFINE w == l2.at.w
           b == l2.at.b
<1>3. w \in Wins /\ b \in Branches /\ l2.at = [w |-> w, b |-> b] /\ l2.victims = {}
  BY <1>1, AtL2 DEF L2Hand
<1>4. CASE Judge(w, b, "gap") /\ l2' = [l2 EXCEPT !.pc = "process"]
  <2>1. /\ Evolves
        /\ ~(win'[w].st \in {"producing", "sealed"} /\ win'[w].br[b] = "pending")
    BY <1>1, <1>3, <1>4, AtL2, JudgeFacts
  <2>2. ByL2
    BY <1>2, <2>1 DEF ByL2
  <2>3. l2' \in L2Type /\ l2'.pc = "process" /\ l2'.at = l2.at /\ l2'.victims = {}
    BY <1>1, <1>3, <1>4, AtL2 DEF L2Type, L2Steps
  <2>4. QueueOK' /\ QueueKept'
    BY <1>2, <2>1, QueueSame
  <2>5. ASSUME NEW v \in Wins, Late(v), Listed(v)' PROVE Late(v)'
    <3>1. v = w /\ \A c \in Branches : win[v].br[c] = "pending" => c = b
      BY <1>1, <2>5 DEF Late
    <3>2. win'[v].st \in {"producing", "sealed"}
      BY <2>5 DEF Listed
    <3>3. \A c \in Branches : win'[v].br[c] # "pending"
      BY <2>1, <3>1, <3>2 DEF Evolves, Terminals
    <3> QED BY <2>1, <2>3, <2>5, <3>3 DEF Late, Evolves
  <2>6. ASSUME NEW t \in L2Tasks, Pending(t.w, t.b)', InHands(t) PROVE InHands(t)'
    <3>1. t # l2.at
      BY <2>1, <2>6 DEF Pending, Listed
    <3>2. win[t.w].done => win'[t.w].done
      BY <2>1 DEF Evolves, L2Tasks
    <3> QED BY <1>2, <1>3, <2>6, <3>1, <3>2 DEF InHands, Queued
  <2> QED BY <1>1, <1>2, <2>2, <2>3, <2>4, <2>5, <2>6, L2GoesOn DEF AtWindow
<1>5. CASE ~stopping /\ l2' = [l2 EXCEPT !.pc = "insert"] /\ UNCHANGED <<win, frozen>>
  <2>1. Evolves
    BY <1>5, AtL2, EvolvesSame
  <2>2. ByL2
    BY <1>2, <2>1 DEF ByL2
  <2>3. l2' \in L2Type /\ l2'.pc = "insert" /\ l2'.at = l2.at /\ l2'.victims = {}
    BY <1>1, <1>3, <1>5, AtL2 DEF L2Type, L2Steps
  <2>4. QueueOK' /\ QueueKept'
    BY <1>2, <2>1, QueueSame
  <2>5. ASSUME NEW t \in L2Tasks, InHands(t) PROVE InHands(t)'
    BY <1>1, <1>2, <1>3, <1>5, <2>3, <2>5 DEF InHands, Queued
  <2> QED BY <1>1, <1>2, <1>3, <1>5, <2>2, <2>3, <2>4, <2>5, L2GoesOn DEF AtWindow
<1> QED BY <1>4, <1>5 DEF CheckTask

LEMMA InsertTaskKeeps == ASSUME L2Inv, InsertTask PROVE L2Inv'
<1>1. l2.pc = "insert" /\ "gap" \in Terminals
  BY DEF InsertTask, Terminals
<1>2. UNCHANGED <<bounds, mats, taken, waiting, leased, cursor, made, rotor, authority, l3,
                  stopper, published>>
  BY DEF InsertTask
<1> DEFINE w == l2.at.w
           b == l2.at.b
           out == Victims(w)
<1>3. /\ w \in Wins /\ w \in 1..made /\ b \in Branches /\ l2.at = [w |-> w, b |-> b]
      /\ l2.at \in L2Tasks /\ l2.victims = {}
  BY <1>1, AtL2 DEF L2Hand
<1>4. \A v \in Wins : ~Late(v)
  BY <1>1 DEF Late
<1>5. CASE Judge(w, b, "gap") /\ l2' = [l2 EXCEPT !.pc = "process"] /\ UNCHANGED queue
  <2>1. /\ Evolves
        /\ ~(win'[w].st \in {"producing", "sealed"} /\ win'[w].br[b] = "pending")
    BY <1>1, <1>3, <1>5, AtL2, JudgeFacts
  <2>2. ByL2
    BY <1>2, <2>1 DEF ByL2
  <2>3. l2' \in L2Type /\ l2'.pc = "process" /\ l2'.at = l2.at /\ l2'.victims = {}
    BY <1>1, <1>3, <1>5, AtL2 DEF L2Type, L2Steps
  <2>4. QueueOK' /\ QueueKept'
    BY <1>2, <1>5, <2>1, QueueSame
  <2>5. ASSUME NEW t \in L2Tasks, Pending(t.w, t.b)', InHands(t) PROVE InHands(t)'
    <3>1. t # l2.at
      BY <2>1, <2>5 DEF Pending, Listed
    <3>2. win[t.w].done => win'[t.w].done
      BY <2>1 DEF Evolves, L2Tasks
    <3> QED BY <1>2, <1>3, <1>5, <2>5, <3>1, <3>2 DEF InHands, Queued
  <2> QED BY <1>1, <1>2, <1>4, <2>2, <2>3, <2>4, <2>5, L2GoesOn DEF AtWindow
<1>6. CASE /\ ~Pending(w, b) \/ win[w].done
           /\ l2' = [l2 EXCEPT !.pc = "process"] /\ UNCHANGED <<win, frozen, queue>>
  <2>1. Evolves
    BY <1>6, AtL2, EvolvesSame
  <2>2. ByL2
    BY <1>2, <2>1 DEF ByL2
  <2>3. l2' \in L2Type /\ l2'.pc = "process" /\ l2'.at = l2.at /\ l2'.victims = {}
    BY <1>1, <1>3, <1>6, AtL2 DEF L2Type, L2Steps
  <2>4. QueueOK' /\ QueueKept'
    BY <1>2, <1>6, <2>1, QueueSame
  <2>5. ASSUME NEW t \in L2Tasks, Pending(t.w, t.b)', InHands(t) PROVE InHands(t)'
    <3>1. Pending(t.w, t.b)
      BY <1>6, <2>5 DEF Pending, Listed
    <3>2. t = l2.at => win[t.w].done
      BY <1>6, <3>1
    <3> QED BY <1>2, <1>3, <1>6, <2>5, <3>2 DEF InHands, Queued
  <2> QED BY <1>1, <1>2, <1>4, <2>2, <2>3, <2>4, <2>5, L2GoesOn DEF AtWindow
<1>7. CASE /\ ~stopping /\ UNCHANGED <<win, frozen>>
           /\ queue' = [d \in L2Cams |->
                LET rest == Kept(queue[d], Queued \ out)
                IN IF d = win[w].cam THEN Append(rest, [w |-> w, b |-> b]) ELSE rest]
           /\ l2' = [l2 EXCEPT !.pc = IF out = {} THEN "process" ELSE "evict", !.victims = out]
  <2>1. Evolves
    BY <1>7, AtL2, EvolvesSame
  <2>2. ByL2
    BY <1>2, <2>1 DEF ByL2
  <2>3. out \subseteq Queued /\ Queued \subseteq L2Tasks
         /\ Cardinality((Queued \ out) \cup {l2.at}) <= QueueCap
    BY <1>3, AtL2, VictimFacts, QueueFinite
  <2> DEFINE rest(d) == Kept(queue[d], Queued \ out)
  <2>4. ASSUME NEW d \in L2Cams
        PROVE  /\ rest(d) \in Seq(L2Tasks) /\ ToSet(rest(d)) = ToSet(queue[d]) \ out
    <3>1. queue[d] \in Seq(L2Tasks) /\ ToSet(queue[d]) \subseteq Queued
      BY AtL2, QueueFinite DEF QueueOK
    <3> QED BY <3>1, KeptFacts
  <2>5. win[w].cam \in L2Cams
    BY <1>3, AtL2, EntryFacts DEF WindowsOK
  <2> HIDE DEF rest, out
  <2>6. queue' = [d \in L2Cams |-> IF d = win[w].cam THEN Append(rest(d), l2.at) ELSE rest(d)]
    BY <1>3, <1>7 DEF rest, out
  <2>7. ASSUME NEW d \in L2Cams
        PROVE  /\ queue'[d] \in Seq(L2Tasks)
               /\ ToSet(queue'[d]) = (ToSet(queue[d]) \ out)
                                       \cup IF d = win[w].cam THEN {l2.at} ELSE {}
    <3>1. CASE d = win[w].cam
      <4>1. queue'[d] = Append(rest(d), l2.at)
        BY <2>6, <3>1
      <4> QED BY <1>3, <2>4, <3>1, <4>1, AppendFacts
    <3>2. CASE d # win[w].cam
      BY <2>4, <2>6, <3>2
    <3> QED BY <3>1, <3>2
  <2>8. QueueOK'
    BY <1>2, <2>6, <2>7, AtL2 DEF QueueOK
  <2>9. Queued' = (Queued \ out) \cup {l2.at}
    <3>1. Queued' = UNION {ToSet(queue'[d]) : d \in L2Cams}
      BY DEF Queued
    <3>2. Queued = UNION {ToSet(queue[d]) : d \in L2Cams}
      BY DEF Queued
    <3>3. ASSUME NEW t \in Queued' PROVE t \in (Queued \ out) \cup {l2.at}
      BY <2>7, <3>1, <3>2
    <3>4. ASSUME NEW t \in Queued \ out PROVE t \in Queued'
      BY <2>7, <3>1, <3>2
    <3>5. l2.at \in Queued'
      BY <2>5, <2>7, <3>1
    <3> QED BY <3>3, <3>4, <3>5
  <2>10. QueueKept'
    <3>1. ASSUME NEW d \in L2Cams, NEW t \in ToSet(queue'[d])
          PROVE  t.w <= made' /\ win'[t.w].cam = d
      <4>1. CASE t \in ToSet(queue[d])
        BY <1>2, <1>7, <4>1, AtL2 DEF QueueKept, CamOf
      <4>2. CASE t = l2.at /\ d = win[w].cam
        BY <1>2, <1>3, <1>7, <4>2, MadeFacts, AtL2
      <4> QED BY <2>7, <4>1, <4>2
    <3>2. stopper'.pc = "none"
      BY <1>2, <1>7, AtL2 DEF StopHand
    <3> QED BY <2>3, <2>9, <3>1, <3>2 DEF QueueKept, CamOf
  <2>11. /\ l2' \in L2Type /\ l2'.pc = (IF out = {} THEN "process" ELSE "evict")
         /\ l2'.at = l2.at /\ l2'.victims = out
    BY <1>1, <1>3, <1>7, <2>3, AtL2 DEF L2Type, L2Steps, out
  <2>12. ASSUME NEW t \in L2Tasks, InHands(t) PROVE InHands(t)'
    BY <1>1, <1>2, <1>3, <1>7, <2>9, <2>11, <2>12 DEF InHands
  <2> QED BY <1>1, <1>2, <1>4, <2>2, <2>8, <2>10, <2>11, <2>12, L2GoesOn DEF AtWindow
<1> QED BY <1>5, <1>6, <1>7 DEF InsertTask

LEMMA SettleEvictedKeeps == ASSUME L2Inv, SettleEvicted PROVE L2Inv'
<1>1. /\ l2.pc = "evict" /\ "gap" \in Terminals /\ JudgeAll(l2.victims, "gap")
      /\ l2' = [l2 EXCEPT !.pc = "process", !.victims = {}]
  BY DEF SettleEvicted, Terminals
<1>2. UNCHANGED <<bounds, mats, taken, waiting, leased, cursor, made, queue, rotor,
                  authority, l3, stopper, published>>
  BY DEF SettleEvicted
<1>3. l2.victims \in SUBSET L2Tasks /\ l2' \in L2Type
       /\ l2'.pc = "process" /\ l2'.at = l2.at /\ l2'.victims = {}
  BY <1>1, AtL2 DEF L2Type, L2Steps
<1>4. /\ Evolves
      /\ \A t \in l2.victims : ~(win'[t.w].st \in {"producing", "sealed"}
                                   /\ win'[t.w].br[t.b] = "pending")
  BY <1>1, <1>3, AtL2, JudgeAllFacts
<1>5. ByL2 /\ QueueOK' /\ QueueKept'
  BY <1>2, <1>4, QueueSame DEF ByL2
<1>6. ASSUME NEW t \in L2Tasks, Pending(t.w, t.b)', InHands(t) PROVE InHands(t)'
  <2>1. t \notin l2.victims
    BY <1>4, <1>6 DEF Pending, Listed
  <2>2. win[t.w].done => win'[t.w].done
    BY <1>4 DEF Evolves, L2Tasks
  <2> QED BY <1>1, <1>2, <1>6, <2>1, <2>2 DEF InHands, Queued
<1>7. \A v \in Wins : ~Late(v)
  BY <1>1 DEF Late
<1> QED BY <1>1, <1>2, <1>3, <1>5, <1>6, <1>7, L2GoesOn DEF AtWindow

LEMMA TurnKeeps == ASSUME L2Inv, Turn PROVE L2Inv'
<1>1. /\ l2.pc = "idle" /\ ~stopping /\ l2' = [l2 EXCEPT !.pc = "turn"]
      /\ UNCHANGED <<materials, win, queue, rotor, authority, l3, stopper, published>>
  BY DEF Turn
<1>2. /\ Evolves /\ leased' = leased
      /\ UNCHANGED <<bounds, mats, taken, waiting, cursor, made, frozen>>
  BY <1>1, AtL2, EvolvesSame DEF materials
<1>3. ByL2 /\ QueueOK' /\ QueueKept'
  BY <1>1, <1>2, QueueSame DEF ByL2
<1>4. /\ l2' \in L2Type /\ l2'.pc = "turn" /\ l2'.victims = {}
  BY <1>1, AtL2 DEF L2Type, L2Steps, L2Hand
<1>5. L2Hand'
  BY <1>4 DEF L2Hand
<1>6. /\ WindowsOK' /\ BooksKept' /\ AuthorityOK' /\ ThreadsOK' /\ PublishedOK'
      /\ HistoryHonest' /\ StoreOK' /\ Hands'
  BY <1>1, <1>2, <1>3, <1>4, <1>5, AtL2, ByL2Keeps DEF StoreOK
<1>7. \A w \in Wins : (Closer(w) => Closer(w)') /\ ~Late(w)
  BY <1>1, <1>4 DEF Closer, Late
<1>8. Marked' /\ Swept'
  BY <1>1, <1>2, <1>7, KeepsMarked, KeepsSwept
<1>9. LeaseKept'
  BY <1>1, <1>2, KeepsLease DEF InWork
<1>10. Owned'
  <2> SUFFICES ASSUME NEW t \in L2Tasks, InHands(t) PROVE InHands(t)'
    BY <1>2, KeepsOwned
  <2> QED BY <1>1, AtL2 DEF InHands, Queued, L2Hand
<1> QED BY <1>3, <1>6, <1>8, <1>9, <1>10 DEF L2Inv, Shape

LEMMA AcquireClosedKeeps == ASSUME L2Inv, AcquireClosed PROVE L2Inv'
<1>1. /\ l2.pc = "turn" /\ l2' = [l2 EXCEPT !.pc = "idle"]
      /\ UNCHANGED <<materials, win, queue, rotor, authority, l3, stopper, published>>
  BY DEF AcquireClosed
<1>2. /\ Evolves /\ leased' = leased
      /\ UNCHANGED <<bounds, mats, taken, waiting, cursor, made, frozen>>
  BY <1>1, AtL2, EvolvesSame DEF materials
<1>3. ByL2 /\ QueueOK' /\ QueueKept'
  BY <1>1, <1>2, QueueSame DEF ByL2
<1>4. /\ l2' \in L2Type /\ l2'.pc = "idle" /\ l2'.victims = {}
  BY <1>1, AtL2 DEF L2Type, L2Steps, L2Hand
<1>5. L2Hand'
  BY <1>4 DEF L2Hand
<1>6. /\ WindowsOK' /\ BooksKept' /\ AuthorityOK' /\ ThreadsOK' /\ PublishedOK'
      /\ HistoryHonest' /\ StoreOK' /\ Hands'
  BY <1>1, <1>2, <1>3, <1>4, <1>5, AtL2, ByL2Keeps DEF StoreOK
<1>7. \A w \in Wins : (Closer(w) => Closer(w)') /\ ~Late(w)
  BY <1>1, <1>4 DEF Closer, Late
<1>8. Marked' /\ Swept'
  BY <1>1, <1>2, <1>7, KeepsMarked, KeepsSwept
<1>9. LeaseKept'
  BY <1>1, <1>2, KeepsLease DEF InWork
<1>10. Owned'
  <2> SUFFICES ASSUME NEW t \in L2Tasks, InHands(t) PROVE InHands(t)'
    BY <1>2, KeepsOwned
  <2> QED BY <1>1, AtL2 DEF InHands, Queued, L2Hand
<1> QED BY <1>3, <1>6, <1>8, <1>9, <1>10 DEF L2Inv, Shape

\* What goes back to the store.
LEMMA ReturnedFacts ==
  ASSUME StoreOK, WindowsOK, NEW w \in Wins, leased' = Returned(w)
  PROVE  /\ leased' \in [L2Cams -> SUBSET Nat]
         /\ \A c \in L2Cams : \A n \in leased'[c] :
              n \in leased[c] /\ (c = win[w].cam => n \notin win[w].mats)
  BY DEF StoreOK, WindowsOK, Returned

LEMMA NoPlace == NoTask \in Places
  BY L2Assumption DEF NoTask, Places

LEMMA SealWindowKeeps == ASSUME L2Inv, SealWindow PROVE L2Inv'
<1> DEFINE w == l2.at.w
           e == [win[w] EXCEPT !.st = "sealed"]
<1>1. /\ l2.pc = "process" /\ leased' = Returned(w)
      /\ l2' = [l2 EXCEPT !.pc = "idle", !.at = NoTask]
      /\ IF Listed(w) THEN SettleNow(w, e) ELSE UNCHANGED <<win, frozen>>
      /\ UNCHANGED <<bounds, mats, taken, waiting, cursor, made, queue, rotor, authority, l3,
                     stopper, published>>
  BY DEF SealWindow
<1>2. /\ w \in Wins /\ l2.victims = {} /\ win[w] \in Entries
      /\ l2' \in L2Type /\ l2'.pc = "idle" /\ l2'.victims = {}
  BY <1>1, AtL2, NoPlace DEF L2Hand, L2Type, L2Steps, WindowsOK
<1>3. /\ e \in Entries /\ e.cam = win[w].cam /\ e.mats = win[w].mats
      /\ e.done = win[w].done /\ e.br = win[w].br /\ e.st = "sealed"
  BY <1>2 DEF Entries, WinStates
<1> HIDE DEF e
<1>4. /\ Evolves /\ \A v \in Wins \ {w} : win'[v] = win[v]
      /\ Listed(w) => win'[w].st = IF Settleable(e) THEN "gone" ELSE "sealed"
  <2>1. CASE ~Listed(w)
    BY <1>1, <2>1, AtL2, EvolvesSame
  <2>2. CASE Listed(w)
    <3>1. e.st = win[w].st \/ (win[w].st = "producing" /\ e.st = "sealed")
      BY <1>3, <2>2 DEF Listed
    <3> QED BY <1>1, <1>2, <1>3, <2>2, <3>1, AtL2, SettleNowFacts
  <2> QED BY <2>1, <2>2
<1>5. /\ leased' \in [L2Cams -> SUBSET Nat]
      /\ \A c \in L2Cams : \A n \in leased'[c] :
           n \in leased[c] /\ (c = win[w].cam => n \notin win[w].mats)
  BY <1>1, <1>2, AtL2, ReturnedFacts
<1>6. ByL2 /\ QueueOK' /\ QueueKept' /\ L2Hand'
  BY <1>1, <1>2, <1>4, QueueSame DEF ByL2, L2Hand
<1>7. /\ WindowsOK' /\ BooksKept' /\ AuthorityOK' /\ ThreadsOK' /\ PublishedOK'
      /\ HistoryHonest' /\ StoreOK' /\ Hands'
  BY <1>1, <1>2, <1>5, <1>6, ByL2Keeps
<1>8. \A v \in Wins : Closer(v) => Closer(v)'
  BY <1>1 DEF Closer
<1>9. Marked'
  BY <1>4, <1>8, KeepsMarked
<1>10. ASSUME NEW v \in Wins, Late(v) PROVE ~Listed(v)'
  <2>1. v = w /\ ~win[w].done /\ \A b \in Branches : win[w].br[b] # "pending"
    BY <1>1, <1>10 DEF Late
  <2>2. Settleable(e)
    BY <1>3, <2>1 DEF Settleable
  <2> QED BY <1>2, <1>4, <2>1, <2>2, AtL2, EvolvesFacts DEF Listed
<1>11. Swept'
  BY <1>1, <1>4, <1>8, <1>10, KeepsSwept
<1>12. LeaseKept'
  <2>1. LeaseKept
    BY DEF L2Inv
  <2>2. \A c \in L2Cams : \A n \in leased'[c] : n \in ToSet(waiting[c])
    BY <1>5, <2>1 DEF LeaseKept
  <2> QED BY <1>1, <2>1, <2>2 DEF LeaseKept
<1>13. Owned'
  <2> SUFFICES ASSUME NEW t \in L2Tasks, InHands(t) PROVE InHands(t)'
    BY <1>4, KeepsOwned
  <2>1. win[t.w].done => win'[t.w].done
    BY <1>4 DEF Evolves, L2Tasks
  <2> QED BY <1>1, <1>2, <2>1 DEF InHands, Queued
<1> QED BY <1>6, <1>7, <1>9, <1>11, <1>12, <1>13 DEF L2Inv, Shape

LEMMA ExpireEndKeeps == ASSUME L2Inv, ExpireEnd PROVE L2Inv'
<1> DEFINE w == l2.at.w
<1>1. /\ l2.pc = "expire" /\ Closed(w, "gap") /\ leased' = Returned(w)
      /\ queue' = [c \in L2Cams |-> Kept(queue[c], {t \in Queued : t.w # w})]
      /\ l2' = [l2 EXCEPT !.pc = "turn", !.at = NoTask]
      /\ UNCHANGED <<bounds, mats, taken, waiting, cursor, made, rotor, authority, l3, stopper,
                     published>>
  BY DEF ExpireEnd, Closed
<1>2. /\ w \in Wins /\ win[w].done /\ l2.victims = {} /\ "gap" \in Terminals
      /\ l2' \in L2Type /\ l2'.pc = "turn" /\ l2'.victims = {}
  BY <1>1, AtL2, NoPlace DEF L2Hand, L2Type, L2Steps, Terminals
<1>3. Evolves /\ win'[w].st = "gone" /\ \A v \in Wins \ {w} : win'[v] = win[v]
  BY <1>1, <1>2, AtL2, ClosedFacts
<1>4. /\ leased' \in [L2Cams -> SUBSET Nat]
      /\ \A c \in L2Cams : \A n \in leased'[c] : n \in leased[c]
  BY <1>1, <1>2, AtL2, ReturnedFacts
<1>5. \A c \in L2Cams : /\ queue'[c] \in Seq(L2Tasks)
                        /\ ToSet(queue'[c]) = {t \in ToSet(queue[c]) : t.w # w}
  <2> SUFFICES ASSUME NEW c \in L2Cams
               PROVE  /\ queue'[c] \in Seq(L2Tasks)
                      /\ ToSet(queue'[c]) = {t \in ToSet(queue[c]) : t.w # w}
    OBVIOUS
  <2> DEFINE S == {t \in Queued : t.w # w}
  <2>1. queue[c] \in Seq(L2Tasks) /\ ToSet(queue[c]) \subseteq Queued
    BY AtL2, QueueFinite DEF QueueOK
  <2>2. queue'[c] = Kept(queue[c], S)
    BY <1>1
  <2>3. queue'[c] \in Seq(L2Tasks) /\ ToSet(queue'[c]) = ToSet(queue[c]) \cap S
    <3> HIDE DEF S
    <3> QED BY <2>1, <2>2, KeptFacts
  <2> QED BY <2>1, <2>3
<1>6. QueueOK' /\ QueueKept'
  <2>1. QueueOK'
    BY <1>1, <1>5, AtL2 DEF QueueOK
  <2> QED BY <1>1, <1>3, <1>5, <2>1, KeepsQueue
<1>7. ByL2 /\ L2Hand'
  BY <1>1, <1>2, <1>3 DEF ByL2, L2Hand
<1>8. /\ WindowsOK' /\ BooksKept' /\ AuthorityOK' /\ ThreadsOK' /\ PublishedOK'
      /\ HistoryHonest' /\ StoreOK' /\ Hands'
  BY <1>1, <1>2, <1>4, <1>7, ByL2Keeps
<1>9. \A v \in Wins : (Closer(v) /\ Listed(v)' => Closer(v)') /\ ~Late(v)
  BY <1>1, <1>3 DEF Closer, Listed, Late
<1>10. Marked' /\ Swept'
  BY <1>1, <1>3, <1>9, KeepsMarked, KeepsSwept
<1>11. LeaseKept'
  BY <1>1, <1>2, <1>4 DEF L2Inv, LeaseKept, InWork
<1>12. Owned'
  <2> SUFFICES ASSUME NEW t \in L2Tasks, Pending(t.w, t.b)', InHands(t) PROVE InHands(t)'
    BY <1>3, KeepsOwned
  <2>1. t.w # w
    BY <1>3 DEF Pending, Listed
  <2>2. t \in Queued => t \in Queued'
    BY <1>5, <2>1 DEF Queued
  <2>3. win[t.w].done => win'[t.w].done
    BY <1>3 DEF Evolves, L2Tasks
  <2> QED BY <1>1, <1>2, <2>2, <2>3 DEF InHands
<1> QED BY <1>6, <1>8, <1>10, <1>11, <1>12 DEF L2Inv, Shape

\* What became of a branch stays, whatever else happens to the windows.
LEMMA LastingKeeps ==
  ASSUME L2Inv, UNCHANGED <<published, l3>>,
         \A v \in Wins, b \in Branches :
           win[v].br[b] \in Terminals => win'[v].br[b] = win[v].br[b]
  PROVE  PublishedOK' /\ HistoryHonest' /\ L3Hand'
<1>1. PublishedOK /\ HistoryHonest /\ L3Hand
  BY DEF L2Inv, Hands, Shape
<1>2. PublishedOK' /\ HistoryHonest'
  BY <1>1 DEF PublishedOK, HistoryHonest, published, Terminals, L2Tasks
<1>3. L3Hand'
  BY <1>1 DEF L3Hand, Terminals, L2Tasks
<1> QED BY <1>2, <1>3

\* One field of one window.
LEMMA FieldFacts ==
  ASSUME WindowsOK, NEW w \in Wins
  PROVE  /\ \A b \in Branches, x \in BranchStates : win' = [win EXCEPT ![w].br[b] = x] =>
              /\ win' \in [Wins -> Entries] /\ \A v \in Wins \ {w} : win'[v] = win[v]
              /\ win'[w].cam = win[w].cam /\ win'[w].mats = win[w].mats
              /\ win'[w].done = win[w].done /\ win'[w].st = win[w].st /\ win'[w].br[b] = x
              /\ \A c \in Branches \ {b} : win'[w].br[c] = win[w].br[c]
         /\ win' = [win EXCEPT ![w].done = TRUE] =>
              /\ win' \in [Wins -> Entries] /\ \A v \in Wins \ {w} : win'[v] = win[v]
              /\ win'[w].cam = win[w].cam /\ win'[w].mats = win[w].mats
              /\ win'[w].done = TRUE /\ win'[w].st = win[w].st /\ win'[w].br = win[w].br
         /\ win' = [win EXCEPT ![w].st = "gone"] =>
              /\ win' \in [Wins -> Entries] /\ \A v \in Wins \ {w} : win'[v] = win[v]
              /\ win'[w].cam = win[w].cam /\ win'[w].mats = win[w].mats
              /\ win'[w].done = win[w].done /\ win'[w].st = "gone" /\ win'[w].br = win[w].br
         /\ \A i \in Nat : win' = [win EXCEPT ![w] = [@ EXCEPT !.st = "producing", !.id = i]] =>
              /\ win' \in [Wins -> Entries] /\ \A v \in Wins \ {w} : win'[v] = win[v]
              /\ win'[w].cam = win[w].cam /\ win'[w].mats = win[w].mats
              /\ win'[w].done = win[w].done /\ win'[w].st = "producing"
              /\ win'[w].br = win[w].br
<1>1. win \in [Wins -> Entries] /\ win[w] \in Entries
  BY DEF WindowsOK
<1>2. ASSUME NEW b \in Branches, NEW x \in BranchStates, win' = [win EXCEPT ![w].br[b] = x]
      PROVE  /\ win' \in [Wins -> Entries] /\ \A v \in Wins \ {w} : win'[v] = win[v]
             /\ win'[w].cam = win[w].cam /\ win'[w].mats = win[w].mats
             /\ win'[w].done = win[w].done /\ win'[w].st = win[w].st /\ win'[w].br[b] = x
             /\ \A c \in Branches \ {b} : win'[w].br[c] = win[w].br[c]
  <2>1. win'[w] = [win[w] EXCEPT !.br[b] = x] /\ \A v \in Wins \ {w} : win'[v] = win[v]
    BY <1>1, <1>2
  <2>2. win'[w] \in Entries
    BY <1>1, <2>1, EntryFacts
  <2> QED BY <1>1, <1>2, <2>1, <2>2 DEF Entries
<1>3. ASSUME win' = [win EXCEPT ![w].done = TRUE]
      PROVE  /\ win' \in [Wins -> Entries] /\ \A v \in Wins \ {w} : win'[v] = win[v]
             /\ win'[w].cam = win[w].cam /\ win'[w].mats = win[w].mats
             /\ win'[w].done = TRUE /\ win'[w].st = win[w].st /\ win'[w].br = win[w].br
  BY <1>1, <1>3 DEF Entries
<1>4. ASSUME win' = [win EXCEPT ![w].st = "gone"]
      PROVE  /\ win' \in [Wins -> Entries] /\ \A v \in Wins \ {w} : win'[v] = win[v]
             /\ win'[w].cam = win[w].cam /\ win'[w].mats = win[w].mats
             /\ win'[w].done = win[w].done /\ win'[w].st = "gone" /\ win'[w].br = win[w].br
  BY <1>1, <1>4 DEF Entries, WinStates
<1>5. ASSUME NEW i \in Nat, win' = [win EXCEPT ![w] = [@ EXCEPT !.st = "producing", !.id = i]]
      PROVE  /\ win' \in [Wins -> Entries] /\ \A v \in Wins \ {w} : win'[v] = win[v]
             /\ win'[w].cam = win[w].cam /\ win'[w].mats = win[w].mats
             /\ win'[w].done = win[w].done /\ win'[w].st = "producing"
             /\ win'[w].br = win[w].br
  BY <1>1, <1>5 DEF Entries, WinStates
<1> QED BY <1>2, <1>3, <1>4, <1>5

\* The branches of a window being produced, one more of which is registered, or
\* registered and dropped at once.
LEMMA NewBranchKeeps ==
  ASSUME L2Inv, NEW b \in Branches, Producing(b), NEW x \in {"pending", "gap"},
         win' = [win EXCEPT ![l2.at.w].br[b] = x],
         UNCHANGED <<materials, queue, rotor, authority, l3, stopper, published>>,
         l2' \in L2Type, l2'.pc \in {"process", "check"}, l2'.at.w = l2.at.w,
         l2'.victims = {}, l2'.pc = "check" => l2'.at.b = b,
         x = "pending" => l2'.pc = "check"
  PROVE  L2Inv'
<1> DEFINE w == l2.at.w
<1>1. /\ l2.pc = "process" /\ w \in Wins /\ w \in 1..made /\ l2.victims = {}
      /\ win[w].st = "producing" /\ ~win[w].done /\ win[w].br[b] = "none"
  BY AtL2 DEF Producing, L2Hand
<1>2. x \in BranchStates
  BY DEF BranchStates, Terminals
<1>3. /\ win' \in [Wins -> Entries] /\ \A v \in Wins \ {w} : win'[v] = win[v]
      /\ win'[w].cam = win[w].cam /\ win'[w].mats = win[w].mats
      /\ win'[w].done = win[w].done /\ win'[w].st = win[w].st /\ win'[w].br[b] = x
      /\ \A c \in Branches \ {b} : win'[w].br[c] = win[w].br[c]
  BY <1>1, <1>2, AtL2, FieldFacts
<1>4. \A v \in Wins : /\ win'[v].cam = win[v].cam /\ win'[v].mats = win[v].mats
                      /\ win'[v].done = win[v].done /\ win'[v].st = win[v].st
                      /\ Listed(v)' <=> Listed(v)
  BY <1>3 DEF Listed
<1>5. \A v \in Wins, c \in Branches : v # w \/ c # b => win'[v].br[c] = win[v].br[c]
  BY <1>3
<1>6. UNCHANGED <<bounds, mats, taken, waiting, leased, frozen, cursor, made>>
        /\ UNCHANGED <<registry, epoch, stopping, committed, l3, stopper, queue, rotor>>
  BY DEF materials, authority
<1>7. PublishedOK' /\ HistoryHonest' /\ L3Hand'
  <2>1. \A v \in Wins, c \in Branches :
          win[v].br[c] \in Terminals => win'[v].br[c] = win[v].br[c]
    BY <1>1, <1>5 DEF Terminals
  <2> QED BY <2>1, LastingKeeps
<1>8. WindowsOK' /\ QueueOK' /\ AuthorityOK' /\ ThreadsOK'
  BY <1>3, <1>6 DEF L2Inv, Shape, WindowsOK, QueueOK, AuthorityOK, ThreadsOK, L2Type
<1>9. StoreOK'
  BY <1>4, <1>6 DEF L2Inv, StoreOK
<1>10. L2Hand' /\ StopHand'
  BY <1>1, <1>4, <1>6 DEF L2Inv, Hands, L2Hand, StopHand
<1>11. QueueKept'
  <2>1. \A c \in L2Cams : \A t \in ToSet(queue[c]) : t.w \in Wins
    BY AtL2, QueueFinite DEF L2Tasks
  <2> QED BY <1>4, <1>6, <2>1, AtL2 DEF QueueKept, CamOf, Queued
<1>12. BooksKept'
  <2>1. BooksKept /\ frozen \subseteq Wins
    BY AtL2 DEF WindowsOK
  <2>2. ASSUME NEW v \in Wins, win[v].st \in {"unused", "held"} PROVE Blank(v)'
    <3>1. v # w
      BY <1>1, <2>2
    <3> QED BY <1>3, <2>1, <2>2, <3>1 DEF BooksKept, Blank
  <2>3. ASSUME NEW v \in Wins, ~Listed(v) PROVE \A c \in Branches : win'[v].br[c] # "pending"
    <3>1. v # w
      BY <1>1, <2>3 DEF Listed
    <3> QED BY <1>3, <2>1, <2>3, <3>1 DEF BooksKept
  <2>4. \A v \in Wins : win[v].st # "held"
    BY <1>1, <2>1 DEF BooksKept
  <2> QED BY <1>4, <1>6, <2>1, <2>2, <2>3, <2>4 DEF BooksKept
<1>13. \A v \in Wins : ~(l2.pc = "expire") /\ (Closer(v) => Closer(v)')
  BY <1>1, <1>6 DEF Closer
<1>14. Marked'
  BY <1>4, <1>13 DEF L2Inv, Marked
<1>15. \A v \in Wins : Late(v) => Late(v)'
  <2> SUFFICES ASSUME NEW v \in Wins, Late(v) PROVE Late(v)'
    OBVIOUS
  <2>1. v = w /\ \A c \in Branches : win[v].br[c] # "pending"
    BY <1>1 DEF Late
  <2>2. \A c \in Branches : win'[v].br[c] = "pending" => c = b /\ x = "pending"
    BY <1>3, <2>1
  <2> QED BY <1>4, <2>1, <2>2 DEF Late
<1>16. Swept'
  BY <1>4, <1>6, <1>13, <1>15 DEF L2Inv, Swept
<1>17. LeaseKept'
  BY <1>1, <1>4, <1>6, AtL2, EntryFacts DEF L2Inv, LeaseKept, InWork, WindowsOK
<1>18. Owned'
  <2> SUFFICES ASSUME NEW t \in L2Tasks, Pending(t.w, t.b)' PROVE InHands(t)'
    BY DEF Owned
  <2>1. t.w \in Wins /\ t.b \in Branches /\ t = [w |-> t.w, b |-> t.b]
    BY DEF L2Tasks
  <2>2. CASE t.w = w /\ t.b = b
    <3>1. l2'.pc = "check" /\ l2'.at.b = b
      BY <1>3, <2>2 DEF Pending
    <3>2. l2'.at = [w |-> w, b |-> b]
      BY <3>1 DEF L2Type, Places
    <3> QED BY <2>1, <2>2, <3>1, <3>2 DEF InHands
  <2>3. CASE ~(t.w = w /\ t.b = b)
    <3>1. Pending(t.w, t.b)
      BY <1>4, <1>5, <2>1, <2>3 DEF Pending
    <3>2. InHands(t)
      BY <3>1 DEF L2Inv, Owned
    <3> QED BY <1>1, <1>4, <1>6, <2>1, <3>2 DEF InHands, Queued
  <2> QED BY <2>2, <2>3
<1> QED BY <1>7, <1>8, <1>9, <1>10, <1>11, <1>12, <1>14, <1>16, <1>17, <1>18
        DEF L2Inv, Shape, Hands

LEMMA RegisterBranchKeeps ==
  ASSUME L2Inv, NEW b \in Branches, RegisterBranch(b) PROVE L2Inv'
<1>1. /\ Producing(b) /\ win' = [win EXCEPT ![l2.at.w].br[b] = "pending"]
      /\ l2' = [l2 EXCEPT !.pc = "check", !.at.b = b]
      /\ UNCHANGED <<materials, queue, rotor, authority, l3, stopper, published>>
  BY DEF RegisterBranch
<1>2. l2 \in L2Type /\ l2.victims = {}
  BY <1>1, AtL2 DEF Producing, L2Hand
<1>3. /\ l2' \in L2Type /\ l2'.pc = "check" /\ l2'.at.w = l2.at.w /\ l2'.at.b = b
      /\ l2'.victims = {}
  BY <1>1, <1>2 DEF L2Type, L2Steps, Places
<1> QED BY <1>1, <1>3, NewBranchKeeps

LEMMA DropBranchKeeps ==
  ASSUME L2Inv, NEW b \in Branches, DropBranch(b) PROVE L2Inv'
<1>1. /\ Producing(b) /\ win' = [win EXCEPT ![l2.at.w].br[b] = "gap"]
      /\ UNCHANGED <<materials, queue, rotor, authority, l2, l3, stopper, published>>
  BY DEF DropBranch
<1>2. l2' \in L2Type /\ l2'.victims = {} /\ l2'.pc = "process"
  BY <1>1, AtL2 DEF Producing, L2Hand
<1> QED BY <1>1, <1>2, NewBranchKeeps

\* A window on the books is marked too old.
LEMMA MarkKeeps ==
  ASSUME L2Inv, NEW w \in Wins, Listed(w), win' = [win EXCEPT ![w].done = TRUE],
         UNCHANGED <<materials, queue, rotor, authority, l3, published>>,
         l2'.pc = "register" <=> l2.pc = "register", l2.pc = "register" => l2'.at.w = l2.at.w,
         stopper'.pc \in {"drain", "windows", "closing", "closed"} =>
           stopper.pc \in {"drain", "windows", "closing", "closed"}
  PROVE  /\ WindowsOK' /\ QueueOK' /\ AuthorityOK' /\ StoreOK' /\ QueueKept' /\ BooksKept'
         /\ PublishedOK' /\ HistoryHonest' /\ L3Hand'
         /\ win'[w].done /\ w \in 1..made
         /\ \A v \in Wins : /\ win'[v].cam = win[v].cam /\ win'[v].mats = win[v].mats
                            /\ win'[v].st = win[v].st /\ win'[v].br = win[v].br
                            /\ Listed(v)' <=> Listed(v)
                            /\ v # w => win'[v].done = win[v].done
<1>1. /\ win' \in [Wins -> Entries] /\ \A v \in Wins \ {w} : win'[v] = win[v]
      /\ win'[w].cam = win[w].cam /\ win'[w].mats = win[w].mats
      /\ win'[w].done = TRUE /\ win'[w].st = win[w].st /\ win'[w].br = win[w].br
  BY AtL2, FieldFacts
<1>2. \A v \in Wins : /\ win'[v].cam = win[v].cam /\ win'[v].mats = win[v].mats
                      /\ win'[v].st = win[v].st /\ win'[v].br = win[v].br
                      /\ Listed(v)' <=> Listed(v)
                      /\ v # w => win'[v].done = win[v].done
  BY <1>1 DEF Listed
<1>3. UNCHANGED <<bounds, mats, taken, waiting, leased, frozen, cursor, made>>
        /\ UNCHANGED <<registry, epoch, stopping, committed>>
  BY DEF materials, authority
<1>4. WindowsOK' /\ QueueOK' /\ AuthorityOK'
  BY <1>1, <1>3 DEF L2Inv, Shape, WindowsOK, QueueOK, AuthorityOK
<1>5. StoreOK'
  BY <1>2, <1>3 DEF L2Inv, StoreOK
<1>6. QueueKept'
  <2>1. \A c \in L2Cams : \A t \in ToSet(queue[c]) : t.w \in Wins
    BY AtL2, QueueFinite DEF L2Tasks
  <2> QED BY <1>2, <1>3, <2>1, AtL2 DEF QueueKept, CamOf, Queued
<1>7. BooksKept'
  <2>1. BooksKept /\ frozen \subseteq Wins
    BY AtL2 DEF WindowsOK
  <2>2. win[w].st \notin {"unused", "held"}
    BY DEF Listed
  <2>3. \A v \in Wins : win[v].st \in {"unused", "held"} => Blank(v)'
    BY <1>2, <2>1, <2>2 DEF BooksKept, Blank
  <2>4. /\ \A v \in Wins : v > made' => win'[v].st = "unused"
        /\ \A v \in Wins : win'[v].st \in {"unused", "held"} => Blank(v)'
    BY <1>2, <1>3, <2>1, <2>3 DEF BooksKept
  <2>5. \A v \in Wins : win'[v].st = "held" <=> l2'.pc = "register" /\ l2'.at.w = v
    <3>1. \A v \in Wins : win[v].st = "held" <=> l2.pc = "register" /\ l2.at.w = v
      BY <2>1 DEF BooksKept
    <3> QED BY <1>2, <3>1
  <2>6. \A v \in Wins : ~Listed(v)' => \A b \in Branches : win'[v].br[b] # "pending"
    <3>1. \A v \in Wins : ~Listed(v) => \A b \in Branches : win[v].br[b] # "pending"
      BY <2>1 DEF BooksKept
    <3> QED BY <1>2, <3>1
  <2>7. \A v \in frozen' : Listed(v)' \/ win'[v].st = "held"
    <3>1. \A v \in frozen : v \in Wins /\ (Listed(v) \/ win[v].st = "held")
      BY <2>1 DEF BooksKept
    <3> QED BY <1>2, <1>3, <3>1
  <2> QED BY <2>4, <2>5, <2>6, <2>7 DEF BooksKept
<1>8. PublishedOK' /\ HistoryHonest' /\ L3Hand'
  BY <1>2, LastingKeeps
<1>9. w \in 1..made
  BY MadeFacts, AtL2 DEF Wins, BooksKept, Listed
<1> QED BY <1>1, <1>2, <1>4, <1>5, <1>6, <1>7, <1>8, <1>9

LEMMA ExpireWindowKeeps == ASSUME L2Inv, NEW w \in Wins, ExpireWindow(w) PROVE L2Inv'
<1>1. /\ l2.pc = "turn" /\ Listed(w) /\ ~win[w].done /\ win' = [win EXCEPT ![w].done = TRUE]
      /\ l2' = [l2 EXCEPT !.pc = "expire", !.at = [w |-> w, b |-> "none"]]
      /\ UNCHANGED <<materials, queue, rotor, authority, l3, stopper, published>>
  BY DEF ExpireWindow
<1>2. /\ l2' \in L2Type /\ l2'.pc = "expire" /\ l2'.at.w = w /\ l2'.victims = {}
  <2>1. w \in 0..MaxWin
    BY L2Assumption DEF Wins
  <2>2. [w |-> w, b |-> "none"] \in Places
    BY <2>1 DEF Places
  <2>3. l2 \in L2Type /\ l2.victims = {}
    BY <1>1, AtL2 DEF L2Hand
  <2>4. "expire" \in L2Steps
    BY DEF L2Steps
  <2> QED BY <1>1, <2>2, <2>3, <2>4 DEF L2Type
<1>3. /\ WindowsOK' /\ QueueOK' /\ AuthorityOK' /\ StoreOK' /\ QueueKept' /\ BooksKept'
      /\ PublishedOK' /\ HistoryHonest' /\ L3Hand'
      /\ win'[w].done /\ w \in 1..made
      /\ \A v \in Wins : /\ win'[v].cam = win[v].cam /\ win'[v].mats = win[v].mats
                         /\ win'[v].st = win[v].st /\ win'[v].br = win[v].br
                         /\ Listed(v)' <=> Listed(v)
                         /\ v # w => win'[v].done = win[v].done
  BY <1>1, <1>2, MarkKeeps
<1>4. ThreadsOK'
  BY <1>1, <1>2, AtL2 DEF ThreadsOK, L2Type
<1>5. /\ UNCHANGED <<leased, waiting, made, stopping, committed, queue, stopper>>
  BY <1>1 DEF materials, authority
<1>6. Hands'
  BY <1>2, <1>3, <1>5, AtL2 DEF Hands, L2Hand, StopHand
<1>7. Marked'
  BY <1>1, <1>2, <1>3, <1>5 DEF L2Inv, Marked, Closer
<1>8. Swept'
  BY <1>1, <1>2, <1>3, <1>5 DEF L2Inv, Swept, Closer, Late
<1>9. LeaseKept'
  BY <1>1, <1>2, <1>5 DEF L2Inv, LeaseKept, InWork
<1>10. Owned'
  <2> SUFFICES ASSUME NEW t \in L2Tasks, Pending(t.w, t.b)' PROVE InHands(t)'
    BY DEF Owned
  <2>1. t.w \in Wins /\ t.b \in Branches
    BY DEF L2Tasks
  <2>2. InHands(t)
    BY <1>3, <2>1 DEF L2Inv, Owned, Pending
  <2> QED BY <1>1, <1>3, <1>5, <2>1, <2>2, AtL2 DEF InHands, Queued, L2Hand
<1> QED BY <1>3, <1>4, <1>6, <1>7, <1>8, <1>9, <1>10 DEF L2Inv, Shape

LEMMA RegisterWindowKeeps == ASSUME L2Inv, RegisterWindow PROVE L2Inv'
<1> DEFINE w == l2.at.w
<1>1. /\ l2.pc = "register"
      /\ UNCHANGED <<bounds, mats, taken, waiting, cursor, made, queue, rotor, authority, l3,
                     stopper, published>>
  BY DEF RegisterWindow
<1>2. /\ w \in Wins /\ w \in 1..made /\ win[w].st = "held" /\ Blank(w) /\ l2.victims = {}
      /\ win[w].cam \in L2Cams
  BY <1>1, AtL2, EntryFacts DEF BooksKept, L2Hand, WindowsOK
<1>3. \A v \in Wins \ {w} : win[v].st # "held"
  BY <1>1, AtL2 DEF BooksKept
<1>4. UNCHANGED <<bounds, mats, taken, waiting, cursor, made>>
        /\ UNCHANGED <<registry, epoch, stopping, committed, l3, stopper, queue, rotor>>
  BY <1>1 DEF authority
<1>5. \/ /\ win' = [win EXCEPT ![w].st = "gone"] /\ leased' = Returned(w)
         /\ frozen' = frozen \ {w} /\ l2' = [l2 EXCEPT !.pc = "idle", !.at = NoTask]
      \/ /\ win' = [win EXCEPT ![w] = [@ EXCEPT !.st = "producing", !.id = registry[win[w].cam]]]
         /\ l2' = [l2 EXCEPT !.pc = "process"] /\ UNCHANGED <<leased, frozen>>
  BY DEF RegisterWindow
<1>6. /\ win' \in [Wins -> Entries] /\ \A v \in Wins \ {w} : win'[v] = win[v]
      /\ win'[w].cam = win[w].cam /\ win'[w].mats = win[w].mats
      /\ win'[w].done = win[w].done /\ win'[w].br = win[w].br
      /\ \/ win'[w].st = "gone" /\ l2'.pc = "idle" /\ leased' = Returned(w)
              /\ frozen' = frozen \ {w}
         \/ win'[w].st = "producing" /\ l2'.pc = "process" /\ l2'.at = l2.at
              /\ UNCHANGED <<leased, frozen>>
      /\ l2' \in L2Type /\ l2'.victims = {}
  <2>1. registry[win[w].cam] \in Nat
    BY <1>2 DEF L2Inv, Shape, AuthorityOK
  <2>2. l2 \in L2Type /\ WindowsOK
    BY AtL2
  <2>3. CASE /\ win' = [win EXCEPT ![w].st = "gone"] /\ leased' = Returned(w)
             /\ frozen' = frozen \ {w} /\ l2' = [l2 EXCEPT !.pc = "idle", !.at = NoTask]
    <3>1. l2' \in L2Type /\ l2'.victims = {} /\ l2'.pc = "idle"
      BY <1>2, <2>2, <2>3, NoPlace DEF L2Type, L2Steps
    <3> QED BY <1>2, <2>2, <2>3, <3>1, FieldFacts
  <2>4. CASE /\ win' = [win EXCEPT ![w] = [@ EXCEPT !.st = "producing", !.id = registry[win[w].cam]]]
             /\ l2' = [l2 EXCEPT !.pc = "process"] /\ UNCHANGED <<leased, frozen>>
    <3>1. /\ l2' \in L2Type /\ l2'.victims = {} /\ l2'.pc = "process" /\ l2'.at = l2.at
      BY <1>2, <2>2, <2>4 DEF L2Type, L2Steps
    <3> QED BY <1>2, <2>1, <2>2, <2>4, <3>1, FieldFacts
  <2> QED BY <1>5, <2>3, <2>4
<1>7. \A v \in Wins : /\ win'[v].cam = win[v].cam /\ win'[v].mats = win[v].mats
                      /\ win'[v].done = win[v].done /\ win'[v].br = win[v].br
                      /\ v # w => (Listed(v)' <=> Listed(v)) /\ win'[v].st = win[v].st
  BY <1>6 DEF Listed
<1>8. PublishedOK' /\ HistoryHonest' /\ L3Hand'
  BY <1>1, <1>7, LastingKeeps
<1>9. WindowsOK' /\ QueueOK' /\ AuthorityOK' /\ ThreadsOK'
  BY <1>4, <1>6 DEF L2Inv, Shape, WindowsOK, QueueOK, AuthorityOK, ThreadsOK, L2Type
<1>10. StoreOK'
  <2>1. leased' \in [L2Cams -> SUBSET Nat]
    BY <1>2, <1>6, AtL2, ReturnedFacts DEF StoreOK
  <2> QED BY <1>4, <1>7, <2>1 DEF L2Inv, StoreOK
<1>11. Hands'
  BY <1>2, <1>4, <1>6, <1>7, <1>8, AtL2 DEF Hands, L2Hand, StopHand
<1>12. QueueKept'
  <2>1. \A c \in L2Cams : \A t \in ToSet(queue[c]) : t.w \in Wins
    BY AtL2, QueueFinite DEF L2Tasks
  <2> QED BY <1>4, <1>7, <2>1, AtL2 DEF QueueKept, CamOf, Queued
<1>13. BooksKept'
  <2>1. BooksKept /\ frozen \subseteq Wins /\ made \in Nat
    BY AtL2, MadeFacts DEF WindowsOK
  <2>2. ASSUME NEW v \in Wins
        PROVE  /\ (v > made => win[v].st = "unused")'
               /\ (win[v].st \in {"unused", "held"} => Blank(v))'
               /\ (win[v].st = "held" <=> l2.pc = "register" /\ l2.at.w = v)'
               /\ (~Listed(v) => \A b \in Branches : win[v].br[b] # "pending")'
    <3>1. CASE v # w
      BY <1>3, <1>4, <1>6, <1>7, <2>1, <3>1 DEF BooksKept, Blank
    <3>2. CASE v = w
      BY <1>2, <1>4, <1>6, <2>1, <3>2 DEF Blank, Listed
    <3> QED BY <3>1, <3>2
  <2>3. (\A v \in frozen : Listed(v) \/ win[v].st = "held")'
    BY <1>2, <1>3, <1>6, <1>7, <2>1 DEF BooksKept, Listed
  <2> QED BY <2>2, <2>3 DEF BooksKept
<1>14. \A v \in Wins : Closer(v) => Closer(v)'
  BY <1>1, <1>4 DEF Closer
<1>15. Marked'
  <2>1. Marked /\ ~win[w].done
    BY <1>2 DEF L2Inv, Blank
  <2> QED BY <1>7, <1>14, <2>1 DEF Marked
<1>16. Swept'
  <2>1. Swept
    BY DEF L2Inv
  <2>2. \A v \in Wins : ~Late(v)
    BY <1>1 DEF Late
  <2>3. ASSUME NEW v \in Wins, v = w, Listed(v)' PROVE Late(v)'
    <3>1. l2'.pc = "process" /\ l2'.at.w = v
      BY <1>6, <2>3 DEF Listed
    <3>2. ~win'[v].done /\ \A b \in Branches : win'[v].br[b] = "none"
      BY <1>2, <1>6, <2>3 DEF Blank
    <3> QED BY <3>1, <3>2 DEF Late
  <2>4. ASSUME stopper'.pc \in {"windows", "closing", "closed"}, NEW v \in Wins, Listed(v)'
        PROVE  v \in stopper'.keys \/ Closer(v)' \/ Late(v)'
    <3>1. CASE v = w
      BY <2>3, <2>4, <3>1
    <3>2. CASE v # w
      <4>1. Listed(v) /\ stopper.pc \in {"windows", "closing", "closed"}
        BY <1>4, <1>7, <2>4, <3>2
      <4>2. v \in stopper.keys \/ Closer(v)
        BY <2>1, <2>2, <4>1 DEF Swept
      <4> QED BY <1>4, <1>14, <4>2
    <3> QED BY <3>1, <3>2
  <2> QED BY <2>4 DEF Swept
<1>17. LeaseKept'
  <2>1. LeaseKept
    BY DEF L2Inv
  <2>2. CASE leased' = Returned(w)
    <3>1. \A c \in L2Cams : \A n \in leased'[c] :
            n \in leased[c] /\ (c = win[w].cam => n \notin win[w].mats)
      BY <1>2, <2>2, AtL2, ReturnedFacts
    <3> QED BY <1>4, <2>1, <3>1 DEF LeaseKept
  <2>3. CASE l2'.pc = "process" /\ l2'.at = l2.at /\ leased' = leased
    BY <1>1, <1>2, <1>4, <1>7, <2>1, <2>3 DEF LeaseKept, InWork
  <2> QED BY <1>6, <2>2, <2>3
<1>18. Owned'
  <2> SUFFICES ASSUME NEW t \in L2Tasks, Pending(t.w, t.b)' PROVE InHands(t)'
    BY DEF Owned
  <2>1. t.w \in Wins /\ t.b \in Branches
    BY DEF L2Tasks
  <2>2. t.w # w
    BY <1>2, <1>7, <2>1 DEF Pending, Blank
  <2>3. InHands(t)
    BY <1>7, <2>1, <2>2 DEF L2Inv, Owned, Pending
  <2> QED BY <1>1, <1>2, <1>4, <1>7, <2>1, <2>3 DEF InHands, Queued
<1> QED BY <1>8, <1>9, <1>10, <1>11, <1>12, <1>13, <1>15, <1>16, <1>17, <1>18
        DEF L2Inv, Shape
-------------------------------------------------------------------------------
(* The store, the identities and the scheduler. *)

\* A step that touches nothing but the materials made and the identities.
LEMMA AroundKeeps ==
  ASSUME L2Inv, AuthorityOK', StoreOK',
         UNCHANGED <<waiting, leased, frozen, made, win, queue, rotor, stopping, committed,
                     l2, l3, stopper, published>>
  PROVE  L2Inv'
<1>1. UNCHANGED <<history, versions>>
  BY DEF published
<1>2. WindowsOK' /\ QueueOK' /\ ThreadsOK' /\ PublishedOK'
  BY <1>1 DEF L2Inv, Shape, WindowsOK, QueueOK, ThreadsOK, PublishedOK
<1>3. Hands'
  BY DEF L2Inv, Hands, L2Hand, L3Hand, StopHand
<1>4. QueueKept'
  BY DEF L2Inv, QueueKept, CamOf, Queued
<1>5. BooksKept'
  BY DEF L2Inv, BooksKept, Listed, Blank
<1>6. Marked' /\ Swept'
  BY DEF L2Inv, Marked, Swept, Listed, Closer, Late
<1>7. LeaseKept'
  BY DEF L2Inv, LeaseKept
<1>8. Owned'
  BY DEF L2Inv, Owned, Pending, Listed, InHands, Queued
<1>9. HistoryHonest'
  BY <1>1 DEF L2Inv, HistoryHonest
<1> QED BY <1>2, <1>3, <1>4, <1>5, <1>6, <1>7, <1>8, <1>9 DEF L2Inv, Shape

LEMMA StutterKeeps == ASSUME L2Inv, UNCHANGED l2vars PROVE L2Inv'
<1>1. UNCHANGED <<bounds, mats, taken, waiting, leased, frozen, cursor, made, win, queue, rotor,
                  registry, epoch, stopping, committed, l2, l3, stopper, published>>
  BY DEF l2vars, published
<1>2. AuthorityOK' /\ StoreOK'
  BY <1>1 DEF L2Inv, Shape, AuthorityOK, StoreOK
<1> QED BY <1>1, <1>2, AroundKeeps

LEMMA SetIdentityKeeps == ASSUME L2Inv, NEW c \in L2Cams, SetIdentity(c) PROVE L2Inv'
<1>1. /\ registry[c] <= bounds.changes[c] /\ registry' = [registry EXCEPT ![c] = @ + 1]
      /\ epoch' = epoch + 1
      /\ UNCHANGED <<materials, win, queue, rotor, stopping, committed, l2, l3, stopper,
                     published>>
  BY DEF SetIdentity
<1>2. UNCHANGED <<bounds, mats, taken, waiting, leased, frozen, cursor, made>>
  BY <1>1 DEF materials
<1>3. AuthorityOK'
  <2>1. AuthorityOK /\ \A d \in L2Cams : bounds.changes[d] \in Nat
    BY L2Assumption DEF L2Inv, Shape, AuthorityOK
  <2>2. \A d \in L2Cams : registry'[d] = IF d = c THEN registry[c] + 1 ELSE registry[d]
    BY <1>1, <2>1 DEF AuthorityOK
  <2>3. \A d \in L2Cams : registry'[d] \in 1..(bounds.changes[d] + 1) /\ registry'[d] \in Nat
    BY <1>1, <2>1, <2>2 DEF AuthorityOK
  <2>4. registry' \in [L2Cams -> Nat]
    BY <1>1, <2>1, <2>3 DEF AuthorityOK
  <2> QED BY <1>1, <1>2, <2>1, <2>3, <2>4 DEF AuthorityOK
<1>4. StoreOK'
  BY <1>1, <1>2 DEF L2Inv, StoreOK
<1> QED BY <1>1, <1>2, <1>3, <1>4, AroundKeeps

LEMMA ArriveKeeps == ASSUME L2Inv, NEW c \in L2Cams, Arrive(c) PROVE L2Inv'
<1>1. /\ mats' = [mats EXCEPT ![c] = Append(@, registry[c])]
      /\ UNCHANGED <<bounds, taken, waiting, leased, frozen, cursor, made, win, queue, rotor,
                     authority, l2, l3, stopper, published>>
  BY DEF Arrive
<1>2. UNCHANGED <<registry, epoch, stopping, committed>>
  BY <1>1 DEF authority
<1>3. StoreOK /\ AuthorityOK /\ WindowsOK
  BY DEF L2Inv, Shape
<1>4. AuthorityOK'
  BY <1>1, <1>2, <1>3 DEF AuthorityOK
<1>5. /\ mats' \in [L2Cams -> Seq(Nat)]
      /\ \A d \in L2Cams : /\ mats'[d] \in Seq(1..(bounds.changes[d] + 1))
                           /\ Len(mats[d]) \in Nat /\ Len(mats'[d]) \in Nat
                           /\ Len(mats[d]) <= Len(mats'[d])
  <2>1. registry[c] \in 1..(bounds.changes[c] + 1) /\ registry[c] \in Nat
    BY <1>3 DEF AuthorityOK
  <2>2. /\ mats[c] \in Seq(1..(bounds.changes[c] + 1)) /\ mats[c] \in Seq(Nat)
    BY <1>3 DEF StoreOK
  <2>3. /\ Append(mats[c], registry[c]) \in Seq(1..(bounds.changes[c] + 1))
        /\ Append(mats[c], registry[c]) \in Seq(Nat)
        /\ Len(Append(mats[c], registry[c])) = Len(mats[c]) + 1
    BY <2>1, <2>2, AppendProperties
  <2>4. mats \in [L2Cams -> Seq(Nat)] /\ \A d \in L2Cams : Len(mats[d]) \in Nat
    BY <1>3, LenProperties DEF StoreOK
  <2>5. \A d \in L2Cams :
          mats'[d] = IF d = c THEN Append(mats[c], registry[c]) ELSE mats[d]
    BY <1>1, <2>4
  <2>6. mats' \in [L2Cams -> Seq(Nat)]
    BY <1>1, <2>3, <2>4
  <2>7. ASSUME NEW d \in L2Cams
        PROVE  /\ mats'[d] \in Seq(1..(bounds.changes[d] + 1))
               /\ Len(mats'[d]) \in Nat /\ Len(mats[d]) <= Len(mats'[d])
    <3>1. CASE d = c
      <4>1. mats'[d] = Append(mats[c], registry[c])
        BY <2>5, <3>1
      <4>2. Len(mats'[d]) = Len(mats[d]) + 1 /\ Len(mats[d]) \in Nat
        BY <2>3, <2>4, <3>1, <4>1
      <4>3. mats'[d] \in Seq(1..(bounds.changes[d] + 1))
        BY <2>3, <3>1, <4>1
      <4> QED BY <4>2, <4>3
    <3>2. CASE d # c
      BY <1>3, <2>4, <2>5, <3>2 DEF StoreOK
    <3> QED BY <3>1, <3>2
  <2> QED BY <2>4, <2>6, <2>7
<1>6. StoreOK'
  <2>1. ASSUME NEW d \in L2Cams
        PROVE  /\ mats'[d] \in Seq(1..(bounds'.changes[d] + 1))
               /\ taken'[d] <= Len(mats'[d]) /\ Len(waiting'[d]) <= 2
               /\ ToSet(waiting'[d]) \subseteq 1..Len(mats'[d])
    BY <1>1, <1>3, <1>5 DEF StoreOK
  <2>2. ASSUME NEW w \in Wins PROVE win'[w].mats \subseteq 1..Len(mats'[win'[w].cam])
    <3>1. win[w].cam \in L2Cams
      BY <1>3, EntryFacts DEF WindowsOK
    <3> QED BY <1>1, <1>3, <1>5, <3>1 DEF StoreOK
  <2> QED BY <1>1, <1>3, <1>5, <2>1, <2>2 DEF StoreOK
<1> QED BY <1>1, <1>2, <1>4, <1>6, AroundKeeps

\* One call of the scheduler, for the windows it lifts and the materials it finds too old.
AcquireWith(lifted, dead) ==
        LET still == frozen \ lifted
            busy == {win[w].cam : w \in still}
            free == L2Cams \ busy
            offering == {c \in free : Offer(c, dead) # <<>>}
            served == {c \in offering : \A d \in offering : TurnOf(c) <= TurnOf(d)}
            visited == {d \in free : \A c \in served : TurnOf(d) <= TurnOf(c)}
            line == [c \in L2Cams |-> IF c \in busy THEN Harvested(c, dead)
                                      ELSE IF c \in visited THEN <<>>
                                      ELSE waiting[c]]
        IN  /\ served # {} => made < MaxWin
            /\ taken' = [c \in L2Cams |-> IF c \in busy THEN Len(mats[c])
                                          ELSE IF c \in visited THEN TakenBy(c, dead)
                                          ELSE taken[c]]
            /\ waiting' = line
            /\ leased' = [c \in L2Cams |->
                            (leased[c] \ ToSet(waiting[c])) \cup ToSet(line[c])
                              \cup IF c \in served THEN ToSet(Offer(c, dead)) ELSE {}]
            /\ \/ /\ served = {}
                  /\ frozen' = still
                  /\ l2' = [l2 EXCEPT !.pc = "idle"]
                  /\ UNCHANGED <<cursor, made, win>>
               \/ \E c \in served :
                    /\ made' = made + 1
                    /\ frozen' = still \cup {made + 1}
                    /\ cursor' = c
                    /\ win' = [win EXCEPT ![made + 1] =
                                 [@ EXCEPT !.cam = c, !.st = "held",
                                           !.mats = ToSet(Offer(c, dead))]]
                    /\ l2' = [l2 EXCEPT !.pc = "register", !.at = [w |-> made + 1, b |-> "none"]]

\* What it leaves waiting, taken and leased, and the window it makes.
Supplied(c, M) ==
    /\ M \subseteq 1..Len(mats[c])
    /\ made < MaxWin /\ made' = made + 1 /\ cursor' = c
    /\ frozen' \subseteq frozen \cup {made + 1}
    /\ win' = [win EXCEPT ![made + 1] = [@ EXCEPT !.cam = c, !.st = "held", !.mats = M]]
    /\ l2' = [l2 EXCEPT !.pc = "register", !.at = [w |-> made + 1, b |-> "none"]]
    /\ \A d \in L2Cams : leased'[d] \ ToSet(waiting'[d])
                           \subseteq (leased[d] \ ToSet(waiting[d])) \cup IF d = c THEN M ELSE {}
NothingSupplied ==
    /\ UNCHANGED <<cursor, made, win>> /\ frozen' \subseteq frozen
    /\ l2' = [l2 EXCEPT !.pc = "idle"]
    /\ \A d \in L2Cams : leased'[d] \ ToSet(waiting'[d]) \subseteq leased[d] \ ToSet(waiting[d])

LEMMA AcquireWithFacts ==
  ASSUME StoreOK, WindowsOK, NEW lifted, NEW dead, AcquireWith(lifted, dead)
  PROVE  /\ taken' \in [L2Cams -> Nat] /\ waiting' \in [L2Cams -> Seq(Nat)]
         /\ leased' \in [L2Cams -> SUBSET Nat]
         /\ \A c \in L2Cams : /\ taken'[c] <= Len(mats[c]) /\ Len(waiting'[c]) <= 2
                              /\ ToSet(waiting'[c]) \subseteq 1..Len(mats[c])
         /\ \/ NothingSupplied
            \/ \E c \in L2Cams : Supplied(c, ToSet(Offer(c, dead)))
<1> DEFINE still == frozen \ lifted
           busy == {win[w].cam : w \in still}
           free == L2Cams \ busy
           offering == {c \in free : Offer(c, dead) # <<>>}
           served == {c \in offering : \A d \in offering : TurnOf(c) <= TurnOf(d)}
           visited == {d \in free : \A c \in served : TurnOf(d) <= TurnOf(c)}
           line == [c \in L2Cams |-> IF c \in busy THEN Harvested(c, dead)
                                     ELSE IF c \in visited THEN <<>>
                                     ELSE waiting[c]]
<1>1. served # {} => made < MaxWin
  BY DEF AcquireWith
<1>2. taken' = [c \in L2Cams |-> IF c \in busy THEN Len(mats[c])
                                 ELSE IF c \in visited THEN TakenBy(c, dead) ELSE taken[c]]
  BY DEF AcquireWith
<1>3. waiting' = line
  BY DEF AcquireWith
<1>4. leased' = [c \in L2Cams |-> (leased[c] \ ToSet(waiting[c])) \cup ToSet(line[c])
                                    \cup IF c \in served THEN ToSet(Offer(c, dead)) ELSE {}]
  BY DEF AcquireWith
<1>5. \/ /\ served = {} /\ frozen' = still /\ l2' = [l2 EXCEPT !.pc = "idle"]
         /\ UNCHANGED <<cursor, made, win>>
      \/ \E c \in served :
           /\ made' = made + 1 /\ frozen' = still \cup {made + 1} /\ cursor' = c
           /\ win' = [win EXCEPT ![made + 1] =
                        [@ EXCEPT !.cam = c, !.st = "held",
                                  !.mats = ToSet(Offer(c, dead))]]
           /\ l2' = [l2 EXCEPT !.pc = "register", !.at = [w |-> made + 1, b |-> "none"]]
  BY DEF AcquireWith
<1>6. /\ served \subseteq L2Cams /\ still \subseteq frozen
      /\ \A c, d \in served : c = d
  <2>1. cursor \in {0} \cup L2Cams
    BY DEF StoreOK
  <2>2. served \subseteq L2Cams /\ still \subseteq frozen
    OBVIOUS
  <2>3. ASSUME NEW c \in served, NEW d \in served PROVE c = d
    <3>1. TurnOf(c) <= TurnOf(d) /\ TurnOf(d) <= TurnOf(c) /\ c \in L2Cams /\ d \in L2Cams
      OBVIOUS
    <3> QED BY <2>1, <3>1, RotationFacts
  <2> QED BY <2>2, <2>3
<1> HIDE DEF served, visited, busy, still
<1>7. \A c \in L2Cams : /\ Harvested(c, dead) \in Seq(1..Len(mats[c]))
                        /\ Len(Harvested(c, dead)) <= 2
                        /\ Offer(c, dead) \in Seq(1..Len(mats[c]))
                        /\ TakenBy(c, dead) \in 0..Len(mats[c])
                        /\ mats[c] \in Seq(Nat) /\ Len(mats[c]) \in Nat
  BY OfferFacts, LenProperties DEF StoreOK
<1>8. \A c \in L2Cams : /\ waiting[c] \in Seq(1..Len(mats[c])) /\ Len(waiting[c]) <= 2
                        /\ taken[c] \in 0..Len(mats[c])
                        /\ leased[c] \subseteq Nat
  BY <1>7, LineFacts DEF StoreOK
<1>9. \A c \in L2Cams : line[c] \in Seq(1..Len(mats[c])) /\ Len(line[c]) <= 2
  <2> SUFFICES ASSUME NEW c \in L2Cams PROVE line[c] \in Seq(1..Len(mats[c])) /\ Len(line[c]) <= 2
    OBVIOUS
  <2>1. <<>> \in Seq(1..Len(mats[c])) /\ Len(<<>>) = 0
    OBVIOUS
  <2>2. line[c] = IF c \in busy THEN Harvested(c, dead)
                  ELSE IF c \in visited THEN <<>> ELSE waiting[c]
    OBVIOUS
  <2> HIDE DEF line
  <2>3. CASE c \in busy
    BY <1>7, <2>2, <2>3
  <2>4. CASE c \notin busy /\ c \in visited
    <3>1. line[c] = <<>>
      BY <2>2, <2>4
    <3> QED BY <2>1, <3>1
  <2>5. CASE c \notin busy /\ c \notin visited
    BY <1>8, <2>2, <2>5
  <2> QED BY <2>3, <2>4, <2>5
<1> HIDE DEF line
<1>10. \A c \in L2Cams : /\ ToSet(line[c]) \subseteq 1..Len(mats[c])
                         /\ ToSet(Offer(c, dead)) \subseteq 1..Len(mats[c])
                         /\ line[c] \in Seq(Nat)
  BY <1>7, <1>9, LineFacts
<1>11. /\ taken' \in [L2Cams -> Nat] /\ \A c \in L2Cams : taken'[c] <= Len(mats[c])
  BY <1>2, <1>7, <1>8
<1>12. /\ waiting' \in [L2Cams -> Seq(Nat)]
       /\ \A c \in L2Cams : /\ waiting'[c] = line[c] /\ Len(waiting'[c]) <= 2
                            /\ ToSet(waiting'[c]) \subseteq 1..Len(mats[c])
  <2>1. DOMAIN line = L2Cams /\ line = [c \in L2Cams |-> line[c]]
    BY DEF line
  <2> QED BY <1>3, <1>9, <1>10, <2>1
<1>13. leased' \in [L2Cams -> SUBSET Nat]
  <2>1. \A c \in L2Cams : leased[c] \subseteq Nat /\ ToSet(line[c]) \subseteq Nat
                            /\ ToSet(Offer(c, dead)) \subseteq Nat
    <3>1. \A c \in L2Cams : 1..Len(mats[c]) \subseteq Nat
      BY <1>7
    <3> QED BY <1>8, <1>10, <3>1
  <2> QED BY <1>4, <2>1
<1>14. \A d \in L2Cams : leased'[d] \ ToSet(waiting'[d])
         \subseteq (leased[d] \ ToSet(waiting[d]))
                     \cup IF d \in served THEN ToSet(Offer(d, dead)) ELSE {}
  BY <1>4, <1>12
<1>15. CASE /\ served = {} /\ frozen' = still /\ l2' = [l2 EXCEPT !.pc = "idle"]
            /\ UNCHANGED <<cursor, made, win>>
  <2>1. NothingSupplied
    BY <1>6, <1>14, <1>15 DEF NothingSupplied
  <2> QED BY <1>11, <1>12, <1>13, <2>1
<1>16. ASSUME NEW c \in served, made' = made + 1, frozen' = still \cup {made + 1}, cursor' = c,
              win' = [win EXCEPT ![made + 1] =
                        [@ EXCEPT !.cam = c, !.st = "held",
                                  !.mats = ToSet(Offer(c, dead))]],
              l2' = [l2 EXCEPT !.pc = "register", !.at = [w |-> made + 1, b |-> "none"]]
       PROVE  \E d \in L2Cams : Supplied(d, ToSet(Offer(d, dead)))
  <2>1. c \in L2Cams /\ made < MaxWin
    BY <1>1, <1>6
  <2>2. \A d \in L2Cams : d \in served => d = c
    BY <1>6
  <2>3. \A d \in L2Cams :
          leased'[d] \ ToSet(waiting'[d])
            \subseteq (leased[d] \ ToSet(waiting[d]))
                        \cup IF d = c THEN ToSet(Offer(c, dead)) ELSE {}
    BY <1>14, <2>2
  <2>4. frozen' \subseteq frozen \cup {made + 1}
    BY <1>6, <1>16
  <2>5. Supplied(c, ToSet(Offer(c, dead)))
    BY <1>10, <1>16, <2>1, <2>3, <2>4 DEF Supplied
  <2> QED BY <2>1, <2>5
<1> QED BY <1>5, <1>11, <1>12, <1>13, <1>15, <1>16

LEMMA AcquireFacts ==
  ASSUME L2Inv, Acquire
  PROVE  /\ l2.pc = "turn" /\ stopper.pc # "closed"
         /\ UNCHANGED <<bounds, mats, queue, rotor, authority, l3, stopper, published>>
         /\ taken' \in [L2Cams -> Nat] /\ waiting' \in [L2Cams -> Seq(Nat)]
         /\ leased' \in [L2Cams -> SUBSET Nat]
         /\ \A c \in L2Cams : /\ taken'[c] <= Len(mats[c]) /\ Len(waiting'[c]) <= 2
                              /\ ToSet(waiting'[c]) \subseteq 1..Len(mats[c])
         /\ NothingSupplied \/ \E c \in L2Cams : \E M : Supplied(c, M)
<1>1. /\ l2.pc = "turn" /\ stopper.pc # "closed"
      /\ UNCHANGED <<bounds, mats, queue, rotor, authority, l3, stopper, published>>
  BY DEF Acquire
<1>2. \E lifted, dead : AcquireWith(lifted, dead)
  BY DEF Acquire, AcquireWith
<1>3. PICK lifted, dead : AcquireWith(lifted, dead)
  BY <1>2
<1> QED BY <1>1, <1>3, AtL2, AcquireWithFacts

\* Nothing is offered, or a window is made of materials of one camera.
LEMMA NothingSuppliedKeeps == ASSUME L2Inv, Acquire, NothingSupplied PROVE L2Inv'
<1>1. /\ l2.pc = "turn" /\ stopper.pc # "closed"
      /\ UNCHANGED <<bounds, mats, queue, rotor, registry, epoch, stopping, committed, l3,
                     stopper, published>>
      /\ taken' \in [L2Cams -> Nat] /\ waiting' \in [L2Cams -> Seq(Nat)]
      /\ leased' \in [L2Cams -> SUBSET Nat]
      /\ \A c \in L2Cams : /\ taken'[c] <= Len(mats[c]) /\ Len(waiting'[c]) <= 2
                           /\ ToSet(waiting'[c]) \subseteq 1..Len(mats[c])
  BY AcquireFacts DEF authority
<1>2. /\ UNCHANGED <<cursor, made, win>> /\ frozen' \subseteq frozen
      /\ l2' = [l2 EXCEPT !.pc = "idle"]
      /\ \A d \in L2Cams : leased'[d] \ ToSet(waiting'[d]) \subseteq leased[d] \ ToSet(waiting[d])
  BY DEF NothingSupplied
<1>3. l2' \in L2Type /\ l2'.pc = "idle" /\ l2'.at = l2.at /\ l2'.victims = {}
  BY <1>1, <1>2, AtL2 DEF L2Hand, L2Type, L2Steps
<1>4. WindowsOK' /\ QueueOK' /\ AuthorityOK' /\ ThreadsOK'
  BY <1>1, <1>2, <1>3 DEF L2Inv, Shape, WindowsOK, QueueOK, AuthorityOK, ThreadsOK, L2Type
<1>5. PublishedOK' /\ HistoryHonest' /\ L3Hand'
  BY <1>1, <1>2, LastingKeeps
<1>6. StoreOK'
  BY <1>1, <1>2, AtL2 DEF StoreOK
<1>7. L2Hand' /\ StopHand'
  BY <1>1, <1>2, <1>3, AtL2 DEF L2Hand, StopHand
<1>8. QueueKept'
  <2>1. Queued' = Queued
    BY <1>1 DEF Queued
  <2> QED BY <1>1, <1>2, <2>1, AtL2 DEF QueueKept, CamOf
<1>9. BooksKept'
  BY <1>1, <1>2, <1>3, AtL2 DEF BooksKept, Listed, Blank
<1>10. \A v \in Wins : Closer(v) => Closer(v)'
  BY <1>1 DEF Closer
<1>11. Marked' /\ Swept'
  BY <1>1, <1>2, <1>10 DEF L2Inv, Marked, Swept, Listed, Late
<1>12. LeaseKept'
  <2>1. \A d \in L2Cams : leased[d] \ ToSet(waiting[d]) = {}
    BY <1>1 DEF L2Inv, LeaseKept, InWork
  <2> QED BY <1>1, <1>2, <2>1 DEF LeaseKept
<1>13. Owned'
  BY <1>1, <1>2, <1>3 DEF L2Inv, Owned, Pending, Listed, InHands, Queued
<1> QED BY <1>4, <1>5, <1>6, <1>7, <1>8, <1>9, <1>11, <1>12, <1>13 DEF L2Inv, Shape, Hands

LEMMA SuppliedKeeps ==
  ASSUME L2Inv, Acquire, NEW c \in L2Cams, NEW M, Supplied(c, M)
  PROVE  L2Inv'
<1> DEFINE new == made + 1
<1>1. /\ l2.pc = "turn" /\ stopper.pc # "closed"
      /\ UNCHANGED <<bounds, mats, queue, rotor, registry, epoch, stopping, committed, l3,
                     stopper, published>>
      /\ taken' \in [L2Cams -> Nat] /\ waiting' \in [L2Cams -> Seq(Nat)]
      /\ leased' \in [L2Cams -> SUBSET Nat]
      /\ \A d \in L2Cams : /\ taken'[d] <= Len(mats[d]) /\ Len(waiting'[d]) <= 2
                           /\ ToSet(waiting'[d]) \subseteq 1..Len(mats[d])
  BY AcquireFacts DEF authority
<1>2. /\ M \subseteq 1..Len(mats[c]) /\ M \subseteq Nat
      /\ made < MaxWin /\ made' = made + 1 /\ cursor' = c
      /\ frozen' \subseteq frozen \cup {made + 1}
      /\ win' = [win EXCEPT ![made + 1] = [@ EXCEPT !.cam = c, !.st = "held", !.mats = M]]
      /\ l2' = [l2 EXCEPT !.pc = "register", !.at = [w |-> made + 1, b |-> "none"]]
      /\ \A d \in L2Cams : leased'[d] \ ToSet(waiting'[d])
                             \subseteq (leased[d] \ ToSet(waiting[d])) \cup IF d = c THEN M ELSE {}
  <2>1. M \subseteq 1..Len(mats[c])
    BY DEF Supplied
  <2> QED BY <2>1 DEF Supplied
<1>3. new \in Wins /\ new \in 1..made' /\ made \in Nat /\ made' \in 0..MaxWin
  BY <1>2, AtL2, MadeFacts DEF Wins
<1>4. WindowsOK /\ BooksKept /\ win[new] \in Entries /\ Blank(new) /\ win[new].st = "unused"
  BY <1>3, AtL2 DEF WindowsOK, BooksKept
<1>5. /\ win' \in [Wins -> Entries] /\ \A v \in Wins : v # made + 1 => win'[v] = win[v]
      /\ win'[made + 1].cam = c /\ win'[made + 1].mats = M /\ win'[made + 1].st = "held"
      /\ win'[made + 1].done = win[made + 1].done /\ win'[made + 1].br = win[made + 1].br
  <2>1. win \in [Wins -> Entries] /\ made + 1 \in Wins
    BY <1>3, <1>4 DEF WindowsOK
  <2>2. win'[made + 1] = [win[made + 1] EXCEPT !.cam = c, !.st = "held", !.mats = M]
    BY <1>2, <2>1
  <2>3. win'[made + 1] \in Entries
    <3>1. "held" \in WinStates /\ M \in SUBSET Nat
      BY <1>2 DEF WinStates
    <3> QED BY <1>4, <2>2, <3>1 DEF Entries
  <2> QED BY <1>2, <1>4, <2>1, <2>2, <2>3 DEF Entries
<1>6. /\ l2' \in L2Type /\ l2'.pc = "register" /\ l2'.at.w = made + 1 /\ l2'.victims = {}
  <2>1. [w |-> made + 1, b |-> "none"] \in Places
    BY <1>2, <1>3 DEF Places
  <2>2. l2 \in L2Type /\ l2.victims = {} /\ "register" \in L2Steps
    BY <1>1, AtL2 DEF L2Hand, L2Steps
  <2> QED BY <1>2, <2>1, <2>2 DEF L2Type
<1>7. \A v \in Wins : Listed(v)' <=> Listed(v)
  BY <1>4, <1>5 DEF Listed
<1>8. \A v \in Wins : win'[v].done = win[v].done /\ win'[v].br = win[v].br
  BY <1>5
<1>9. \A v \in Wins : Listed(v) => v # new
  BY <1>4 DEF Listed
<1>10. WindowsOK' /\ QueueOK' /\ AuthorityOK' /\ ThreadsOK'
  <2>1. frozen' \subseteq Wins
    BY <1>2, <1>3, <1>4 DEF WindowsOK
  <2> QED BY <1>1, <1>3, <1>5, <1>6, <2>1
          DEF L2Inv, Shape, WindowsOK, QueueOK, AuthorityOK, ThreadsOK, L2Type
<1>11. PublishedOK' /\ HistoryHonest' /\ L3Hand'
  BY <1>1, <1>8, LastingKeeps
<1>12. StoreOK'
  <2>1. StoreOK
    BY AtL2
  <2>2. \A v \in Wins : win'[v].mats \subseteq 1..Len(mats[win'[v].cam])
    BY <1>2, <1>5, <2>1 DEF StoreOK
  <2> QED BY <1>1, <1>2, <2>1, <2>2 DEF StoreOK
<1>13. L2Hand' /\ StopHand'
  <2>1. L2Hand'
    BY <1>3, <1>6 DEF L2Hand
  <2>2. StopHand'
    BY <1>1, <1>8, AtL2 DEF StopHand
  <2> QED BY <2>1, <2>2
<1>14. QueueKept'
  <2>1. ASSUME NEW d \in L2Cams, NEW t \in ToSet(queue[d])
        PROVE  t.w <= made' /\ win'[t.w].cam = d
    <3>1. t.w \in Wins /\ t.w <= made /\ win[t.w].cam = d
      BY AtL2, QueueFinite DEF L2Tasks, QueueKept, CamOf
    <3>2. t.w # made + 1 /\ t.w <= made'
      BY <1>2, <1>3, <3>1 DEF Wins
    <3> QED BY <1>5, <3>1, <3>2
  <2>2. Queued' = Queued
    BY <1>1 DEF Queued
  <2> QED BY <1>1, <2>1, <2>2, AtL2 DEF QueueKept, CamOf
<1>15. BooksKept'
  <2>1. \A v \in Wins : v > made' => win'[v].st = "unused"
    <3> SUFFICES ASSUME NEW v \in Wins, v > made' PROVE win'[v].st = "unused"
      OBVIOUS
    <3>1. v # made + 1 /\ v > made
      BY <1>2, <1>3 DEF Wins
    <3> QED BY <1>4, <1>5, <3>1 DEF BooksKept
  <2>2. \A v \in Wins : win'[v].st \in {"unused", "held"} => Blank(v)'
    <3> SUFFICES ASSUME NEW v \in Wins, win'[v].st \in {"unused", "held"} PROVE Blank(v)'
      OBVIOUS
    <3>1. Blank(v)
      BY <1>4, <1>5 DEF BooksKept
    <3> QED BY <1>8, <3>1 DEF Blank
  <2>3. \A v \in Wins : win'[v].st = "held" <=> l2'.pc = "register" /\ l2'.at.w = v
    <3>1. \A v \in Wins : win[v].st # "held"
      BY <1>1, <1>4 DEF BooksKept
    <3> QED BY <1>3, <1>5, <1>6, <3>1
  <2>4. \A v \in Wins : ~Listed(v)' => \A b \in Branches : win'[v].br[b] # "pending"
    BY <1>4, <1>7, <1>8 DEF BooksKept
  <2>5. \A v \in frozen' : Listed(v)' \/ win'[v].st = "held"
    <3> SUFFICES ASSUME NEW v \in frozen' PROVE Listed(v)' \/ win'[v].st = "held"
      OBVIOUS
    <3>1. CASE v = made + 1
      BY <1>5, <3>1
    <3>2. CASE v # made + 1
      <4>1. v \in frozen /\ v \in Wins
        BY <1>2, <1>4, <3>2 DEF WindowsOK
      <4>2. Listed(v) \/ win[v].st = "held"
        BY <1>4, <4>1 DEF BooksKept
      <4> QED BY <1>5, <1>7, <3>2, <4>1, <4>2
    <3> QED BY <3>1, <3>2
  <2> QED BY <2>1, <2>2, <2>3, <2>4, <2>5 DEF BooksKept
<1>16. \A v \in Wins : ~Late(v) /\ (Closer(v) => Closer(v)')
  BY <1>1 DEF Closer, Late
<1>17. Marked' /\ Swept'
  BY <1>1, <1>7, <1>8, <1>16 DEF L2Inv, Marked, Swept
<1>18. LeaseKept'
  <2>1. \A d \in L2Cams : leased[d] \ ToSet(waiting[d]) = {}
    BY <1>1 DEF L2Inv, LeaseKept, InWork
  <2>2. \A d \in L2Cams : \A n \in leased'[d] :
          n \in ToSet(waiting'[d]) \/ (win'[made + 1].cam = d /\ n \in win'[made + 1].mats)
    BY <1>2, <1>5, <2>1
  <2> QED BY <1>1, <1>6, <2>2 DEF LeaseKept, InWork
<1>19. Owned'
  <2> SUFFICES ASSUME NEW t \in L2Tasks, Pending(t.w, t.b)' PROVE InHands(t)'
    BY DEF Owned
  <2>1. t.w \in Wins /\ Pending(t.w, t.b) /\ win'[t.w].done = win[t.w].done
    BY <1>7, <1>8 DEF L2Tasks, Pending
  <2>2. InHands(t)
    BY <2>1 DEF L2Inv, Owned
  <2> QED BY <1>1, <2>1, <2>2, AtL2 DEF InHands, Queued, L2Hand
<1> QED BY <1>10, <1>11, <1>12, <1>13, <1>14, <1>15, <1>17, <1>18, <1>19
        DEF L2Inv, Shape, Hands

LEMMA AcquireKeeps == ASSUME L2Inv, Acquire PROVE L2Inv'
<1>1. CASE NothingSupplied
  BY <1>1, NothingSuppliedKeeps
<1>2. ASSUME NEW c \in L2Cams, NEW M, Supplied(c, M) PROVE L2Inv'
  BY <1>2, SuppliedKeeps
<1> QED BY <1>1, <1>2, AcquireFacts
-------------------------------------------------------------------------------
(* stop(). *)

StopType == [pc : StopSteps, tasks : SUBSET L2Tasks, keys : SUBSET Wins, at : 0..MaxWin]

LEMMA ByStopKeeps ==
  ASSUME L2Inv, Evolves, UNCHANGED <<bounds, made, registry, epoch, l2, l3, published>>,
         stopping' \in BOOLEAN, committed' \in BOOLEAN, stopper' \in StopType
  PROVE  /\ WindowsOK' /\ BooksKept' /\ AuthorityOK' /\ ThreadsOK' /\ PublishedOK'
         /\ HistoryHonest' /\ L2Hand' /\ L3Hand'
<1>1. WindowsOK' /\ BooksKept'
  BY KeepsBooks
<1>2. PublishedOK' /\ HistoryHonest' /\ L3Hand'
  BY KeepsRecords, KeepsL3Hand
<1>3. AuthorityOK'
  BY DEF L2Inv, Shape, AuthorityOK
<1>4. ThreadsOK'
  BY DEF L2Inv, Shape, ThreadsOK, StopType
<1>5. L2Hand'
  BY AtL2 DEF L2Hand, Evolves
<1> QED BY <1>1, <1>2, <1>3, <1>4, <1>5

\* A step before the books are listed: the windows are only looked at by others.
LEMMA StopGoesOn ==
  ASSUME L2Inv, Evolves,
         UNCHANGED <<bounds, mats, taken, waiting, leased, cursor, made, registry, epoch, l2, l3,
                     published>>,
         stopping' \in BOOLEAN, committed' \in BOOLEAN, stopper' \in StopType,
         stopper.pc \in {"none", "commit", "join", "drain"}, stopper'.pc # "closed",
         QueueOK', QueueKept', StopHand', Swept',
         \A t \in L2Tasks : Pending(t.w, t.b)' /\ InHands(t) => InHands(t)'
  PROVE  L2Inv'
<1>1. /\ WindowsOK' /\ BooksKept' /\ AuthorityOK' /\ ThreadsOK' /\ PublishedOK'
      /\ HistoryHonest' /\ L2Hand' /\ L3Hand'
  BY ByStopKeeps
<1>2. StoreOK'
  BY AtL2, KeepsStore DEF StoreOK
<1>3. Marked'
  BY KeepsMarked DEF Closer
<1>4. LeaseKept' /\ Owned'
  BY KeepsLease, KeepsOwned
<1> QED BY <1>1, <1>2, <1>3, <1>4 DEF L2Inv, Shape, Hands

LEMMA L2StopKeeps == ASSUME L2Inv, L2Stop PROVE L2Inv'
<1>1. /\ stopper.pc = "none" /\ stopping' = TRUE /\ committed' = committed
      /\ stopper' = [stopper EXCEPT !.pc = "commit"]
      /\ UNCHANGED <<bounds, mats, taken, waiting, leased, frozen, cursor, made, win, queue,
                     rotor, registry, epoch, l2, l3, published>>
  BY DEF L2Stop, materials
<1>2. Evolves
  BY <1>1, AtL2, EvolvesSame
<1>3. stopper \in StopType /\ stopper.tasks = {} /\ stopper.keys = {} /\ committed = FALSE
  <2>1. committed \in BOOLEAN /\ ~committed
    BY <1>1, AtL2 DEF L2Inv, Shape, AuthorityOK, StopHand
  <2> QED BY <1>1, <2>1, AtL2 DEF ThreadsOK, StopType, StopHand
<1>4. /\ stopper' \in StopType /\ stopper'.pc = "commit" /\ stopper'.tasks = {}
      /\ stopper'.keys = {}
  BY <1>1, <1>3 DEF StopType, StopSteps
<1>5. QueueOK' /\ QueueKept'
  BY <1>1, <1>2, <1>4, QueueSame
<1>6. StopHand' /\ Swept'
  BY <1>1, <1>3, <1>4 DEF StopHand, Swept
<1>7. \A t \in L2Tasks : InHands(t) => InHands(t)'
  BY <1>1, <1>3 DEF InHands, Queued
<1> QED BY <1>1, <1>2, <1>3, <1>4, <1>5, <1>6, <1>7, StopGoesOn

LEMMA CommitStopKeeps == ASSUME L2Inv, CommitStop PROVE L2Inv'
<1>1. /\ stopper.pc = "commit" /\ committed' = TRUE /\ stopping' = stopping
      /\ stopper' = [stopper EXCEPT !.pc = "join"]
      /\ UNCHANGED <<bounds, mats, taken, waiting, leased, frozen, cursor, made, win, queue,
                     rotor, registry, epoch, l2, l3, published>>
  BY DEF CommitStop, materials
<1>2. Evolves
  BY <1>1, AtL2, EvolvesSame
<1>3. stopper \in StopType /\ stopper.tasks = {} /\ stopper.keys = {} /\ stopping = TRUE
  <2>1. stopping \in BOOLEAN /\ stopping
    BY <1>1, AtL2 DEF L2Inv, Shape, AuthorityOK, StopHand
  <2> QED BY <1>1, <2>1, AtL2 DEF ThreadsOK, StopType, StopHand
<1>4. /\ stopper' \in StopType /\ stopper'.pc = "join" /\ stopper'.tasks = {}
      /\ stopper'.keys = {}
  BY <1>1, <1>3 DEF StopType, StopSteps
<1>5. QueueOK' /\ QueueKept'
  BY <1>1, <1>2, <1>4, QueueSame
<1>6. StopHand' /\ Swept'
  BY <1>1, <1>3, <1>4 DEF StopHand, Swept
<1>7. \A t \in L2Tasks : InHands(t) => InHands(t)'
  BY <1>1, <1>3 DEF InHands, Queued
<1> QED BY <1>1, <1>2, <1>3, <1>4, <1>5, <1>6, <1>7, StopGoesOn

LEMMA DrainQueueKeeps == ASSUME L2Inv, DrainQueue PROVE L2Inv'
<1>1. /\ stopper.pc = "join" /\ queue' = [c \in L2Cams |-> <<>>]
      /\ stopper' = [stopper EXCEPT !.pc = "drain", !.tasks = Queued]
      /\ UNCHANGED <<bounds, mats, taken, waiting, leased, frozen, cursor, made, win, rotor,
                     registry, epoch, stopping, committed, l2, l3, published>>
  BY DEF DrainQueue, materials, authority
<1>2. Evolves
  BY <1>1, AtL2, EvolvesSame
<1>3. /\ stopper \in StopType /\ stopper.tasks = {} /\ stopper.keys = {}
      /\ stopping = TRUE /\ committed = TRUE
  <2>1. stopping \in BOOLEAN /\ stopping /\ committed \in BOOLEAN /\ committed
    BY <1>1, AtL2 DEF L2Inv, Shape, AuthorityOK, StopHand
  <2> QED BY <1>1, <2>1, AtL2 DEF ThreadsOK, StopType, StopHand
<1>4. Queued \subseteq L2Tasks
  BY AtL2, QueueFinite
<1>5. /\ stopper' \in StopType /\ stopper'.pc = "drain" /\ stopper'.tasks = Queued
      /\ stopper'.keys = {}
  BY <1>1, <1>3, <1>4 DEF StopType, StopSteps
<1>6. \A c \in L2Cams : queue'[c] \in Seq(L2Tasks) /\ ToSet(queue'[c]) = {}
  BY <1>1 DEF ToSet
<1>7. QueueOK'
  BY <1>1, <1>6, AtL2 DEF QueueOK
<1>8. Queued' = {}
  BY <1>6 DEF Queued
<1>9. QueueKept'
  BY <1>1, <1>2, <1>6, <1>7, <1>8, KeepsQueue
<1>10. StopHand' /\ Swept'
  BY <1>1, <1>3, <1>5 DEF StopHand, Swept
<1>11. \A t \in L2Tasks : InHands(t) => InHands(t)'
  BY <1>1, <1>3, <1>5 DEF InHands
<1> QED BY <1>1, <1>2, <1>3, <1>5, <1>7, <1>9, <1>10, <1>11, StopGoesOn

LEMMA SettleDrainedKeeps == ASSUME L2Inv, SettleDrained PROVE L2Inv'
<1>1. /\ stopper.pc = "drain" /\ JudgeAll(stopper.tasks, "gap")
      /\ stopper' = [stopper EXCEPT !.pc = "windows", !.tasks = {},
                      !.keys = {w \in Wins : Listed(w) /\ ~win[w].done}]
      /\ UNCHANGED <<bounds, mats, taken, waiting, leased, cursor, made, queue, rotor,
                     registry, epoch, stopping, committed, l2, l3, published>>
  BY DEF SettleDrained, authority
<1>2. /\ stopper \in StopType /\ stopper.tasks \in SUBSET L2Tasks
      /\ stopping = TRUE /\ committed = TRUE
  <2>1. stopping \in BOOLEAN /\ stopping /\ committed \in BOOLEAN /\ committed
    BY <1>1, AtL2 DEF L2Inv, Shape, AuthorityOK, StopHand
  <2> QED BY <1>1, <2>1, AtL2 DEF ThreadsOK, StopType, StopHand
<1>3. /\ Evolves
      /\ \A t \in stopper.tasks : ~(win'[t.w].st \in {"producing", "sealed"}
                                      /\ win'[t.w].br[t.b] = "pending")
  <2>1. "gap" \in Terminals
    BY DEF Terminals
  <2> QED BY <1>1, <1>2, <2>1, AtL2, JudgeAllFacts
<1>4. /\ stopper' \in StopType /\ stopper'.pc = "windows" /\ stopper'.tasks = {}
      /\ stopper'.keys = {w \in Wins : Listed(w) /\ ~win[w].done}
  BY <1>1, <1>2 DEF StopType, StopSteps
<1>5. QueueOK' /\ QueueKept'
  BY <1>1, <1>3, QueueSame
<1>6. StopHand'
  BY <1>1, <1>2, <1>4 DEF StopHand
<1>7. Swept'
  <2> SUFFICES ASSUME NEW w \in Wins, Listed(w)'
               PROVE  w \in stopper'.keys \/ Closer(w)' \/ Late(w)'
    BY DEF Swept
  <2>1. Listed(w)
    BY <1>3, AtL2, EvolvesFacts
  <2>2. CASE win[w].done
    BY <1>1, <2>1, <2>2 DEF L2Inv, Marked, Closer
  <2>3. CASE ~win[w].done
    BY <1>4, <2>1, <2>3
  <2> QED BY <2>2, <2>3
<1>8. \A t \in L2Tasks : Pending(t.w, t.b)' /\ InHands(t) => InHands(t)'
  <2> SUFFICES ASSUME NEW t \in L2Tasks, Pending(t.w, t.b)', InHands(t) PROVE InHands(t)'
    OBVIOUS
  <2>1. t \notin stopper.tasks /\ t.w \in Wins
    BY <1>3 DEF Pending, Listed, L2Tasks
  <2> QED BY <1>1, <1>3, <2>1 DEF InHands, Queued, Evolves
<1> QED BY <1>1, <1>2, <1>3, <1>4, <1>5, <1>6, <1>7, <1>8, StopGoesOn

LEMMA CloseWindowKeeps == ASSUME L2Inv, NEW w \in Wins, CloseWindow(w) PROVE L2Inv'
<1>1. /\ stopper.pc = "windows" /\ w \in stopper.keys
      /\ UNCHANGED <<materials, queue, rotor, authority, l2, l3, published>>
      /\ UNCHANGED <<bounds, mats, taken, waiting, leased, frozen, cursor, made>>
      /\ UNCHANGED <<registry, epoch, stopping, committed>>
  BY DEF CloseWindow, materials, authority
<1>2. /\ stopper \in StopType /\ stopper.tasks = {} /\ w \in 0..MaxWin
      /\ stopping /\ committed /\ stopping \in BOOLEAN /\ committed \in BOOLEAN
  <2>1. stopping \in BOOLEAN /\ committed \in BOOLEAN
    BY DEF L2Inv, Shape, AuthorityOK
  <2>2. w \in 0..MaxWin
    BY L2Assumption DEF Wins
  <2> QED BY <1>1, <2>1, <2>2, AtL2 DEF ThreadsOK, StopType, StopHand
<1>3. CASE Listed(w) /\ ~win[w].done
  <2>1. /\ win' = [win EXCEPT ![w].done = TRUE]
        /\ stopper' = [stopper EXCEPT !.pc = "closing", !.keys = @ \ {w}, !.at = w]
    BY <1>3 DEF CloseWindow
  <2>2. /\ stopper' \in StopType /\ stopper'.pc = "closing" /\ stopper'.tasks = {}
        /\ stopper'.keys = stopper.keys \ {w} /\ stopper'.at = w
    BY <1>2, <2>1 DEF StopType, StopSteps
  <2>3. /\ WindowsOK' /\ QueueOK' /\ AuthorityOK' /\ StoreOK' /\ QueueKept' /\ BooksKept'
        /\ PublishedOK' /\ HistoryHonest' /\ L3Hand'
        /\ win'[w].done
        /\ \A v \in Wins : /\ win'[v].cam = win[v].cam /\ win'[v].mats = win[v].mats
                           /\ win'[v].st = win[v].st /\ win'[v].br = win[v].br
                           /\ Listed(v)' <=> Listed(v)
                           /\ v # w => win'[v].done = win[v].done
    BY <1>1, <1>3, <2>1, <2>2, MarkKeeps
  <2>4. ThreadsOK'
    BY <1>1, <2>2, AtL2 DEF ThreadsOK, StopType
  <2>5. L2Hand' /\ StopHand'
    <3>1. L2Hand'
      BY <1>1, <2>3, AtL2 DEF L2Hand
    <3> QED BY <1>1, <1>2, <2>2, <2>3, <3>1 DEF StopHand
  <2>6. Marked'
    BY <1>1, <2>2, <2>3 DEF L2Inv, Marked, Closer
  <2>7. Swept'
    <3> SUFFICES ASSUME NEW v \in Wins, Listed(v)'
                 PROVE  v \in stopper'.keys \/ Closer(v)' \/ Late(v)'
      BY DEF Swept
    <3>1. CASE v = w
      BY <2>2, <3>1 DEF Closer
    <3>2. CASE v # w
      <4>1. v \in stopper.keys \/ Closer(v) \/ Late(v)
        BY <1>1, <2>3 DEF L2Inv, Swept
      <4> QED BY <1>1, <2>2, <2>3, <3>2, <4>1 DEF Closer, Late
    <3> QED BY <3>1, <3>2
  <2>8. LeaseKept'
    <3>1. l2.pc \in InWork => l2.at.w \in Wins
      BY AtL2 DEF InWork
    <3> QED BY <1>1, <2>2, <2>3, <3>1 DEF L2Inv, LeaseKept
  <2>9. Owned'
    <3> SUFFICES ASSUME NEW t \in L2Tasks, Pending(t.w, t.b)' PROVE InHands(t)'
      BY DEF Owned
    <3>1. t.w \in Wins /\ Pending(t.w, t.b)
      BY <2>3 DEF L2Tasks, Pending
    <3>2. InHands(t)
      BY <3>1 DEF L2Inv, Owned
    <3>3. Queued' = Queued /\ UNCHANGED <<l2, l3>> /\ stopper.tasks = {}
      BY <1>1, <1>2 DEF Queued
    <3>4. win[t.w].done => win'[t.w].done
      BY <2>3, <3>1
    <3> QED BY <3>2, <3>3, <3>4 DEF InHands
  <2> QED BY <2>3, <2>4, <2>5, <2>6, <2>7, <2>8, <2>9 DEF L2Inv, Shape, Hands
<1>4. CASE ~(Listed(w) /\ ~win[w].done)
  <2>1. win' = win /\ stopper' = [stopper EXCEPT !.keys = @ \ {w}]
    BY <1>4 DEF CloseWindow
  <2>2. /\ stopper' \in StopType /\ stopper'.pc = "windows" /\ stopper'.tasks = {}
        /\ stopper'.keys = stopper.keys \ {w} /\ stopper'.at = stopper.at
    BY <1>1, <1>2, <2>1 DEF StopType, StopSteps
  <2>3. Evolves
    BY <1>1, <2>1, AtL2, EvolvesSame
  <2>4. /\ WindowsOK' /\ BooksKept' /\ AuthorityOK' /\ ThreadsOK' /\ PublishedOK'
        /\ HistoryHonest' /\ L2Hand' /\ L3Hand'
    BY <1>1, <1>2, <2>2, <2>3, ByStopKeeps
  <2>5. StoreOK'
    BY <1>1, <2>3, AtL2, KeepsStore DEF StoreOK
  <2>6. QueueOK' /\ QueueKept'
    BY <1>1, <2>3, QueueSame
  <2>7. StopHand'
    BY <1>1, <1>2, <2>2 DEF StopHand
  <2>8. \A v \in Wins : (Closer(v) => Closer(v)') /\ (Late(v) => Late(v)')
                          /\ (Listed(v)' <=> Listed(v))
    BY <1>1, <2>1 DEF Closer, Late, Listed
  <2>9. Marked'
    BY <2>1, <2>8 DEF L2Inv, Marked
  <2>10. Swept'
    <3> SUFFICES ASSUME NEW v \in Wins, Listed(v)'
                 PROVE  v \in stopper'.keys \/ Closer(v)' \/ Late(v)'
      BY DEF Swept
    <3>1. Listed(v)
      BY <2>8
    <3>2. CASE v = w
      BY <1>4, <2>8, <3>1, <3>2 DEF L2Inv, Marked
    <3>3. CASE v # w
      BY <1>1, <2>2, <2>8, <3>1, <3>3 DEF L2Inv, Swept
    <3> QED BY <3>2, <3>3
  <2>11. LeaseKept'
    BY <1>1, <2>2, <2>3, KeepsLease
  <2>12. Owned'
    BY <1>1, <1>2, <2>1, <2>3, KeepsOwned DEF InHands, Queued
  <2> QED BY <2>4, <2>5, <2>6, <2>7, <2>9, <2>10, <2>11, <2>12 DEF L2Inv, Shape, Hands
<1> QED BY <1>3, <1>4

LEMMA CloseEndKeeps == ASSUME L2Inv, CloseEnd PROVE L2Inv'
<1>1. /\ stopper.pc = "closing" /\ Closed(stopper.at, "gap")
      /\ stopper' = [stopper EXCEPT !.pc = "windows", !.at = 0]
      /\ UNCHANGED <<bounds, mats, taken, waiting, cursor, made, queue, rotor, registry, epoch,
                     stopping, committed, l2, l3, published>>
  BY DEF CloseEnd, authority
<1>2. /\ stopper \in StopType /\ stopper.tasks = {} /\ stopper.at \in Wins
      /\ win[stopper.at].done
      /\ stopping /\ committed /\ stopping \in BOOLEAN /\ committed \in BOOLEAN
  <2>1. stopping \in BOOLEAN /\ committed \in BOOLEAN
    BY DEF L2Inv, Shape, AuthorityOK
  <2> QED BY <1>1, <2>1, AtL2 DEF ThreadsOK, StopType, StopHand
<1>3. /\ Evolves /\ win'[stopper.at].st = "gone"
      /\ \A v \in Wins \ {stopper.at} : win'[v] = win[v]
  <2>1. "gap" \in Terminals
    BY DEF Terminals
  <2> QED BY <1>1, <1>2, <2>1, AtL2, ClosedFacts
<1>4. /\ leased' \in [L2Cams -> SUBSET Nat]
      /\ \A c \in L2Cams : leased'[c] \subseteq leased[c]
  <2>1. leased' = Returned(stopper.at)
    BY <1>1 DEF Closed
  <2> QED BY <1>2, <2>1, AtL2, ReturnedFacts
<1>5. /\ stopper' \in StopType /\ stopper'.pc = "windows" /\ stopper'.tasks = {}
      /\ stopper'.keys = stopper.keys
  <2>1. 0 \in 0..MaxWin
    BY L2Assumption
  <2> QED BY <1>1, <1>2, <2>1 DEF StopType, StopSteps
<1>6. /\ WindowsOK' /\ BooksKept' /\ AuthorityOK' /\ ThreadsOK' /\ PublishedOK'
      /\ HistoryHonest' /\ L2Hand' /\ L3Hand'
  BY <1>1, <1>2, <1>3, <1>5, ByStopKeeps
<1>7. StoreOK'
  BY <1>1, <1>3, <1>4, KeepsStore
<1>8. QueueOK' /\ QueueKept'
  BY <1>1, <1>3, QueueSame
<1>9. StopHand'
  BY <1>1, <1>2, <1>5 DEF StopHand
<1>10. \A v \in Wins : Listed(v)' => Listed(v) /\ v # stopper.at
  BY <1>3, AtL2, EvolvesFacts DEF Listed
<1>11. \A v \in Wins : /\ Closer(v) /\ Listed(v)' => Closer(v)'
                       /\ Late(v) /\ Listed(v)' => Late(v)'
  BY <1>1, <1>3, <1>10 DEF Closer, Late
<1>12. Marked'
  BY <1>3, <1>11, KeepsMarked
<1>13. Swept'
  BY <1>1, <1>5, <1>10, <1>11 DEF L2Inv, Swept
<1>14. LeaseKept'
  <2>1. l2.pc \in InWork => l2.at.w \in Wins
    BY AtL2 DEF InWork
  <2> QED BY <1>1, <1>3, <1>4, <1>5, <2>1 DEF L2Inv, LeaseKept, Evolves
<1>15. Owned'
  <2>1. \A t \in L2Tasks : InHands(t) => InHands(t)'
    BY <1>1, <1>2, <1>3 DEF InHands, Queued, Evolves, L2Tasks
  <2> QED BY <1>3, <2>1, KeepsOwned
<1> QED BY <1>6, <1>7, <1>8, <1>9, <1>12, <1>13, <1>14, <1>15 DEF L2Inv, Shape, Hands

LEMMA CloseSchedulerKeeps == ASSUME L2Inv, CloseScheduler PROVE L2Inv'
<1>1. /\ stopper.pc = "windows" /\ stopper.keys = {}
      /\ leased' = [c \in L2Cams |-> leased[c] \ ToSet(waiting[c])]
      /\ waiting' = [c \in L2Cams |-> <<>>]
      /\ stopper' = [stopper EXCEPT !.pc = "closed"]
      /\ UNCHANGED <<bounds, mats, taken, frozen, cursor, made, win, queue, rotor, registry,
                     epoch, stopping, committed, l2, l3, published>>
  BY DEF CloseScheduler, authority
<1>2. /\ stopper \in StopType /\ stopper.tasks = {}
      /\ stopping /\ committed /\ stopping \in BOOLEAN /\ committed \in BOOLEAN
  <2>1. stopping \in BOOLEAN /\ committed \in BOOLEAN
    BY DEF L2Inv, Shape, AuthorityOK
  <2> QED BY <1>1, <2>1, AtL2 DEF ThreadsOK, StopType, StopHand
<1>3. /\ stopper' \in StopType /\ stopper'.pc = "closed" /\ stopper'.tasks = {}
      /\ stopper'.keys = {}
  BY <1>1, <1>2 DEF StopType, StopSteps
<1>4. Evolves
  BY <1>1, AtL2, EvolvesSame
<1>5. /\ WindowsOK' /\ BooksKept' /\ AuthorityOK' /\ ThreadsOK' /\ PublishedOK'
      /\ HistoryHonest' /\ L2Hand' /\ L3Hand'
  BY <1>1, <1>2, <1>3, <1>4, ByStopKeeps
<1>6. /\ waiting' \in [L2Cams -> Seq(Nat)]
      /\ \A c \in L2Cams : waiting'[c] = <<>> /\ Len(waiting'[c]) <= 2 /\ ToSet(waiting'[c]) = {}
  BY <1>1 DEF ToSet
<1>7. /\ leased' \in [L2Cams -> SUBSET Nat]
      /\ \A c \in L2Cams : \A n \in leased'[c] : n \in leased[c] /\ n \notin ToSet(waiting[c])
  BY <1>1, AtL2 DEF StoreOK
<1>8. StoreOK'
  BY <1>1, <1>6, <1>7, AtL2 DEF StoreOK
<1>9. QueueOK' /\ QueueKept'
  BY <1>1, <1>4, QueueSame
<1>10. StopHand'
  BY <1>1, <1>2, <1>3 DEF StopHand
<1>11. \A v \in Wins : /\ Closer(v) => Closer(v)'
                       /\ Late(v) => Late(v)'
                       /\ Listed(v)' <=> Listed(v)
  BY <1>1 DEF Closer, Late, Listed
<1>12. Marked' /\ Swept'
  BY <1>1, <1>11 DEF L2Inv, Marked, Swept
<1>13. LeaseKept'
  BY <1>1, <1>6, <1>7 DEF L2Inv, LeaseKept
<1>14. Owned'
  BY <1>1, <1>2, <1>3, <1>4, KeepsOwned DEF InHands, Queued
<1> QED BY <1>5, <1>8, <1>9, <1>10, <1>12, <1>13, <1>14 DEF L2Inv, Shape, Hands
-------------------------------------------------------------------------------
(* The theorems. *)

LEMMA Inits == L2Init => L2Inv
<1> SUFFICES ASSUME L2Init PROVE L2Inv
  OBVIOUS
<1>1. /\ bounds \in L2Bounds
      /\ mats = [c \in L2Cams |-> <<>>] /\ taken = [c \in L2Cams |-> 0]
      /\ waiting = [c \in L2Cams |-> <<>>] /\ leased = [c \in L2Cams |-> {}]
      /\ frozen = {} /\ cursor = 0 /\ made = 0
      /\ queue = [c \in L2Cams |-> <<>>] /\ rotor = 1
      /\ registry = [c \in L2Cams |-> 1] /\ epoch = 0
      /\ stopping = FALSE /\ committed = FALSE
      /\ l2 = [pc |-> "idle", at |-> NoTask, victims |-> {}]
      /\ l3 = [pc |-> "idle", at |-> NoTask, good |-> TRUE, epoch |-> 0]
      /\ stopper = [pc |-> "none", tasks |-> {}, keys |-> {}, at |-> 0]
      /\ history = {} /\ versions = {}
  BY DEF L2Init
<1>2. win = [w \in Wins |-> [cam |-> 1, mats |-> {}, id |-> 0, st |-> "unused",
                             done |-> FALSE, br |-> [b \in Branches |-> "none"]]]
  BY DEF L2Init
<1>3. /\ 1 \in L2Cams /\ MaxWin \in Nat /\ QueueCap \in Nat
      /\ bounds.changes \in [L2Cams -> Nat]
  <2>1. Cardinality(L2Cams) \in Nat /\ L2Cams = 1..Cardinality(L2Cams) /\ L2Cams # {}
    BY L2Assumption, FS_CardinalityType
  <2> QED BY <1>1, <2>1, L2Assumption
<1>4. /\ win \in [Wins -> Entries]
      /\ \A w \in Wins : /\ win[w].st = "unused" /\ ~win[w].done /\ win[w].mats = {}
                         /\ \A b \in Branches : win[w].br[b] = "none"
  <2>1. [b \in Branches |-> "none"] \in [Branches -> BranchStates]
    BY DEF BranchStates
  <2>2. [cam |-> 1, mats |-> {}, id |-> 0, st |-> "unused", done |-> FALSE,
         br |-> [b \in Branches |-> "none"]] \in Entries
    BY <1>3, <2>1 DEF Entries, WinStates
  <2> QED BY <1>2, <2>2
<1>5. \A w \in Wins : ~Listed(w) /\ Blank(w)
  BY <1>4 DEF Listed, Blank
<1>6. WindowsOK
  BY <1>1, <1>3, <1>4 DEF WindowsOK
<1>7. \A c \in L2Cams : /\ <<>> \in Seq(L2Tasks) /\ <<>> \in Seq(Nat)
                        /\ <<>> \in Seq(1..(bounds.changes[c] + 1))
                        /\ Len(<<>>) = 0 /\ ToSet(<<>>) = {}
  BY DEF ToSet
<1>8. QueueOK /\ Queued = {}
  BY <1>1, <1>3, <1>7 DEF QueueOK, Queued
<1>9. AuthorityOK
  <2>1. \A c \in L2Cams : bounds.changes[c] \in Nat /\ registry[c] = 1
    BY <1>1, <1>3
  <2>2. registry \in [L2Cams -> Nat] /\ \A c \in L2Cams : registry[c] \in 1..(bounds.changes[c] + 1)
    BY <1>1, <2>1
  <2> QED BY <1>1, <2>2 DEF AuthorityOK
<1>10. ThreadsOK
  <2>1. l2 \in L2Type
    BY <1>1, NoPlace DEF L2Type, L2Steps
  <2>2. stopper \in StopType
    BY <1>1, <1>3 DEF StopType, StopSteps
  <2> QED BY <1>1, <2>1, <2>2 DEF ThreadsOK, L2Type, L3Steps, StopType
<1>11. PublishedOK /\ HistoryHonest
  BY <1>1 DEF PublishedOK, HistoryHonest
<1>12. StoreOK
  BY <1>1, <1>3, <1>4, <1>7 DEF StoreOK
<1>13. Hands
  BY <1>1 DEF Hands, L2Hand, L3Hand, StopHand
<1>14. QueueKept
  <2>1. Cardinality(Queued) = 0
    BY <1>8, FS_EmptySet
  <2> QED BY <1>1, <1>3, <1>7, <1>8, <2>1 DEF QueueKept
<1>15. BooksKept
  BY <1>1, <1>4, <1>5 DEF BooksKept
<1>16. Marked /\ Swept /\ Owned
  BY <1>1, <1>5 DEF Marked, Swept, Owned, Pending, L2Tasks
<1>17. LeaseKept
  BY <1>1 DEF LeaseKept
<1> QED BY <1>6, <1>8, <1>9, <1>10, <1>11, <1>12, <1>13, <1>14, <1>15, <1>16, <1>17
        DEF L2Inv, Shape

LEMMA Steps == L2Inv /\ [L2Next]_l2vars => L2Inv'
<1> SUFFICES ASSUME L2Inv, [L2Next]_l2vars PROVE L2Inv'
  OBVIOUS
<1>1. CASE UNCHANGED l2vars
  BY <1>1, StutterKeeps
<1>2. ASSUME NEW c \in L2Cams, Arrive(c) \/ SetIdentity(c) PROVE L2Inv'
  BY <1>2, ArriveKeeps, SetIdentityKeeps
<1>3. CASE L2Work
  <2>1. CASE Turn \/ Acquire \/ AcquireClosed \/ RegisterWindow
    BY <2>1, TurnKeeps, AcquireKeeps, AcquireClosedKeeps, RegisterWindowKeeps
  <2>2. CASE CheckTask \/ InsertTask \/ SettleEvicted \/ SealWindow \/ ExpireEnd
    BY <2>2, CheckTaskKeeps, InsertTaskKeeps, SettleEvictedKeeps, SealWindowKeeps,
       ExpireEndKeeps
  <2>3. ASSUME NEW b \in Branches, RegisterBranch(b) \/ DropBranch(b) PROVE L2Inv'
    BY <2>3, RegisterBranchKeeps, DropBranchKeeps
  <2>4. ASSUME NEW w \in Wins, ExpireWindow(w) PROVE L2Inv'
    BY <2>4, ExpireWindowKeeps
  <2> QED BY <1>3, <2>1, <2>2, <2>3, <2>4 DEF L2Work
<1>4. CASE L3Work
  BY <1>4, DequeueKeeps, L3GateKeeps, UnderstandKeeps, PublishGateKeeps, GrantKeeps,
     AppendRecordKeeps, FuseKeeps, WriteVersionKeeps DEF L3Work
<1>5. CASE L2Stop
  BY <1>5, L2StopKeeps
<1>6. CASE StopWork
  <2>1. ASSUME NEW w \in Wins, CloseWindow(w) PROVE L2Inv'
    BY <2>1, CloseWindowKeeps
  <2> QED BY <1>6, <2>1, CommitStopKeeps, DrainQueueKeeps, SettleDrainedKeeps, CloseEndKeeps,
             CloseSchedulerKeeps DEF StopWork
<1> QED BY <1>1, <1>2, <1>3, <1>4, <1>5, <1>6 DEF L2Next

\* The inductive invariant holds in every reachable state.
THEOREM L2Inductive == L2Spec => []L2Inv
<1> QED BY Inits, Steps, PTL DEF L2Spec

\* What each part of the state may hold: _l3_queues never above l3_max_queue, two
\* materials at most in the waiting line of a camera, none taken twice.
THEOREM L2TypeSafe == L2Spec => []L2TypeOK
<1>1. L2Inv => L2TypeOK
  <2> SUFFICES ASSUME L2Inv PROVE L2TypeOK
    OBVIOUS
  <2>1. WindowsOK /\ QueueOK /\ AuthorityOK /\ ThreadsOK /\ StoreOK /\ QueueKept
    BY AtL2 DEF L2Inv, Shape
  <2>2. Queued \subseteq L2Tasks
    BY <2>1, QueueFinite
  <2>3. \A c \in L2Cams : taken[c] \in 0..Len(mats[c])
    BY <2>1, LenProperties DEF StoreOK
  <2>4. \A w \in Wins : win[w].st \in WinStates /\ win[w].br \in [Branches -> BranchStates]
    BY <2>1, EntryFacts DEF WindowsOK
  <2>5. /\ l2.pc \in L2Steps /\ l3.pc \in L3Steps /\ l3.at \in L2Tasks \cup {NoTask}
        /\ stopper.pc \in StopSteps
    BY <2>1 DEF ThreadsOK
  <2> QED BY <2>1, <2>2, <2>3, <2>4, <2>5
          DEF L2TypeOK, StoreOK, WindowsOK, QueueOK, QueueKept, AuthorityOK, WinStates,
              BranchStates, L2Steps, L3Steps, StopSteps
<1> QED BY <1>1, L2Inductive, PTL

\* A pending branch of a window on the books always has somebody who will settle it
\* (_enqueue_l3_task, _evict_for_capacity_locked, _l3_process_entry, stop and
\* _expire_window hand the branches on under different locks).
THEOREM BranchesOwned == L2Spec => []Owned
<1>1. L2Inv => Owned
  BY DEF L2Inv
<1> QED BY <1>1, L2Inductive, PTL

\* The records of the L3 history and the versions of the fusion say what became of
\* their branch, and nothing later takes it back (_publish_l3_record,
\* _settle_branch_terminal).
THEOREM RecordsHonest == L2Spec => []HistoryHonest
<1>1. L2Inv => HistoryHonest
  BY DEF L2Inv
<1> QED BY <1>1, L2Inductive, PTL

\* After stop() and the end of both threads, even when the join had timed out, no
\* lease, window, task or pending branch is left (stop, _close_all_windows_on_stop,
\* WindowScheduler.close, and the checks of stop on the way to the queue).
THEOREM StopReturnsAll == L2Spec => []AllReturned
<1>1. L2Inv => AllReturned
  <2> SUFFICES ASSUME L2Inv, L2Ended PROVE AllReturned
    BY DEF AllReturned
  <2>1. stopper.pc = "closed" /\ l2.pc = "idle" /\ l3.pc = "idle"
    BY DEF L2Ended
  <2>2. stopper.keys = {}
    BY <2>1, AtL2 DEF StopHand
  <2>3. \A w \in Wins : ~Closer(w) /\ ~Late(w)
    BY <2>1 DEF Closer, Late
  <2>4. \A w \in Wins : ~Listed(w) /\ win[w].st # "held"
    BY <2>1, <2>2, <2>3, AtL2 DEF L2Inv, Swept, BooksKept
  <2>5. \A w \in Wins : \A b \in Branches : win[w].br[b] # "pending"
    BY <2>4, AtL2 DEF BooksKept
  <2>6. frozen = {}
    BY <2>4, AtL2 DEF BooksKept, WindowsOK
  <2>7. ASSUME NEW c \in L2Cams PROVE leased[c] = {} /\ queue[c] = <<>>
    <3>1. waiting[c] = <<>> /\ ToSet(<<>>) = {}
      BY <2>1 DEF L2Inv, LeaseKept, ToSet
    <3>2. leased[c] = {}
      BY <2>1, <3>1 DEF L2Inv, LeaseKept, InWork
    <3>3. ToSet(queue[c]) = {} /\ queue[c] \in Seq(L2Tasks)
      <4>1. Queued = {}
        BY <2>1, AtL2 DEF QueueKept
      <4> QED BY <4>1, AtL2, QueueFinite DEF QueueOK
    <3>4. queue[c] = <<>>
      BY <3>3, LineFacts
    <3> QED BY <3>2, <3>4
  <2> QED BY <2>4, <2>5, <2>6, <2>7 DEF AllReturned
<1> QED BY <1>1, L2Inductive, PTL
================================================================================
