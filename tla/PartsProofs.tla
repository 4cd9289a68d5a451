------------------------------ MODULE PartsProofs ------------------------------
(***************************************************************************)
(* Proofs about the parts that MCParts checks side by side: each theorem   *)
(* is about one of them alone, or about the two threads of Notices, for    *)
(* every value of its constants. The runs of MCParts show the same on one  *)
(* small instance.                                                         *)
(*                                                                         *)
(* Each part has an inductive invariant of its own; what it adds to the    *)
(* property is said where it is defined.                                   *)
(***************************************************************************)
EXTENDS Harvest, MaterialPool, L3Model, Admission, WindowFusion, EventProgress,
        DesktopSession, Notices, CropWorker, Budgets, TLAPS,
        FiniteSetTheorems, SequenceTheorems, WellFoundedInduction
-------------------------------------------------------------------------------
(* Sequences. *)

\* The elements of a sequence, of one that is longer and of one that is shorter.
LEMMA LineFacts ==
  ASSUME NEW T, NEW row \in Seq(T)
  PROVE  /\ ToSet(row) \subseteq T
         /\ row \in Seq(ToSet(row))
         /\ \A i \in 1..Len(row) : row[i] \in ToSet(row)
         /\ row # <<>> => /\ Head(row) \in ToSet(row)
                           /\ Tail(row) \in Seq(T)
                           /\ ToSet(row) = {Head(row)} \cup ToSet(Tail(row))
<1>1. \A i \in 1..Len(row) : row[i] \in T
  BY ElementOfSeq
<1>2. \A x \in ToSet(row) : \E i \in 1..Len(row) : x = row[i]
  BY DEF ToSet
<1>3. \A i \in 1..Len(row) : row[i] \in ToSet(row)
  BY DEF ToSet
<1>4. row \in Seq(ToSet(row))
  BY <1>3, IsASeq
<1>5. ASSUME row # <<>>
      PROVE  /\ Head(row) \in ToSet(row) /\ Tail(row) \in Seq(T)
             /\ ToSet(row) = {Head(row)} \cup ToSet(Tail(row))
  <2>1. /\ Head(row) = row[1] /\ Len(row) \in Nat \ {0}
        /\ Tail(row) \in Seq(T) /\ Len(Tail(row)) = Len(row) - 1
        /\ \A i \in 1..Len(Tail(row)) : Tail(row)[i] = row[i + 1]
    BY <1>5, HeadTailProperties
  <2>2. \A i \in 1..Len(row) : i = 1 \/ (i - 1 \in 1..Len(Tail(row)) /\ Tail(row)[i - 1] = row[i])
    BY <2>1
  <2>3. \A x : x \in ToSet(Tail(row)) <=> \E i \in 1..Len(Tail(row)) : x = Tail(row)[i]
    <3> DEFINE tl == Tail(row)
    <3>1. DOMAIN tl = 1..Len(tl)
      BY <2>1, LenProperties
    <3> HIDE DEF tl
    <3>2. \A x : x \in ToSet(tl) <=> \E i \in 1..Len(tl) : x = tl[i]
      BY <3>1 DEF ToSet
    <3> QED BY <3>2 DEF tl
  <2>4. \A i \in 1..Len(Tail(row)) : i + 1 \in 1..Len(row)
    BY <2>1
  <2>5. 1 \in 1..Len(row)
    BY <2>1
  <2>6. ToSet(row) \subseteq {Head(row)} \cup ToSet(Tail(row))
    <3> SUFFICES ASSUME NEW x \in ToSet(row), x # Head(row)
                 PROVE  x \in ToSet(Tail(row))
      OBVIOUS
    <3>1. PICK i \in 1..Len(row) : x = row[i]
      BY <1>2
    <3>2. i - 1 \in 1..Len(Tail(row)) /\ Tail(row)[i - 1] = x
      BY <2>1, <2>2, <3>1
    <3> QED BY <2>3, <3>2
  <2>7. ToSet(Tail(row)) \subseteq ToSet(row)
    BY <1>3, <2>1, <2>3, <2>4
  <2> QED BY <1>3, <2>1, <2>5, <2>6, <2>7
<1> QED BY <1>1, <1>2, <1>3, <1>4, <1>5

LEMMA AppendFacts ==
  ASSUME NEW T, NEW row \in Seq(T), NEW x \in T
  PROVE  Append(row, x) \in Seq(T) /\ ToSet(Append(row, x)) = ToSet(row) \cup {x}
<1> DEFINE new == Append(row, x)
<1>1. /\ new \in Seq(T) /\ Len(new) = Len(row) + 1 /\ Len(row) \in Nat
      /\ \A i \in 1..Len(row) : new[i] = row[i]
      /\ new[Len(row) + 1] = x
  BY AppendProperties
<1> HIDE DEF new
<1>2. \A y : y \in ToSet(new) <=> \E i \in 1..Len(row) + 1 : y = new[i]
  BY <1>1 DEF ToSet
<1>3. \A y : y \in ToSet(row) <=> \E i \in 1..Len(row) : y = row[i]
  BY DEF ToSet
<1>4. \A i \in 1..Len(row) + 1 : i \in 1..Len(row) \/ i = Len(row) + 1
  BY <1>1
<1>5. ToSet(new) \subseteq ToSet(row) \cup {x}
  BY <1>1, <1>2, <1>3, <1>4
<1>6. ToSet(row) \cup {x} \subseteq ToSet(new)
  <2>1. \A i \in 1..Len(row) : i \in 1..Len(row) + 1
    BY <1>1
  <2>2. Len(row) + 1 \in 1..Len(row) + 1
    BY <1>1
  <2> QED BY <1>1, <1>2, <1>3, <2>1, <2>2
<1> QED BY <1>1, <1>5, <1>6 DEF new

\* A sequence without repetition.
Once(row) == \A i, j \in 1..Len(row) : row[i] = row[j] => i = j

LEMMA OnceFacts ==
  ASSUME NEW T, NEW row \in Seq(T), Once(row)
  PROVE  /\ \A x \in T \ ToSet(row) : Once(Append(row, x))
         /\ row # <<>> => Once(Tail(row)) /\ Head(row) \notin ToSet(Tail(row))
<1>1. ASSUME NEW x \in T \ ToSet(row) PROVE Once(Append(row, x))
  <2> DEFINE new == Append(row, x)
  <2>1. /\ Len(new) = Len(row) + 1 /\ Len(row) \in Nat
        /\ \A i \in 1..Len(row) : new[i] = row[i] /\ row[i] # x
        /\ new[Len(row) + 1] = x
    BY <1>1, AppendProperties, LineFacts
  <2> HIDE DEF new
  <2>2. \A i \in 1..Len(row) + 1 : i \in 1..Len(row) \/ i = Len(row) + 1
    BY <2>1
  <2>3. Once(new)
    <3> SUFFICES ASSUME NEW i \in 1..Len(row) + 1, NEW j \in 1..Len(row) + 1,
                        new[i] = new[j]
                 PROVE  i = j
      BY <2>1 DEF Once
    <3>1. CASE i = Len(row) + 1
      BY <2>1, <2>2, <3>1
    <3>2. CASE j = Len(row) + 1
      BY <2>1, <2>2, <3>2
    <3>3. CASE i \in 1..Len(row) /\ j \in 1..Len(row)
      BY <2>1, <3>3 DEF Once
    <3> QED BY <2>2, <3>1, <3>2, <3>3
  <2> QED BY <2>3 DEF new
<1>2. ASSUME row # <<>> PROVE Once(Tail(row)) /\ Head(row) \notin ToSet(Tail(row))
  <2> DEFINE tl == Tail(row)
  <2>1. /\ Head(row) = row[1] /\ Len(row) \in Nat \ {0}
        /\ tl \in Seq(T) /\ Len(tl) = Len(row) - 1
        /\ \A i \in 1..Len(tl) : tl[i] = row[i + 1]
    BY <1>2, HeadTailProperties
  <2>2. \A i \in 1..Len(tl) : i + 1 \in 1..Len(row) /\ i + 1 # 1 /\ i \in Nat
    BY <2>1
  <2>3. 1 \in 1..Len(row)
    BY <2>1
  <2>4. DOMAIN tl = 1..Len(tl)
    BY <2>1, LenProperties
  <2> HIDE DEF tl
  <2>5. Once(tl)
    BY <2>1, <2>2 DEF Once
  <2>6. Head(row) \notin ToSet(tl)
    BY <2>1, <2>2, <2>3, <2>4 DEF ToSet, Once
  <2> QED BY <2>5, <2>6 DEF tl
<1> QED BY <1>1, <1>2


\* The elements of two sequences, one after the other.
LEMMA ConcatFacts ==
  ASSUME NEW T, NEW row \in Seq(T), NEW more \in Seq(T)
  PROVE  row \o more \in Seq(T) /\ ToSet(row \o more) = ToSet(row) \cup ToSet(more)
<1> DEFINE new == row \o more
<1>1. /\ new \in Seq(T) /\ Len(new) = Len(row) + Len(more) /\ Len(row) \in Nat /\ Len(more) \in Nat
      /\ \A i \in 1..Len(row) + Len(more) :
            new[i] = IF i <= Len(row) THEN row[i] ELSE more[i - Len(row)]
  BY ConcatProperties, LenProperties
<1>2. /\ \A y : y \in ToSet(row) <=> \E i \in 1..Len(row) : y = row[i]
      /\ \A y : y \in ToSet(more) <=> \E i \in 1..Len(more) : y = more[i]
  BY DEF ToSet
<1>3. DOMAIN new = 1..Len(new)
  BY <1>1, LenProperties
<1> HIDE DEF new
<1>4. \A y : y \in ToSet(new) <=> \E i \in 1..Len(row) + Len(more) : y = new[i]
  BY <1>1, <1>3 DEF ToSet
<1>5. ToSet(new) \subseteq ToSet(row) \cup ToSet(more)
  <2>1. \A i \in 1..Len(row) + Len(more) :
            i \in 1..Len(row) \/ (i > Len(row) /\ i - Len(row) \in 1..Len(more))
    BY <1>1
  <2> QED BY <1>1, <1>2, <1>4, <2>1
<1>6. ToSet(row) \subseteq ToSet(new)
  <2>1. \A i \in 1..Len(row) : i \in 1..Len(row) + Len(more) /\ i <= Len(row)
    BY <1>1
  <2> QED BY <1>1, <1>2, <1>4, <2>1
<1>7. ToSet(more) \subseteq ToSet(new)
  <2>1. \A i \in 1..Len(more) : /\ i + Len(row) \in 1..Len(row) + Len(more)
                                /\ ~(i + Len(row) <= Len(row)) /\ (i + Len(row)) - Len(row) = i
    BY <1>1
  <2>2. \A i \in 1..Len(more) : more[i] = new[i + Len(row)]
    BY <1>1, <2>1
  <2> QED BY <1>2, <1>4, <2>1, <2>2
<1> QED BY <1>1, <1>5, <1>6, <1>7 DEF new

\* The image of a finite set, and a set of one element.
LEMMA ImageOfFinite ==
  ASSUME NEW S, IsFiniteSet(S), NEW g
  PROVE  IsFiniteSet({g[x] : x \in S})
<1> DEFINE image == {g[x] : x \in S}
           drawn == [x \in S |-> g[x]]
<1>1. drawn \in Surjection(S, image)
  BY DEF Surjection
<1> HIDE DEF drawn, image
<1>2. IsFiniteSet(image)
  BY <1>1, FS_Surjection
<1> QED BY <1>2 DEF image

LEMMA OnlyOne ==
  ASSUME NEW S, IsFiniteSet(S), Cardinality(S) = 1
  PROVE  \E x : S = {x}
  BY FS_Singleton

\* Any non-empty set of natural numbers has a least one; so of what is numbered, one
\* has the least number.
LEMMA LeastNumber == ASSUME NEW T \in SUBSET Nat, T # {} PROVE \E x \in T : \A y \in T : x <= y
<1> DEFINE R == OpToRel(<, Nat)
<1>1. IsWellFoundedOn(R, Nat)
  BY NatLessThanWellFounded
<1>2. \A x, y \in Nat : <<y, x>> \notin R => x <= y
  BY DEF OpToRel
<1> HIDE DEF R
<1>3. \E x \in T : \A y \in T : <<y, x>> \notin R
  BY <1>1, WFMin
<1> QED BY <1>2, <1>3

LEMMA LeastOf ==
  ASSUME NEW S, S # {}, NEW g, \A x \in S : g[x] \in Nat
  PROVE  \E x \in S : \A y \in S : g[x] <= g[y]
<1> DEFINE image == {g[x] : x \in S}
<1>1. image \in SUBSET Nat /\ image # {}
  OBVIOUS
<1> HIDE DEF image
<1>2. PICK i \in image : \A j \in image : i <= j
  BY <1>1, LeastNumber
<1> QED BY <1>2 DEF image
-------------------------------------------------------------------------------
(* Harvest: the ledger of the pixels in the hand-off. *)

\* Packages that hold a set of buffers.
Holders(P, s) == {p \in P : BuffersOf[p] = s}
BooksOf(P) ==
    /\ ledger \in [BufferSets -> Nat] /\ heldBytes \in Nat
    /\ \A s \in BufferSets \ {{}} : ledger[s] = Cardinality(Holders(P, s))
    /\ heldBytes = Cardinality(PaidPixels(P))
\* A package is in one place, once, and is there because it was given up.
OnTheWay ==
    /\ given \subseteq HPkgs
    /\ handoff \in Seq(HPkgs) /\ Once(handoff)
    /\ pumps \in [Pumpers -> Seq(HPkgs)] /\ \A t \in Pumpers : Once(pumps[t])
    /\ Alive \subseteq given
    /\ \A t \in Pumpers : ToSet(handoff) \cap ToSet(pumps[t]) = {}
    /\ ToSet(pumps["l2"]) \cap ToSet(pumps["stop"]) = {}
Drying == stopAt \in {"close", "pump2", "done"} => handoff = <<>>
HarvestInv == OnTheWay /\ BooksOf(Alive) /\ Drying

LEMMA AliveParts ==
  Alive = ToSet(handoff) \cup ToSet(pumps["l2"]) \cup ToSet(pumps["stop"])
  BY DEF Alive, Pumpers

\* What one package more weighs: its pixels, if no other holds the same.
LEMMA PixelsOfOne ==
  ASSUME NEW P \in SUBSET HPkgs, NEW p \in HPkgs, p \notin P
  PROVE  /\ IsFiniteSet(PaidPixels(P)) /\ IsFiniteSet(BuffersOf[p])
         /\ \A s : IsFiniteSet(Holders(P, s))
         /\ Holders(P, BuffersOf[p]) = {} => Cardinality(PaidPixels(P \cup {p})) =
              Cardinality(PaidPixels(P)) + Cardinality(BuffersOf[p])
         /\ Holders(P, BuffersOf[p]) # {} =>
              Cardinality(PaidPixels(P \cup {p})) = Cardinality(PaidPixels(P))
         /\ Cardinality(Holders(P \cup {p}, BuffersOf[p])) =
              Cardinality(Holders(P, BuffersOf[p])) + 1
         /\ \A s : s # BuffersOf[p] => Holders(P \cup {p}, s) = Holders(P, s)
<1> DEFINE own == {BuffersOf[p]} \X BuffersOf[p]
<1>1. IsFiniteSet(P) /\ IsFiniteSet(BuffersOf[p]) /\ IsFiniteSet({BuffersOf[p]})
  BY HarvestAssumption, FS_Subset, FS_Singleton
<1>2. \A s : IsFiniteSet(Holders(P, s))
  <2> SUFFICES ASSUME NEW s PROVE IsFiniteSet(Holders(P, s))
    OBVIOUS
  <2>1. Holders(P, s) \in SUBSET P
    BY DEF Holders
  <2> QED BY <1>1, <2>1, FS_Subset
<1>3. IsFiniteSet(PaidPixels(P))
  <2> DEFINE sets == {{BuffersOf[q]} \X BuffersOf[q] : q \in P}
  <2>1. IsFiniteSet(sets)
    <3> DEFINE drawn == [q \in P |-> {BuffersOf[q]} \X BuffersOf[q]]
    <3>1. drawn \in Surjection(P, sets)
      BY DEF Surjection
    <3> HIDE DEF drawn, sets
    <3> QED BY <1>1, <3>1, FS_Surjection
  <2>2. ASSUME NEW T \in sets PROVE IsFiniteSet(T)
    <3>1. PICK q \in P : T = {BuffersOf[q]} \X BuffersOf[q]
      OBVIOUS
    <3>2. IsFiniteSet(BuffersOf[q]) /\ IsFiniteSet({BuffersOf[q]})
      BY HarvestAssumption, FS_Singleton
    <3> QED BY <3>1, <3>2, FS_Product
  <2>3. IsFiniteSet(UNION sets)
    <3> HIDE DEF sets
    <3> QED BY <2>1, <2>2, FS_UNION
  <2> QED BY <2>3 DEF PaidPixels
<1>4. IsFiniteSet(own) /\ Cardinality(own) = Cardinality(BuffersOf[p])
  <2>1. Cardinality({BuffersOf[p]}) = 1 /\ Cardinality(BuffersOf[p]) \in Nat
    BY <1>1, FS_Singleton, FS_CardinalityType
  <2> QED BY <1>1, <2>1, FS_Product
<1>5. PaidPixels(P \cup {p}) = PaidPixels(P) \cup own
  BY DEF PaidPixels
<1>6. ASSUME Holders(P, BuffersOf[p]) = {}
      PROVE  Cardinality(PaidPixels(P \cup {p})) =
               Cardinality(PaidPixels(P)) + Cardinality(BuffersOf[p])
  <2>1. PaidPixels(P) \cap own = {}
    <3> SUFFICES ASSUME NEW x \in PaidPixels(P), x \in own PROVE FALSE
      OBVIOUS
    <3>1. PICK q \in P : x \in {BuffersOf[q]} \X BuffersOf[q]
      BY DEF PaidPixels
    <3>2. BuffersOf[q] = BuffersOf[p]
      BY <3>1
    <3> QED BY <1>6, <3>2 DEF Holders
  <2>2. Cardinality(PaidPixels(P) \cup own) =
          Cardinality(PaidPixels(P)) + Cardinality(own) - Cardinality(PaidPixels(P) \cap own)
    BY <1>3, <1>4, FS_Union
  <2>3. Cardinality(PaidPixels(P) \cap own) = 0
    BY <2>1, FS_EmptySet
  <2>4. Cardinality(PaidPixels(P)) \in Nat /\ Cardinality(own) \in Nat
    BY <1>3, <1>4, FS_CardinalityType
  <2>5. Cardinality(PaidPixels(P) \cup own) =
          Cardinality(PaidPixels(P)) + Cardinality(BuffersOf[p])
    <3> HIDE DEF own
    <3> QED BY <1>4, <2>2, <2>3, <2>4
  <2> QED BY <1>5, <1>6, <2>5
<1>7. ASSUME Holders(P, BuffersOf[p]) # {}
      PROVE  Cardinality(PaidPixels(P \cup {p})) = Cardinality(PaidPixels(P))
  <2>1. PICK q \in P : BuffersOf[q] = BuffersOf[p]
    BY <1>7 DEF Holders
  <2>2. own \subseteq PaidPixels(P)
    BY <2>1 DEF PaidPixels
  <2>3. PaidPixels(P) \cup own = PaidPixels(P)
    BY <2>2
  <2> QED BY <1>5, <1>7, <2>3
<1>8. Cardinality(Holders(P \cup {p}, BuffersOf[p])) =
        Cardinality(Holders(P, BuffersOf[p])) + 1
  <2>1. /\ Holders(P \cup {p}, BuffersOf[p]) = Holders(P, BuffersOf[p]) \cup {p}
        /\ p \notin Holders(P, BuffersOf[p])
    BY DEF Holders
  <2> QED BY <1>2, <2>1, FS_AddElement
<1>9. \A s : s # BuffersOf[p] => Holders(P \cup {p}, s) = Holders(P, s)
  BY DEF Holders
<1> QED BY <1>1, <1>2, <1>3, <1>6, <1>7, <1>8, <1>9

\* The books after a step, for the packages that are on their way then.
BooksAfter(P) ==
    /\ ledger' \in [BufferSets -> Nat] /\ heldBytes' \in Nat
    /\ \A s \in BufferSets \ {{}} : ledger'[s] = Cardinality(Holders(P, s))
    /\ heldBytes' = Cardinality(PaidPixels(P))

\* The ledger follows a package that enters and one that leaves.
LEMMA ChargedBooks ==
  ASSUME NEW P \in SUBSET HPkgs, NEW p \in HPkgs, p \notin P, BooksOf(P), Charged(p)
  PROVE  BooksAfter(P \cup {p})
<1> DEFINE s == BuffersOf[p]
           Q == P \cup {p}
<1>1. /\ IsFiniteSet(PaidPixels(P)) /\ IsFiniteSet(s) /\ \A x : IsFiniteSet(Holders(P, x))
      /\ Holders(P, s) = {} => Cardinality(PaidPixels(Q)) = Cardinality(PaidPixels(P)) + Cardinality(s)
      /\ Holders(P, s) # {} => Cardinality(PaidPixels(Q)) = Cardinality(PaidPixels(P))
      /\ Cardinality(Holders(Q, s)) = Cardinality(Holders(P, s)) + 1
      /\ \A x : x # s => Holders(Q, x) = Holders(P, x)
  BY PixelsOfOne
<1>2. /\ Cardinality(s) \in Nat /\ Cardinality(Holders(P, s)) \in Nat
      /\ Cardinality(PaidPixels(P)) \in Nat /\ s \in BufferSets
  BY <1>1, FS_CardinalityType DEF BufferSets
<1>3. Holders(P, s) = {} <=> Cardinality(Holders(P, s)) = 0
  BY <1>1, FS_EmptySet
<1>4. Cardinality({}) = 0
  BY FS_EmptySet
<1>5. /\ s = {} => ledger' = ledger /\ heldBytes' = heldBytes
      /\ s # {} => /\ ledger' = [ledger EXCEPT ![s] = @ + 1]
                   /\ heldBytes' = heldBytes + (IF ledger[s] = 0 THEN Cardinality(s) ELSE 0)
  BY DEF Charged
<1> HIDE DEF s, Q
<1>6. CASE s = {}
  <2>1. Cardinality(PaidPixels(Q)) = Cardinality(PaidPixels(P))
    BY <1>1, <1>2, <1>4, <1>6
  <2> QED BY <1>1, <1>5, <1>6, <2>1 DEF BooksOf, BooksAfter, Q
<1>7. CASE s # {}
  <2>1. ledger[s] = Cardinality(Holders(P, s))
    BY <1>2, <1>7 DEF BooksOf
  <2>2. ledger' \in [BufferSets -> Nat] /\ ledger'[s] = Cardinality(Holders(Q, s))
    BY <1>1, <1>2, <1>5, <1>7, <2>1 DEF BooksOf
  <2>3. \A x \in BufferSets \ {{}} : x # s => ledger'[x] = Cardinality(Holders(Q, x))
    BY <1>1, <1>5, <1>7 DEF BooksOf
  <2>4. heldBytes' = Cardinality(PaidPixels(Q)) /\ heldBytes' \in Nat
    BY <1>1, <1>2, <1>3, <1>5, <1>7, <2>1 DEF BooksOf
  <2> QED BY <2>2, <2>3, <2>4 DEF BooksAfter, Q
<1> QED BY <1>6, <1>7

LEMMA SettledBooks ==
  ASSUME NEW P \in SUBSET HPkgs, NEW p \in P, BooksOf(P), Settled(p)
  PROVE  BooksAfter(P \ {p})
<1> DEFINE s == BuffersOf[p]
           Q == P \ {p}
<1>0. Q \in SUBSET HPkgs /\ p \in HPkgs /\ p \notin Q /\ Q \cup {p} = P
  OBVIOUS
<1>1. /\ IsFiniteSet(PaidPixels(Q)) /\ IsFiniteSet(s) /\ \A x : IsFiniteSet(Holders(Q, x))
      /\ Holders(Q, s) = {} => Cardinality(PaidPixels(P)) = Cardinality(PaidPixels(Q)) + Cardinality(s)
      /\ Holders(Q, s) # {} => Cardinality(PaidPixels(P)) = Cardinality(PaidPixels(Q))
      /\ Cardinality(Holders(P, s)) = Cardinality(Holders(Q, s)) + 1
      /\ \A x : x # s => Holders(P, x) = Holders(Q, x)
  <2> HIDE DEF Q
  <2> QED BY <1>0, PixelsOfOne
<1>2. /\ Cardinality(s) \in Nat /\ Cardinality(Holders(Q, s)) \in Nat
      /\ Cardinality(PaidPixels(Q)) \in Nat /\ s \in BufferSets
  BY <1>1, FS_CardinalityType DEF BufferSets
<1>3. Holders(Q, s) = {} <=> Cardinality(Holders(Q, s)) = 0
  BY <1>1, FS_EmptySet
<1>4. Cardinality({}) = 0
  BY FS_EmptySet
<1>5. /\ s = {} => ledger' = ledger /\ heldBytes' = heldBytes
      /\ s # {} => /\ ledger' = [ledger EXCEPT ![s] = IF ledger[s] = 0 THEN 0 ELSE ledger[s] - 1]
                   /\ heldBytes' = heldBytes - (IF ledger[s] = 1 THEN Cardinality(s) ELSE 0)
  BY DEF Settled
<1> HIDE DEF s, Q
<1>6. CASE s = {}
  <2>1. Cardinality(PaidPixels(Q)) = Cardinality(PaidPixels(P))
    BY <1>1, <1>2, <1>4, <1>6
  <2> QED BY <1>1, <1>5, <1>6, <2>1 DEF BooksOf, BooksAfter, Q
<1>7. CASE s # {}
  <2>1. ledger[s] = Cardinality(Holders(Q, s)) + 1
    BY <1>1, <1>2, <1>7 DEF BooksOf
  <2>2. ledger' \in [BufferSets -> Nat] /\ ledger'[s] = Cardinality(Holders(Q, s))
    BY <1>1, <1>2, <1>5, <1>7, <2>1 DEF BooksOf
  <2>3. \A x \in BufferSets \ {{}} : x # s => ledger'[x] = Cardinality(Holders(Q, x))
    BY <1>1, <1>5, <1>7 DEF BooksOf
  <2>4. heldBytes' = Cardinality(PaidPixels(Q)) /\ heldBytes' \in Nat
    BY <1>1, <1>2, <1>3, <1>5, <1>7, <2>1 DEF BooksOf
  <2> QED BY <2>2, <2>3, <2>4 DEF BooksAfter, Q
<1> QED BY <1>6, <1>7

\* A step of the hand-off, by what it does to the packages on their way.
LEMMA HarvestInitial == HInit => HarvestInv
<1> SUFFICES ASSUME HInit PROVE HarvestInv
  OBVIOUS
<1> USE DEF HInit
<1>1. \A t \in Pumpers : pumps[t] = <<>>
  BY DEF Pumpers
<1>2. ToSet(<<>>) = {}
  BY DEF ToSet
<1>3. Alive = {}
  BY <1>1, <1>2 DEF Alive
<1>4. OnTheWay
  BY <1>1, <1>2, <1>3 DEF OnTheWay, Once, Pumpers
<1>5. PaidPixels({}) = {} /\ \A s : Holders({}, s) = {}
  BY DEF PaidPixels, Holders
<1>6. BooksOf(Alive)
  BY <1>3, <1>5, FS_EmptySet DEF BooksOf
<1> QED BY <1>4, <1>6 DEF HarvestInv, Drying

LEMMA HarvestGiveUp == ASSUME HarvestInv, NEW p \in HPkgs, GiveUp(p) PROVE HarvestInv'
<1> USE DEF HarvestInv
<1>1. /\ p \notin given /\ given' = given \cup {p} /\ pumps' = pumps /\ stopAt' = stopAt
  BY DEF GiveUp
<1>2. CASE UNCHANGED <<handoff, ledger, heldBytes>>
  <2>1. Alive' = Alive
    BY <1>1, <1>2 DEF Alive
  <2>2. OnTheWay'
    BY <1>1, <1>2, <2>1 DEF OnTheWay
  <2>3. BooksOf(Alive)'
    BY <1>2, <2>1 DEF BooksOf, PaidPixels, Holders
  <2> QED BY <1>1, <1>2, <2>2, <2>3 DEF Drying
<1>3. CASE stopAt = "none" /\ handoff' = Append(handoff, p) /\ Charged(p)
  <2>1. p \notin Alive /\ Alive \in SUBSET HPkgs
    BY <1>1 DEF OnTheWay
  <2>2. /\ p \notin ToSet(handoff) /\ p \notin ToSet(pumps["l2"])
        /\ p \notin ToSet(pumps["stop"])
    BY <2>1, AliveParts
  <2>3. ToSet(handoff') = ToSet(handoff) \cup {p} /\ handoff' \in Seq(HPkgs) /\ Once(handoff')
    BY <1>3, <2>2, AppendFacts, OnceFacts DEF OnTheWay
  <2>4. Alive' = Alive \cup {p}
    BY <1>1, <2>3 DEF Alive
  <2>5. OnTheWay'
    <3>1. \A t \in Pumpers : ToSet(handoff') \cap ToSet(pumps[t]) = {}
      BY <2>2, <2>3 DEF OnTheWay, Pumpers
    <3>2. Once(handoff)'
      BY <2>3 DEF Once
    <3> QED BY <1>1, <2>3, <2>4, <3>1, <3>2 DEF OnTheWay, Once
  <2>6. BooksAfter(Alive \cup {p})
    BY <1>3, <2>1, ChargedBooks
  <2>7. BooksOf(Alive)'
    BY <2>4, <2>6 DEF BooksOf, BooksAfter
  <2> QED BY <1>1, <1>3, <2>5, <2>7 DEF Drying
<1> QED BY <1>2, <1>3 DEF GiveUp

LEMMA HarvestTakeBatch == ASSUME HarvestInv, NEW t \in Pumpers, TakeBatch(t) PROVE HarvestInv'
<1> USE DEF HarvestInv
<1>1. /\ pumps[t] = <<>> /\ pumps' = [pumps EXCEPT ![t] = handoff] /\ handoff' = <<>>
      /\ UNCHANGED <<given, ledger, heldBytes, stopAt>>
  BY DEF TakeBatch
<1>2. ToSet(<<>>) = {}
  BY DEF ToSet
<1>3. pumps'[t] = handoff /\ \A u \in Pumpers \ {t} : pumps'[u] = pumps[u]
  BY <1>1 DEF OnTheWay
<1>4. Alive' = Alive
  BY <1>1, <1>2, <1>3, AliveParts DEF Alive, Pumpers
<1>5. OnTheWay'
  <2>1. handoff' \in Seq(HPkgs) /\ Once(handoff)' /\ pumps' \in [Pumpers -> Seq(HPkgs)]
    BY <1>1 DEF OnTheWay, Once
  <2>2. \A u \in Pumpers : Once(pumps'[u])
    BY <1>3 DEF OnTheWay
  <2>3. ToSet(pumps'["l2"]) \cap ToSet(pumps'["stop"]) = {}
    BY <1>3 DEF OnTheWay, Pumpers
  <2>4. \A u \in Pumpers : ToSet(handoff') \cap ToSet(pumps'[u]) = {}
    BY <1>1, <1>2
  <2> QED BY <1>1, <1>4, <2>1, <2>2, <2>3, <2>4 DEF OnTheWay, Once
<1>6. BooksOf(Alive)'
  BY <1>1, <1>4 DEF BooksOf
<1> QED BY <1>1, <1>5, <1>6 DEF Drying

LEMMA HarvestPumpOne == ASSUME HarvestInv, NEW t \in Pumpers, PumpOne(t) PROVE HarvestInv'
<1> USE DEF HarvestInv
<1> DEFINE p == Head(pumps[t])
<1>1. /\ pumps[t] # <<>> /\ pumps' = [pumps EXCEPT ![t] = Tail(@)] /\ Settled(p)
      /\ UNCHANGED <<given, handoff, stopAt>>
  BY DEF PumpOne
<1>2. pumps'[t] = Tail(pumps[t]) /\ \A u \in Pumpers \ {t} : pumps'[u] = pumps[u]
  BY <1>1 DEF OnTheWay
<1>3. /\ pumps[t] \in Seq(HPkgs) /\ Once(pumps[t])
  BY DEF OnTheWay
<1>4. /\ ToSet(pumps[t]) = {p} \cup ToSet(pumps'[t]) /\ p \notin ToSet(pumps'[t])
      /\ pumps'[t] \in Seq(HPkgs) /\ Once(pumps'[t]) /\ p \in ToSet(pumps[t])
  BY <1>1, <1>2, <1>3, LineFacts, OnceFacts
<1> HIDE DEF p
<1>5. /\ p \notin ToSet(handoff) /\ \A u \in Pumpers \ {t} : p \notin ToSet(pumps[u])
  BY <1>4 DEF OnTheWay, Pumpers
<1>6. Alive' = Alive \ {p} /\ p \in Alive
  <2>1. CASE t = "l2"
    BY <1>1, <1>2, <1>4, <1>5, <2>1, AliveParts DEF Alive, Pumpers
  <2>2. CASE t = "stop"
    BY <1>1, <1>2, <1>4, <1>5, <2>2, AliveParts DEF Alive, Pumpers
  <2> QED BY <2>1, <2>2 DEF Pumpers
<1>7. OnTheWay'
  <2>1. pumps' \in [Pumpers -> Seq(HPkgs)] /\ \A u \in Pumpers : Once(pumps'[u])
    BY <1>1, <1>2, <1>4 DEF OnTheWay
  <2>2. \A u \in Pumpers : ToSet(pumps'[u]) \subseteq ToSet(pumps[u])
    BY <1>2, <1>4
  <2>3. /\ \A u \in Pumpers : ToSet(handoff) \cap ToSet(pumps'[u]) = {}
        /\ ToSet(pumps'["l2"]) \cap ToSet(pumps'["stop"]) = {}
    BY <2>2 DEF OnTheWay, Pumpers
  <2> QED BY <1>1, <1>6, <2>1, <2>3 DEF OnTheWay, Once
<1>8. BooksAfter(Alive \ {p})
  <2>1. Alive \in SUBSET HPkgs
    BY DEF OnTheWay
  <2> QED BY <1>1, <1>6, <2>1, SettledBooks DEF p
<1>9. BooksOf(Alive)'
  BY <1>6, <1>8 DEF BooksOf, BooksAfter
<1> QED BY <1>1, <1>7, <1>9 DEF Drying

LEMMA HarvestSteps == HarvestInv /\ [HNext]_hvars => HarvestInv'
<1> SUFFICES ASSUME HarvestInv, [HNext]_hvars PROVE HarvestInv'
  OBVIOUS
<1>1. ASSUME NEW p \in HPkgs, GiveUp(p) PROVE HarvestInv'
  BY <1>1, HarvestGiveUp
<1>2. ASSUME NEW m \in Materials, ObserveWindow(m) PROVE HarvestInv'
  <2>1. UNCHANGED <<given, handoff, ledger, heldBytes, pumps, stopAt>>
    BY <1>2 DEF ObserveWindow
  <2>2. Alive' = Alive
    BY <2>1 DEF Alive
  <2> QED BY <2>1, <2>2 DEF HarvestInv, OnTheWay, BooksOf, Drying, Once
<1>3. ASSUME NEW t \in Pumpers, TakeBatch(t) PROVE HarvestInv'
  BY <1>3, HarvestTakeBatch
<1>4. ASSUME NEW t \in Pumpers, PumpOne(t) PROVE HarvestInv'
  BY <1>4, HarvestPumpOne
<1>5. ASSUME HarvestStop PROVE HarvestInv'
  <2>1. UNCHANGED <<given, handoff, ledger, heldBytes, pumps>>
    BY <1>5 DEF HarvestStop
  <2>2. Alive' = Alive
    BY <2>1 DEF Alive
  <2>3. Drying'
    BY <1>5, <2>1 DEF HarvestStop, HarvestInv, Drying
  <2> QED BY <2>1, <2>2, <2>3 DEF HarvestInv, OnTheWay, BooksOf, Once
<1>6. ASSUME UNCHANGED hvars PROVE HarvestInv'
  <2>1. Alive' = Alive
    BY <1>6 DEF Alive, hvars
  <2> QED BY <1>6, <2>1 DEF hvars, HarvestInv, OnTheWay, BooksOf, Drying, Once
<1> QED BY <1>1, <1>2, <1>3, <1>4, <1>5, <1>6 DEF HNext

\* What the hand-off keeps alive is on the ledger, once for each package and each set
\* of buffers, and nothing is left in it after the first emptying of stop(): for any
\* packages, any sharing of pixels and any capacity.
THEOREM HarvestIsExact == HInit /\ [][HNext]_hvars => []LedgerExact
<1>1. HInit => HarvestInv
  BY HarvestInitial
<1>2. HarvestInv /\ [HNext]_hvars => HarvestInv'
  BY HarvestSteps
<1>3. HarvestInv => LedgerExact
  BY DEF HarvestInv, BooksOf, Drying, LedgerExact, Holders
<1> QED BY <1>1, <1>2, <1>3, PTL
-------------------------------------------------------------------------------
(* MaterialPool: the book of the key frames that are held. *)

\* The book, while the pool holds its pixels and after it has released them; there is
\* room for the copy in progress.
PoolBooks ==
    /\ reserved = (IF observer.pc = "copy" THEN 1 ELSE 0)
    /\ book = HeldPixels
    /\ IsFiniteSet(EntriesOf(live)) /\ PixelsOf(live) + reserved <= MaxHeld
    /\ poolState = "released" => observer.pc = "ended"
\* An event holds a frame once.
EventOK(s) ==
    /\ s \subseteq [id : PoolFrames, at : Nat] /\ IsFiniteSet(s)
    /\ Cardinality(s) <= MaxPerEvent
    /\ \A x, y \in s : x.id = y.id => x = y
PoolCaps ==
    /\ DOMAIN live \subseteq EventKeys /\ IsFiniteSet(DOMAIN live)
    /\ Cardinality(DOMAIN live) <= MaxEvents
    /\ shown \in Nat /\ lastShown \in [EventKeys -> Nat]
    /\ \A k \in DOMAIN live : EventOK(live[k])
\* Between the reservation and the end of the copy nobody stores this frame.
Copying ==
    /\ observer.pc \in {"idle", "store", "copy", "ended"} /\ observer.rows \subseteq PoolFrames
    /\ observer.pc = "copy" =>
        /\ observer.rows # {}
        /\ observer.key \in DOMAIN live =>
              \A x \in live[observer.key] : x.id # Min(observer.rows)
PoolInv == PoolBooks /\ PoolCaps /\ Copying

LEMMA PoolConstants ==
  /\ PoolFrames \subseteq Nat /\ Cardinality(PoolFrames) \in Nat
  /\ MaxEvents \in Nat \ {0} /\ MaxPerEvent \in Nat \ {0} /\ MaxHeld \in Nat \ {0}
<1>1. IsFiniteSet(PoolFrames) /\ PoolFrames = 1..Cardinality(PoolFrames)
  BY PoolAssumption
<1>2. Cardinality(PoolFrames) \in Nat
  BY <1>1, FS_CardinalityType
<1> QED BY <1>1, <1>2, PoolAssumption

\* The frame in hand is one of the rows.
LEMMA InHand ==
  ASSUME NEW brought \in SUBSET PoolFrames, brought # {}
  PROVE  Min(brought) \in brought /\ Min(brought) \in PoolFrames /\ Min(brought) \in Nat
<1>1. \E x \in brought : \A y \in brought : x <= y
  BY PoolConstants, LeastNumber
<1> QED BY <1>1, PoolConstants DEF Min

\* What is held beside one event, and in it.
Beside(pool, k) == UNION {{e} \X pool[e] : e \in DOMAIN pool \ {k}}
LEMMA EntriesSplit ==
  ASSUME NEW pool, NEW k \in DOMAIN pool, IsFiniteSet(Beside(pool, k)), IsFiniteSet(pool[k])
  PROVE  /\ IsFiniteSet(EntriesOf(pool))
         /\ PixelsOf(pool) = Cardinality(Beside(pool, k)) + Cardinality(pool[k])
         /\ Cardinality(Beside(pool, k)) \in Nat /\ Cardinality(pool[k]) \in Nat
<1> DEFINE mine == {k} \X pool[k]
<1>1. IsFiniteSet(mine) /\ Cardinality(mine) = Cardinality(pool[k])
  <2>1. IsFiniteSet({k}) /\ Cardinality({k}) = 1
    BY FS_Singleton
  <2>2. Cardinality(pool[k]) \in Nat
    BY FS_CardinalityType
  <2>3. IsFiniteSet({k} \X pool[k])
        /\ Cardinality({k} \X pool[k]) = Cardinality({k}) * Cardinality(pool[k])
    BY <2>1, FS_Product
  <2> QED BY <2>1, <2>2, <2>3
<1>2. EntriesOf(pool) = Beside(pool, k) \cup mine
  BY DEF EntriesOf, Beside
<1>3. Beside(pool, k) \cap mine = {}
  BY DEF Beside
<1> HIDE DEF mine
<1>4. /\ IsFiniteSet(Beside(pool, k) \cup mine)
      /\ Cardinality(Beside(pool, k) \cup mine)
           = Cardinality(Beside(pool, k)) + Cardinality(mine)
                - Cardinality(Beside(pool, k) \cap mine)
  BY <1>1, FS_Union
<1>5. Cardinality(Beside(pool, k)) \in Nat /\ Cardinality(pool[k]) \in Nat
  BY FS_CardinalityType
<1>6. Cardinality({}) = 0
  BY FS_EmptySet
<1>7. PixelsOf(pool) = Cardinality(Beside(pool, k) \cup mine)
  BY <1>2 DEF PixelsOf
<1>8. Cardinality(Beside(pool, k) \cap mine) = 0
  BY <1>3, <1>6
<1> QED BY <1>1, <1>2, <1>4, <1>5, <1>7, <1>8

LEMMA EntriesOfOne ==
  ASSUME NEW pool, NEW k \in DOMAIN pool, IsFiniteSet(EntriesOf(pool))
  PROVE  IsFiniteSet(Beside(pool, k)) /\ Cardinality(EntriesOf(pool)) \in Nat
<1>1. Beside(pool, k) \subseteq EntriesOf(pool)
  BY DEF Beside, EntriesOf
<1> QED BY <1>1, FS_Subset, FS_CardinalityType

\* A pool with fewer entries.
LEMMA Fewer ==
  ASSUME NEW pool, NEW less, IsFiniteSet(EntriesOf(pool)), EntriesOf(less) \subseteq EntriesOf(pool)
  PROVE  /\ IsFiniteSet(EntriesOf(less)) /\ PixelsOf(less) \in Nat /\ PixelsOf(pool) \in Nat
         /\ PixelsOf(less) <= PixelsOf(pool)
         /\ EntriesOf(less) # EntriesOf(pool) => PixelsOf(less) + 1 <= PixelsOf(pool)
<1>1. /\ IsFiniteSet(EntriesOf(less)) /\ Cardinality(EntriesOf(less)) <= Cardinality(EntriesOf(pool))
      /\ Cardinality(EntriesOf(pool)) = Cardinality(EntriesOf(less))
            => EntriesOf(pool) = EntriesOf(less)
  BY FS_Subset
<1>2. Cardinality(EntriesOf(less)) \in Nat /\ Cardinality(EntriesOf(pool)) \in Nat
  BY <1>1, FS_CardinalityType
<1> QED BY <1>1, <1>2 DEF PixelsOf

\* An event that loses some of its frames.
LEMMA EventLess ==
  ASSUME NEW s, EventOK(s), NEW r \in SUBSET s
  PROVE  EventOK(r) /\ Cardinality(r) \in Nat /\ Cardinality(s) \in Nat
<1>1. IsFiniteSet(r) /\ Cardinality(r) <= Cardinality(s)
  BY FS_Subset DEF EventOK
<1>2. Cardinality(r) \in Nat /\ Cardinality(s) \in Nat
  BY <1>1, FS_CardinalityType DEF EventOK
<1> QED BY <1>1, <1>2, PoolConstants DEF EventOK

\* _evict_events_locked: a new event takes the place of the one shown longest ago.
LEMMA CreationKeeps ==
  ASSUME PoolCaps, IsFiniteSet(EntriesOf(live)), NEW k \in EventKeys
  PROVE  LET after == AfterCreation(k)
         IN  /\ k \in DOMAIN after /\ DOMAIN after \subseteq EventKeys
             /\ IsFiniteSet(DOMAIN after) /\ Cardinality(DOMAIN after) <= MaxEvents
             /\ \A e \in DOMAIN after : EventOK(after[e])
             /\ EntriesOf(after) \subseteq EntriesOf(live)
<1> USE DEF PoolCaps
<1> DEFINE kept == IF Cardinality(Events) < MaxEvents THEN live ELSE Without(Oldest)
           fresh == [e \in DOMAIN kept \cup {k} |-> IF e = k THEN {} ELSE kept[e]]
<1>1. CASE k \in Events
  BY <1>1 DEF AfterCreation, Events
<1>2. CASE k \notin Events
  <2>1. AfterCreation(k) = fresh
    BY <1>2 DEF AfterCreation
  <2>2. Cardinality(DOMAIN live) \in Nat
    BY FS_CardinalityType
  <2>3. /\ DOMAIN kept \subseteq DOMAIN live /\ \A e \in DOMAIN kept : kept[e] = live[e]
        /\ IsFiniteSet(DOMAIN kept) /\ Cardinality(DOMAIN kept) + 1 <= MaxEvents
        /\ Cardinality(DOMAIN kept) \in Nat
    <3>1. CASE Cardinality(Events) < MaxEvents
      BY <2>2, <3>1, PoolConstants DEF Events
    <3>2. CASE ~(Cardinality(Events) < MaxEvents)
      <4>1. Events # {}
        BY <3>2, PoolConstants, FS_EmptySet DEF Events
      <4>2. \A e \in Events : lastShown[e] \in Nat
        BY DEF Events
      <4>3. \E x \in Events : \A y \in Events : lastShown[x] <= lastShown[y]
        BY <4>1, <4>2, LeastOf
      <4>4. Oldest \in DOMAIN live
        BY <4>3 DEF Oldest, Events
      <4>5. /\ IsFiniteSet(DOMAIN live \ {Oldest})
            /\ Cardinality(DOMAIN live \ {Oldest}) = Cardinality(DOMAIN live) - 1
        BY <4>4, FS_RemoveElement
      <4>6. Cardinality(DOMAIN live \ {Oldest}) \in Nat
        BY <4>5, FS_CardinalityType
      <4>7. kept = Without(Oldest)
        BY <3>2
      <4> HIDE DEF kept
      <4>8. DOMAIN kept = DOMAIN live \ {Oldest} /\ \A e \in DOMAIN kept : kept[e] = live[e]
        BY <4>7 DEF Without, Events
      <4> QED BY <2>2, <4>5, <4>6, <4>8, PoolConstants
    <3> QED BY <3>1, <3>2
  <2> HIDE DEF kept
  <2>4. DOMAIN fresh = DOMAIN kept \cup {k}
        /\ \A e \in DOMAIN fresh : fresh[e] = IF e = k THEN {} ELSE kept[e]
    OBVIOUS
  <2> HIDE DEF fresh
  <2>5. IsFiniteSet(DOMAIN fresh) /\ Cardinality(DOMAIN fresh) <= MaxEvents
    <3>1. /\ IsFiniteSet(DOMAIN kept \cup {k})
          /\ Cardinality(DOMAIN kept \cup {k}) \in {Cardinality(DOMAIN kept), Cardinality(DOMAIN kept) + 1}
      <4> DEFINE names == DOMAIN kept
      <4>1. IsFiniteSet(names)
        BY <2>3
      <4> HIDE DEF names
      <4>2. /\ IsFiniteSet(names \cup {k})
            /\ Cardinality(names \cup {k}) \in {Cardinality(names), Cardinality(names) + 1}
        BY <4>1, FS_AddElement
      <4> QED BY <4>2 DEF names
    <3>2. Cardinality(DOMAIN kept \cup {k}) \in Nat
      BY <3>1, FS_CardinalityType
    <3> QED BY <2>3, <2>4, <3>1, <3>2, PoolConstants
  <2>6. EventOK({})
    BY FS_EmptySet, PoolConstants DEF EventOK
  <2>7. \A e \in DOMAIN fresh : EventOK(fresh[e])
    BY <2>3, <2>4, <2>6
  <2>8. EntriesOf(fresh) \subseteq EntriesOf(live)
    BY <2>3, <2>4 DEF EntriesOf
  <2> QED BY <2>1, <2>3, <2>4, <2>5, <2>7, <2>8
<1> QED BY <1>1, <1>2

LEMMA ShowKeeps ==
  ASSUME PoolInv, NEW w, NEW k \in EventKeys, NEW brought \in SUBSET PoolFrames, Show(w, k, brought)
  PROVE  PoolInv'
<1> USE DEF PoolInv
<1>1. /\ observer.pc = "idle" /\ poolState = "open" /\ poolState' = poolState
      /\ shown' = shown + 1 /\ lastShown' = [lastShown EXCEPT ![k] = shown + 1]
      /\ live' = AfterCreation(k) /\ book' = book - (PixelsOf(live) - PixelsOf(live)')
      /\ reserved' = reserved
      /\ observer'.pc = "store" /\ observer'.rows = brought
  BY DEF Show
<1>2. /\ DOMAIN live' \subseteq EventKeys
      /\ IsFiniteSet(DOMAIN live') /\ Cardinality(DOMAIN live') <= MaxEvents
      /\ \A e \in DOMAIN live' : EventOK(live'[e])
      /\ EntriesOf(live') \subseteq EntriesOf(live) /\ IsFiniteSet(EntriesOf(live))
  BY <1>1, CreationKeeps DEF PoolBooks
<1>3. PoolCaps'
  BY <1>1, <1>2 DEF PoolCaps, EventOK
<1>4. /\ IsFiniteSet(EntriesOf(live')) /\ PixelsOf(live') \in Nat /\ PixelsOf(live) \in Nat
      /\ PixelsOf(live') <= PixelsOf(live)
  BY <1>2, Fewer
<1>5. book = PixelsOf(live) /\ reserved = 0 /\ PixelsOf(live) <= MaxHeld
  BY <1>1, <1>4 DEF PoolBooks, HeldPixels
<1>6. book' = PixelsOf(live') /\ PixelsOf(live') <= MaxHeld
  BY <1>1, <1>4, <1>5, PoolConstants
<1>7. PoolBooks'
  BY <1>1, <1>4, <1>5, <1>6 DEF PoolBooks, HeldPixels
<1>8. Copying'
  BY <1>1 DEF Copying
<1> QED BY <1>3, <1>7, <1>8

\* _make_room_locked: when the pool is full, one frame goes, and with its last one its
\* event.
LEMMA VictimFound ==
  ASSUME PoolCaps, Evictable # {}
  PROVE  Victim[1] \in DOMAIN live /\ Victim[2] \in live[Victim[1]]
<1> DEFINE age == [v \in Evictable |-> VictimAge(v[1], v[2])]
<1>1. \A v \in Evictable : v[1] \in DOMAIN live /\ v[2] \in live[v[1]]
  BY DEF Evictable, EntriesOf
<1>2. \A v \in Evictable : v[2].id \in Nat /\ v[2].at \in Nat
  BY <1>1, PoolConstants DEF PoolCaps, EventOK
<1>3. \A a, b, c \in Nat : a * (b + 1) + c \in Nat
  OBVIOUS
<1>4. \A v \in Evictable : VictimAge(v[1], v[2]) \in Nat
  BY <1>2, <1>3, PoolConstants DEF VictimAge
<1>5. \A v \in Evictable : age[v] = VictimAge(v[1], v[2])
  OBVIOUS
<1> HIDE DEF age
<1>6. \E v \in Evictable : \A u \in Evictable : age[v] <= age[u]
  BY <1>4, <1>5, LeastOf
<1>7. Victim \in Evictable
  BY <1>5, <1>6 DEF Victim
<1> QED BY <1>1, <1>7

LEMMA RoomyKeeps ==
  ASSUME PoolCaps, Full => Evictable # {}
  PROVE  /\ DOMAIN Roomy \subseteq DOMAIN live
         /\ \A e \in DOMAIN Roomy : Roomy[e] \subseteq live[e]
         /\ EntriesOf(Roomy) \subseteq EntriesOf(live)
         /\ Full => EntriesOf(Roomy) # EntriesOf(live)
<1>1. CASE ~Full
  BY <1>1 DEF Roomy
<1>2. CASE Full
  <2> DEFINE k == Victim[1]
             x == Victim[2]
             rest == live[k] \ {x}
  <2>1. k \in DOMAIN live /\ x \in live[k]
    BY <1>2, VictimFound
  <2>2. Roomy = IF rest = {} THEN Without(k) ELSE [live EXCEPT ![k] = rest]
    BY <1>2 DEF Roomy
  <2> HIDE DEF k, x
  <2>3. /\ DOMAIN Roomy \subseteq DOMAIN live
        /\ \A e \in DOMAIN Roomy : Roomy[e] = IF e = k THEN rest ELSE live[e]
    <3>1. CASE rest = {}
      <4>1. DOMAIN Roomy = DOMAIN live \ {k} /\ \A e \in DOMAIN Roomy : Roomy[e] = live[e]
        BY <2>2, <3>1 DEF Without, Events
      <4> QED BY <4>1
    <3>2. CASE rest # {}
      <4>1. Roomy = [live EXCEPT ![k] = rest]
        BY <2>2, <3>2
      <4>2. DOMAIN Roomy = DOMAIN live
        BY <4>1
      <4>3. \A e \in DOMAIN live : Roomy[e] = IF e = k THEN rest ELSE live[e]
        BY <2>1, <4>1
      <4> QED BY <4>2, <4>3
    <3> QED BY <3>1, <3>2
  <2>4. \A e \in DOMAIN Roomy : Roomy[e] \subseteq live[e]
    BY <2>3
  <2>5. EntriesOf(Roomy) \subseteq EntriesOf(live)
    BY <2>3, <2>4 DEF EntriesOf
  <2>6. <<k, x>> \in EntriesOf(live) /\ <<k, x>> \notin EntriesOf(Roomy)
    <3>1. <<k, x>> \in EntriesOf(live)
      BY <2>1 DEF EntriesOf
    <3>2. ASSUME NEW e \in DOMAIN Roomy, <<k, x>> \in {e} \X Roomy[e] PROVE FALSE
      <4>1. e = k /\ x \in Roomy[k]
        BY <3>2
      <4>2. x \in rest
        BY <2>3, <3>2, <4>1
      <4> QED BY <4>2
    <3> QED BY <3>1, <3>2 DEF EntriesOf
  <2> QED BY <2>3, <2>4, <2>5, <2>6
<1> QED BY <1>1, <1>2

LEMMA StoreKeeps == ASSUME PoolInv, StoreRow PROVE PoolInv'
<1> USE DEF PoolInv
<1> DEFINE f == Min(observer.rows)
           k == observer.key
<1>1. /\ observer.pc = "store" /\ observer.rows # {}
      /\ UNCHANGED <<lastShown, shown, poolState>>
  BY DEF StoreRow
<1>2. /\ book = PixelsOf(live) /\ reserved = 0 /\ PixelsOf(live) <= MaxHeld
      /\ IsFiniteSet(EntriesOf(live)) /\ PixelsOf(live) \in Nat /\ poolState # "released"
  <2>1. IsFiniteSet(EntriesOf(live)) /\ poolState # "released"
    BY <1>1 DEF PoolBooks
  <2>2. PixelsOf(live) \in Nat
    BY <2>1, FS_CardinalityType DEF PixelsOf
  <2> QED BY <1>1, <2>1, <2>2 DEF PoolBooks, HeldPixels
<1>3. CASE observer' = [observer EXCEPT !.rows = @ \ {f}] /\ UNCHANGED <<live, book, reserved>>
  <2>1. observer'.pc = "store" /\ observer'.rows \subseteq PoolFrames
    BY <1>1, <1>3 DEF Copying
  <2>2. PoolBooks'
    BY <1>1, <1>2, <1>3, <2>1 DEF PoolBooks, HeldPixels
  <2>3. PoolCaps'
    BY <1>1, <1>3 DEF PoolCaps, EventOK
  <2>4. Copying'
    BY <2>1 DEF Copying
  <2> QED BY <2>2, <2>3, <2>4
<1>4. CASE /\ k \in Events /\ \A x \in live[k] : x.id # f
           /\ Full => Evictable # {}
           /\ live' = Roomy
           /\ book' = book - (PixelsOf(live) - PixelsOf(live)')
           /\ reserved' = reserved + 1
           /\ observer' = [observer EXCEPT !.pc = "copy"]
  <2>1. /\ DOMAIN live' \subseteq DOMAIN live
        /\ \A e \in DOMAIN live' : live'[e] \subseteq live[e]
        /\ EntriesOf(live') \subseteq EntriesOf(live)
        /\ Full => EntriesOf(live') # EntriesOf(live)
    BY <1>4, RoomyKeeps
  <2>2. observer'.pc = "copy" /\ observer'.rows = observer.rows /\ observer'.key = k
    BY <1>4 DEF Copying
  <2>3. /\ IsFiniteSet(EntriesOf(live')) /\ PixelsOf(live') \in Nat
        /\ PixelsOf(live') <= PixelsOf(live)
        /\ Full => PixelsOf(live') + 1 <= PixelsOf(live)
    BY <1>2, <2>1, Fewer
  <2>4. ~Full => PixelsOf(live) + 1 <= MaxHeld
    BY <1>2, PoolConstants DEF Full
  <2>5. book' = PixelsOf(live') /\ reserved' = 1 /\ PixelsOf(live') + 1 <= MaxHeld
    BY <1>2, <1>4, <2>3, <2>4, PoolConstants
  <2>6. PoolBooks'
    BY <1>1, <1>2, <2>2, <2>3, <2>5 DEF PoolBooks, HeldPixels
  <2>7. PoolCaps'
    <3>1. IsFiniteSet(DOMAIN live') /\ Cardinality(DOMAIN live') <= Cardinality(DOMAIN live)
      BY <2>1, FS_Subset DEF PoolCaps
    <3>2. Cardinality(DOMAIN live') \in Nat /\ Cardinality(DOMAIN live) \in Nat
      BY <3>1, FS_CardinalityType DEF PoolCaps
    <3>3. DOMAIN live' \subseteq EventKeys /\ Cardinality(DOMAIN live') <= MaxEvents
      BY <2>1, <3>1, <3>2, PoolConstants DEF PoolCaps
    <3>4. \A e \in DOMAIN live' : EventOK(live'[e])
      BY <2>1, EventLess DEF PoolCaps
    <3> QED BY <1>1, <3>1, <3>3, <3>4 DEF PoolCaps, EventOK
  <2>8. Copying'
    BY <1>1, <1>4, <2>1, <2>2 DEF Copying, Events
  <2> QED BY <2>6, <2>7, <2>8
<1> QED BY <1>3, <1>4 DEF StoreRow

\* _trim_event_locked: one frame beyond the cap, and one that goes.
LEMMA TrimmedFits ==
  ASSUME NEW s, s \subseteq [id : PoolFrames, at : Nat], IsFiniteSet(s),
         Cardinality(s) <= MaxPerEvent + 1
  PROVE  Trimmed(s) \subseteq s /\ IsFiniteSet(Trimmed(s)) /\ Cardinality(Trimmed(s)) <= MaxPerEvent
<1>1. Cardinality(s) \in Nat
  BY FS_CardinalityType
<1>2. CASE Cardinality(s) <= MaxPerEvent
  BY <1>2 DEF Trimmed
<1>3. CASE ~(Cardinality(s) <= MaxPerEvent)
  <2> DEFINE first == CHOOSE x \in s : InOrder(s, x)
             last == CHOOSE x \in s : \A y \in s : y.id <= x.id
             inner == s \ {first, last}
             middle == {x \in inner : x.id \notin Turning}
             from == IF Cardinality(s) <= 2 THEN s ELSE IF middle # {} THEN middle ELSE inner
             gone == CHOOSE x \in from : InOrder(from, x)
  <2>1. Trimmed(s) = s \ {gone}
    BY <1>3 DEF Trimmed
  <2>2. Cardinality(s) > 2 => inner # {}
    <3> DEFINE others == s \ {first}
               rest == others \ {last}
    <3> HIDE DEF first, last
    <3>1. IsFiniteSet(others) /\ Cardinality(others) \in {Cardinality(s), Cardinality(s) - 1}
      BY FS_RemoveElement
    <3>2. Cardinality(others) \in Nat
      BY <3>1, FS_CardinalityType
    <3> HIDE DEF others
    <3>3. Cardinality(rest) \in {Cardinality(others), Cardinality(others) - 1}
      BY <3>1, FS_RemoveElement
    <3>4. inner = rest
      BY DEF others
    <3> HIDE DEF inner, rest
    <3>5. ASSUME Cardinality(s) > 2, inner = {} PROVE FALSE
      <4>1. Cardinality(rest) = 0
        BY <3>4, <3>5, FS_EmptySet
      <4> QED BY <1>1, <3>1, <3>2, <3>3, <3>5, <4>1
    <3> QED BY <3>5
  <2>3. s # {}
    BY <1>1, <1>3, FS_EmptySet, PoolConstants
  <2>4. from \subseteq s /\ from # {}
    <3> HIDE DEF first, last
    <3> QED BY <1>1, <2>2, <2>3
  <2> HIDE DEF from
  <2>5. gone \in s
    <3> DEFINE number == [x \in from |-> x.id]
    <3>1. \A x \in from : x.id \in Nat /\ number[x] = x.id
      BY <2>4, PoolConstants
    <3> HIDE DEF number
    <3>2. \E x \in from : \A y \in from : number[x] <= number[y]
      BY <2>4, <3>1, LeastOf
    <3>3. \E x \in from : InOrder(from, x)
      BY <3>1, <3>2 DEF InOrder
    <3> QED BY <2>4, <3>3
  <2> HIDE DEF gone
  <2>6. IsFiniteSet(s \ {gone}) /\ Cardinality(s \ {gone}) = Cardinality(s) - 1
    BY <2>5, FS_RemoveElement
  <2> QED BY <1>1, <2>1, <2>6, PoolConstants
<1> QED BY <1>2, <1>3

LEMMA CopyKeeps == ASSUME PoolInv, CopyRow PROVE PoolInv'
<1> USE DEF PoolInv
<1> DEFINE f == Min(observer.rows)
           k == observer.key
           new == [id |-> f, at |-> shown]
           s == live[k] \cup {new}
<1>1. /\ observer.pc = "copy" /\ reserved' = reserved - 1
      /\ observer' = [observer EXCEPT !.pc = "store", !.rows = @ \ {f}]
      /\ UNCHANGED <<lastShown, shown, poolState>>
  BY DEF CopyRow
<1>2. /\ observer.rows # {} /\ observer.rows \subseteq PoolFrames
      /\ k \in DOMAIN live => \A x \in live[k] : x.id # f
  BY <1>1 DEF Copying
<1>3. f \in PoolFrames /\ f \in Nat
  BY <1>2, InHand
<1>4. /\ reserved' = 0 /\ observer'.pc = "store" /\ observer'.rows \subseteq PoolFrames
  BY <1>1, <1>2 DEF PoolBooks, Copying
<1>5. /\ book = PixelsOf(live) /\ PixelsOf(live) + 1 <= MaxHeld
      /\ IsFiniteSet(EntriesOf(live)) /\ PixelsOf(live) \in Nat /\ poolState # "released"
  <2>1. IsFiniteSet(EntriesOf(live)) /\ poolState # "released" /\ reserved = 1
    BY <1>1 DEF PoolBooks
  <2>2. PixelsOf(live) \in Nat
    BY <2>1, FS_CardinalityType DEF PixelsOf
  <2> QED BY <2>1, <2>2 DEF PoolBooks, HeldPixels
<1>6. Copying'
  BY <1>4 DEF Copying
<1>7. CASE UNCHANGED <<live, book>>
  <2>1. PoolBooks'
    BY <1>1, <1>4, <1>5, <1>7, PoolConstants DEF PoolBooks, HeldPixels
  <2>2. PoolCaps'
    BY <1>1, <1>7 DEF PoolCaps, EventOK
  <2> QED BY <1>6, <2>1, <2>2
<1>8. CASE /\ k \in Events
           /\ live' = [live EXCEPT ![k] = Trimmed(@ \cup {[id |-> f, at |-> shown]})]
           /\ book' = book + 1 - (Cardinality(live[k]) + 1 - Cardinality(live'[k]))
  <2>1. k \in DOMAIN live /\ EventOK(live[k])
    BY <1>8 DEF PoolCaps, Events
  <2>2. /\ DOMAIN live' = DOMAIN live /\ live'[k] = Trimmed(s)
        /\ \A e \in DOMAIN live \ {k} : live'[e] = live[e]
    BY <1>8, <2>1
  <2>3. new \in [id : PoolFrames, at : Nat] /\ s \subseteq [id : PoolFrames, at : Nat]
    BY <1>3, <2>1 DEF EventOK, PoolCaps
  <2>4. IsFiniteSet(s) /\ Cardinality(s) <= MaxPerEvent + 1 /\ Cardinality(live[k]) \in Nat
    <3> HIDE DEF new
    <3>1. IsFiniteSet(live[k]) /\ Cardinality(live[k]) <= MaxPerEvent
      BY <2>1 DEF EventOK
    <3>2. Cardinality(live[k]) \in Nat
      BY <3>1, FS_CardinalityType
    <3>3. IsFiniteSet(s) /\ Cardinality(s) \in {Cardinality(live[k]), Cardinality(live[k]) + 1}
      BY <3>1, FS_AddElement
    <3> QED BY <3>1, <3>2, <3>3, PoolConstants
  <2>5. \A x, y \in s : x.id = y.id => x = y
    <3>1. \A x \in live[k] : x.id # new.id
      BY <1>2, <2>1
    <3> HIDE DEF new
    <3> QED BY <2>1, <3>1 DEF EventOK
  <2>6. EventOK(live'[k]) /\ Cardinality(live'[k]) \in Nat
        /\ Cardinality(live'[k]) <= Cardinality(live[k]) + 1
    <3> HIDE DEF s
    <3>1. Trimmed(s) \subseteq s /\ IsFiniteSet(Trimmed(s)) /\ Cardinality(Trimmed(s)) <= MaxPerEvent
      BY <2>3, <2>4, TrimmedFits
    <3>2. EventOK(Trimmed(s))
      BY <2>3, <2>5, <3>1 DEF EventOK
    <3>3. Cardinality(Trimmed(s)) \in Nat /\ Cardinality(Trimmed(s)) <= Cardinality(s)
      BY <2>4, <3>1, FS_CardinalityType, FS_Subset
    <3>4. Cardinality(s) \in Nat /\ Cardinality(s) <= Cardinality(live[k]) + 1
      <4>1. IsFiniteSet(live[k])
        BY <2>1 DEF EventOK
      <4>2. Cardinality(s) \in {Cardinality(live[k]), Cardinality(live[k]) + 1}
        BY <4>1, FS_AddElement DEF s
      <4> QED BY <2>4, <4>2
    <3> QED BY <2>2, <2>4, <3>2, <3>3, <3>4
  <2>7. Beside(live', k) = Beside(live, k)
    BY <2>2 DEF Beside
  <2>8. /\ PixelsOf(live) = Cardinality(Beside(live, k)) + Cardinality(live[k])
        /\ IsFiniteSet(Beside(live, k)) /\ Cardinality(Beside(live, k)) \in Nat
    <3>1. IsFiniteSet(Beside(live, k)) /\ IsFiniteSet(live[k])
      BY <1>5, <2>1, EntriesOfOne DEF EventOK
    <3> QED BY <2>1, <3>1, EntriesSplit
  <2>9. /\ PixelsOf(live') = Cardinality(Beside(live, k)) + Cardinality(live'[k])
        /\ IsFiniteSet(EntriesOf(live'))
    <3>1. IsFiniteSet(live'[k]) /\ k \in DOMAIN live'
      BY <2>1, <2>2, <2>6 DEF EventOK
    <3>2. IsFiniteSet(Beside(live', k))
      BY <2>7, <2>8
    <3> QED BY <2>7, <3>1, <3>2, EntriesSplit
  <2>10. book' = PixelsOf(live') /\ PixelsOf(live') \in Nat /\ PixelsOf(live') + 0 <= MaxHeld
    BY <1>5, <1>8, <2>4, <2>6, <2>8, <2>9, PoolConstants
  <2>11. PoolBooks'
    <3>1. reserved' = (IF observer'.pc = "copy" THEN 1 ELSE 0) /\ poolState' # "released"
      BY <1>1, <1>4, <1>5
    <3>2. book' = HeldPixels' /\ PixelsOf(live') + reserved' <= MaxHeld
      BY <1>4, <2>10, <3>1 DEF HeldPixels
    <3> QED BY <2>9, <3>1, <3>2 DEF PoolBooks
  <2>12. PoolCaps'
    <3>1. \A e \in DOMAIN live' : EventOK(live'[e])
      BY <2>2, <2>6 DEF PoolCaps
    <3> QED BY <1>1, <2>2, <3>1 DEF PoolCaps, EventOK
  <2> QED BY <1>6, <2>11, <2>12
<1> QED BY <1>7, <1>8 DEF CopyRow

\* The steps that leave what is held as it is.
LEMMA HeldAsItIs ==
  ASSUME PoolInv, UNCHANGED <<live, lastShown, book, reserved, shown>>,
         observer'.pc = "copy" <=> observer.pc = "copy",
         poolState' = "released" => poolState = "released" /\ observer'.pc = "ended",
         poolState = "released" => poolState' = "released",
         Copying'
  PROVE  PoolInv'
<1>1. PoolBooks'
  BY DEF PoolInv, PoolBooks, HeldPixels
<1>2. PoolCaps'
  BY DEF PoolInv, PoolCaps, EventOK
<1> QED BY <1>1, <1>2 DEF PoolInv

LEMMA ReleaseKeeps == ASSUME PoolInv, ReleasePixels PROVE PoolInv'
<1> USE DEF PoolInv
<1>1. /\ poolState = "closed" /\ reserved = 0 /\ observer.pc = "ended"
      /\ book' = book - HeldPixels /\ poolState' = "released"
      /\ UNCHANGED <<live, lastShown, reserved, shown, observer>>
  BY DEF ReleasePixels, Releasable
<1>2. book = PixelsOf(live) /\ PixelsOf(live) \in Nat /\ book' = 0
  <2>1. PixelsOf(live) \in Nat
    BY FS_CardinalityType DEF PixelsOf, PoolBooks
  <2> QED BY <1>1, <2>1 DEF PoolBooks, HeldPixels
<1>3. PoolBooks'
  BY <1>1, <1>2 DEF PoolBooks, HeldPixels
<1>4. PoolCaps'
  BY <1>1 DEF PoolCaps, EventOK
<1>5. Copying'
  BY <1>1 DEF Copying
<1> QED BY <1>3, <1>4, <1>5

LEMMA PoolBegins == PoolInit => PoolInv
<1> SUFFICES ASSUME PoolInit PROVE PoolInv
  OBVIOUS
<1> USE DEF PoolInit
<1>1. DOMAIN live = {} /\ EntriesOf(live) = {}
  BY DEF EntriesOf
<1>2. IsFiniteSet({}) /\ Cardinality({}) = 0
  BY FS_EmptySet
<1>3. PixelsOf(live) = 0
  BY <1>1, <1>2 DEF PixelsOf
<1>4. PoolBooks
  <2>1. IsFiniteSet(EntriesOf(live)) /\ PixelsOf(live) + reserved <= MaxHeld
    <3>1. IsFiniteSet(EntriesOf(live))
      BY <1>1, <1>2
    <3>2. 0 + 0 <= MaxHeld
      BY PoolConstants
    <3> QED BY <1>3, <3>1, <3>2
  <2>2. book = HeldPixels /\ observer.pc = "idle"
    BY <1>3 DEF HeldPixels
  <2> QED BY <2>1, <2>2 DEF PoolBooks
<1>5. PoolCaps
  BY <1>1, <1>2, PoolConstants DEF PoolCaps
<1>6. Copying
  BY DEF Copying
<1> QED BY <1>4, <1>5, <1>6 DEF PoolInv

LEMMA PoolSteps == PoolInv /\ [PoolNext]_pvars => PoolInv'
<1> SUFFICES ASSUME PoolInv, [PoolNext]_pvars PROVE PoolInv'
  OBVIOUS
<1>1. ASSUME NEW w \in PoolWins, NEW brought \in SUBSET PoolFrames \ {{}},
             PlanFrames(w, brought)
      PROVE  PoolInv'
  <2>1. UNCHANGED <<live, lastShown, book, reserved, shown, observer, poolState>>
    BY <1>1 DEF PlanFrames
  <2>2. Copying'
    BY <2>1 DEF PoolInv, Copying
  <2> QED BY <2>1, <2>2, HeldAsItIs DEF PoolInv, PoolBooks
<1>2. ASSUME NEW w \in PoolWins, ForgetWindow(w) PROVE PoolInv'
  <2>1. UNCHANGED <<live, lastShown, book, reserved, shown, observer, poolState>>
    BY <1>2 DEF ForgetWindow
  <2>2. Copying'
    BY <2>1 DEF PoolInv, Copying
  <2> QED BY <2>1, <2>2, HeldAsItIs DEF PoolInv, PoolBooks
<1>3. ASSUME ShowEnd PROVE PoolInv'
  <2>1. /\ UNCHANGED <<live, lastShown, book, reserved, shown, poolState>>
        /\ observer.pc = "store" /\ observer'.pc = "idle" /\ observer'.rows = observer.rows
    BY <1>3 DEF ShowEnd, PoolInv, Copying
  <2>2. Copying'
    BY <2>1 DEF PoolInv, Copying
  <2> QED BY <2>1, <2>2, HeldAsItIs DEF PoolInv, PoolBooks
<1>4. ASSUME PoolClose PROVE PoolInv'
  <2>1. /\ UNCHANGED <<live, lastShown, book, reserved, shown, observer>>
        /\ poolState = "open" /\ poolState' = "closed"
    BY <1>4 DEF PoolClose
  <2>2. Copying'
    BY <2>1 DEF PoolInv, Copying
  <2> QED BY <2>1, <2>2, HeldAsItIs DEF PoolInv, PoolBooks
<1>5. ASSUME ObserverEnds PROVE PoolInv'
  <2>1. /\ UNCHANGED <<live, lastShown, book, reserved, shown, poolState>>
        /\ observer.pc = "idle" /\ observer'.pc = "ended" /\ observer'.rows = observer.rows
    BY <1>5 DEF ObserverEnds, PoolInv, Copying
  <2>2. Copying'
    BY <2>1 DEF PoolInv, Copying
  <2> QED BY <2>1, <2>2, HeldAsItIs DEF PoolInv, PoolBooks
<1>6. ASSUME UNCHANGED pvars PROVE PoolInv'
  <2>1. UNCHANGED <<live, lastShown, book, reserved, shown, observer, poolState>>
    BY <1>6 DEF pvars
  <2>2. Copying'
    BY <2>1 DEF PoolInv, Copying
  <2> QED BY <2>1, <2>2, HeldAsItIs DEF PoolInv, PoolBooks
<1>7. ASSUME NEW w \in PoolWins, NEW k \in EventKeys, NEW brought \in SUBSET PoolFrames \ {{}},
             Show(w, k, brought)
      PROVE  PoolInv'
  BY <1>7, ShowKeeps
<1> QED BY <1>1, <1>2, <1>3, <1>4, <1>5, <1>6, <1>7, StoreKeeps, CopyKeeps, ReleaseKeeps
    DEF PoolNext

\* The book is what the events hold, to the frame, and never beyond the caps, whatever is
\* evicted, refused or closed while a copy is made: for any number of events and frames,
\* and for any caps.
THEOREM PoolStaysAccounted == PoolInit /\ [][PoolNext]_pvars => []PoolAccounted
<1>1. PoolInit => PoolInv
  BY PoolBegins
<1>2. PoolInv /\ [PoolNext]_pvars => PoolInv'
  BY PoolSteps
<1>3. PoolInv => PoolAccounted
  <2> SUFFICES ASSUME PoolInv PROVE PoolAccounted
    OBVIOUS
  <2>1. PixelsOf(live) \in Nat
    BY FS_CardinalityType DEF PixelsOf, PoolInv, PoolBooks
  <2>2. HeldPixels + reserved <= MaxHeld /\ (poolState = "released" => book = 0 /\ reserved = 0)
    BY <2>1, PoolConstants DEF PoolInv, PoolBooks, HeldPixels
  <2> QED BY <2>2 DEF PoolInv, PoolBooks, PoolCaps, PoolAccounted, EventOK, Events
<1> QED BY <1>1, <1>2, <1>3, PTL
-------------------------------------------------------------------------------
(* L3Model: the slots of the model. *)

\* Who has a slot: a call that is under way, or one whose caller gave it up.
Occupies(c) == call[c] # "idle" \/ c \in held
\* With one slot: nobody has it, or one has, and that one either calls or gave up.
OneSlot ==
    /\ call \in [Callers -> {"idle", "enter", "load", "loading", "submit", "enlist", "wait",
                             "deliver", "timeout"}]
    /\ job \in [Callers -> {"none", "queued", "ok", "error"}]
    /\ held \subseteq Callers /\ inFlight \in {0, 1} /\ freeSlots = 1 - inFlight
    /\ \A c \in Callers : Occupies(c) => inFlight = 1
    /\ \A c, d \in Callers : Occupies(c) /\ Occupies(d) => c = d
    /\ \A c \in held : call[c] = "idle"
\* A call that runs belongs to one who has a slot, and what the backend tells is about it.
Running ==
    /\ \A c \in Callers : job[c] = "queued" =>
          call[c] \in {"enlist", "wait", "timeout"} \/ c \in held
    /\ \A c \in Callers : call[c] \in {"wait", "timeout"} \/ c \in held => latest = c
\* Before the first load nothing runs; a model that was told to close begins no load,
\* and once it waits for its thread it takes no call.
CallsEnding ==
    /\ loads \in Seq({"queued", "ok", "dropped", "failed"})
    /\ loads = <<>> => /\ loaded = FALSE /\ loadFuture = 0 /\ line = <<>>
                       /\ \A c \in Callers : call[c] \notin {"loading", "submit"}
    /\ closer.pc # "none" => closing = TRUE
    /\ closer.pc \in {"joins", "closed"} => shut = TRUE \/ loads = <<>>
    /\ closer.pc = "closed" => line = <<>>
    /\ loaded \in BOOLEAN /\ shut \in BOOLEAN /\ closing \in BOOLEAN /\ poisoned \in BOOLEAN
SlotInv == OneSlot /\ Running /\ CallsEnding

LEMMA SlotsByCaller ==
  ASSUME SlotInv, NEW c \in Callers,
         \/ RejectTask(c) \/ AcquireSlot(c) \/ HoldSlot(c) \/ CollectFinished(c)
         \/ EnterModel(c) \/ DropLate(c)
  PROVE  SlotInv'
<1> USE DEF SlotInv
<1>1. CASE RejectTask(c)
  BY <1>1 DEF RejectTask, slots, backend, OneSlot, Occupies, Running, CallsEnding
<1>2. CASE AcquireSlot(c)
  BY <1>2 DEF AcquireSlot, Goes, backend, OneSlot, Occupies, Running, CallsEnding
<1>3. CASE HoldSlot(c)
  <2>1. latest = c /\ c \notin held
    BY <1>3 DEF HoldSlot, OneSlot, Running
  <2>2. ProbeFinished => job[c] # "queued"
    BY <2>1, L3ModelAssumption DEF ProbeFinished, NoCaller
  <2>3. CallsEnding'
    BY <1>3 DEF HoldSlot, Answers, Goes, backend, OneSlot, CallsEnding
  <2>4. OneSlot'
    BY <1>3 DEF HoldSlot, Answers, Goes, GivesBack, backend, OneSlot, Occupies
  <2>5. Running'
    BY <1>3, <2>1, <2>2 DEF HoldSlot, Answers, Goes, backend, OneSlot, Running
  <2> QED BY <2>3, <2>4, <2>5
<1>4. CASE CollectFinished(c)
  <2>1. latest = c /\ c \in held /\ ProbeFinished
    BY <1>4 DEF CollectFinished, Running
  <2>2. job[c] # "queued"
    BY <2>1, L3ModelAssumption DEF ProbeFinished, NoCaller
  <2>3. CallsEnding'
    BY <1>4 DEF CollectFinished, backend, CallsEnding
  <2>4. OneSlot' /\ Running'
    BY <1>4, <2>1, <2>2 DEF CollectFinished, GivesBack, backend, OneSlot, Occupies, Running
  <2> QED BY <2>3, <2>4
<1>5. CASE EnterModel(c)
  BY <1>5 DEF EnterModel, Fails, Answers, Goes, GivesBack, slots, backend, OneSlot, Occupies, Running, CallsEnding
<1>6. CASE DropLate(c)
  BY <1>6 DEF DropLate, slots, backend, OneSlot, Occupies, Running, CallsEnding
<1> QED BY <1>1, <1>2, <1>3, <1>4, <1>5, <1>6

LEMMA SlotsByCall ==
  ASSUME SlotInv, NEW c \in Callers,
         \/ EnsureLoaded(c) \/ LoadEnded(c) \/ LoadTimeout(c) \/ SubmitCall(c)
         \/ EnlistCall(c) \/ CallEnded(c) \/ CallTimeout(c) \/ DeliverResult(c)
  PROVE  SlotInv'
<1> USE DEF SlotInv
<1>1. CASE EnsureLoaded(c)
  <2>0. closer' = closer /\ closing' = closing /\ poisoned' = poisoned /\ job' = job
    BY <1>1 DEF EnsureLoaded
  <2>1. CASE loaded /\ Goes(c, "submit") /\ UNCHANGED <<answer, slots, backend>>
    BY <1>1, <2>0, <2>1 DEF EnsureLoaded, Goes, slots, backend, OneSlot, Occupies, Running, CallsEnding
  <2>2. CASE Fails(c) /\ UNCHANGED backend
    BY <1>1, <2>0, <2>2 DEF EnsureLoaded, Fails, Answers, Goes, GivesBack, slots, backend, OneSlot, Occupies,
       Running, CallsEnding
  <2>3. CASE loadFuture # 0 /\ Goes(c, "loading") /\ UNCHANGED <<answer, slots, backend>>
    BY <1>1, <2>0, <2>3 DEF EnsureLoaded, Goes, slots, backend, OneSlot, Occupies, Running, CallsEnding
  <2>4. CASE /\ ~loaded /\ ~Refused /\ loadFuture = 0 /\ Len(loads) < MaxLoads
             /\ loads' = Append(loads, "queued") /\ loadFuture' = Len(loads')
             /\ line' = Append(line, LoadOf(loadFuture'))
             /\ listed' = listed \cup {LoadOf(loadFuture')}
             /\ Goes(c, "loading")
             /\ UNCHANGED <<answer, slots, shut, loaded, latest>>
    <3>1. loads' \in Seq({"queued", "ok", "dropped", "failed"}) /\ loads' # <<>>
      BY <2>4, AppendProperties DEF CallsEnding
    <3>2. closing = FALSE
      BY <2>4 DEF Refused, CallsEnding
    <3>3. OneSlot' /\ Running'
      BY <1>1, <2>0, <2>4 DEF EnsureLoaded, Goes, slots, OneSlot, Occupies, Running
    <3>4. CallsEnding'
      BY <2>0, <2>4, <3>1, <3>2 DEF CallsEnding, slots
    <3> QED BY <3>3, <3>4
  <2> QED BY <1>1, <2>1, <2>2, <2>3, <2>4 DEF EnsureLoaded
<1>2. CASE LoadEnded(c)
  <2>1. PICK n \in {k \in DOMAIN loads : loads[k] # "queued"} :
        \/ loads[n] = "ok" /\ Goes(c, "submit") /\ UNCHANGED <<answer, slots, loadFuture>>
        \/ loads[n] = "dropped" /\ Fails(c) /\ UNCHANGED loadFuture
        \/ /\ loads[n] = "failed" /\ Fails(c)
           /\ loadFuture' = IF Refused THEN loadFuture ELSE 0
    BY <1>2 DEF LoadEnded
  <2>2. loads # <<>>
    BY <2>1
  <2>3. CallsEnding'
    BY <1>2, <2>2 DEF LoadEnded, CallsEnding
  <2>4. OneSlot' /\ Running'
    BY <1>2, <2>1 DEF LoadEnded, Fails, Answers, Goes, GivesBack, slots, OneSlot, Occupies, Running
  <2> QED BY <2>3, <2>4
<1>3. CASE LoadTimeout(c)
  <2>1. OneSlot' /\ Running'
    BY <1>3 DEF LoadTimeout, Fails, Answers, Goes, GivesBack, OneSlot, Occupies, Running
  <2>2. CallsEnding'
    BY <1>3 DEF LoadTimeout, Fails, Answers, Goes, OneSlot, CallsEnding
  <2> QED BY <2>1, <2>2
<1>4. CASE SubmitCall(c)
  <2>1. OneSlot' /\ Running'
    BY <1>4 DEF SubmitCall, Fails, Answers, Goes, GivesBack, slots, OneSlot, Occupies, Running
  <2>2. CallsEnding'
    BY <1>4 DEF SubmitCall, Fails, Answers, Goes, OneSlot, CallsEnding
  <2> QED BY <2>1, <2>2
<1>5. CASE EnlistCall(c)
  <2>1. OneSlot' /\ Running'
    BY <1>5 DEF EnlistCall, Goes, slots, OneSlot, Occupies, Running
  <2>2. CallsEnding'
    BY <1>5 DEF EnlistCall, Goes, OneSlot, CallsEnding
  <2> QED BY <2>1, <2>2
<1>6. CASE CallEnded(c)
  <2>1. OneSlot' /\ Running'
    BY <1>6 DEF CallEnded, Fails, Answers, Goes, GivesBack, slots, backend, OneSlot, Occupies, Running
  <2>2. CallsEnding'
    BY <1>6 DEF CallEnded, Fails, Answers, Goes, backend, OneSlot, CallsEnding
  <2> QED BY <2>1, <2>2
<1>7. CASE CallTimeout(c)
  <2>1. OneSlot' /\ Running'
    BY <1>7 DEF CallTimeout, Goes, slots, OneSlot, Occupies, Running
  <2>2. CallsEnding'
    BY <1>7 DEF CallTimeout, Goes, OneSlot, CallsEnding
  <2> QED BY <2>1, <2>2
<1>8. CASE DeliverResult(c)
  <2>1. OneSlot' /\ Running'
    BY <1>8 DEF DeliverResult, Answers, Goes, GivesBack, backend, OneSlot, Occupies, Running
  <2>2. CallsEnding'
    BY <1>8 DEF DeliverResult, Answers, Goes, backend, OneSlot, CallsEnding
  <2> QED BY <2>1, <2>2
<1> QED BY <1>1, <1>2, <1>3, <1>4, <1>5, <1>6, <1>7, <1>8

LEMMA SlotsByWorker == ASSUME SlotInv, WorkEnds PROVE SlotInv'
<1> USE DEF SlotInv
<1>1. /\ line # <<>> /\ line' = Tail(line) /\ loads # <<>>
      /\ UNCHANGED <<call, slots, shut, loadFuture, latest, poisoned, closing, closer>>
  BY DEF WorkEnds, CallsEnding
<1>2. CASE Head(line)[1] = "call"
  <2>1. PICK r \in {"ok", "error"} : job' = [job EXCEPT ![Head(line)[2]] = r]
    BY <1>2 DEF WorkEnds
  <2>2. UNCHANGED <<loads, loaded>>
    BY <1>2 DEF WorkEnds
  <2>3. job' \in [Callers -> {"none", "queued", "ok", "error"}]
        /\ \A c \in Callers : job'[c] = "queued" => job[c] = "queued"
    BY <2>1 DEF OneSlot
  <2>4. OneSlot' /\ Running'
    BY <1>1, <2>3 DEF OneSlot, Occupies, Running, slots
  <2>5. CallsEnding'
    BY <1>1, <2>2 DEF CallsEnding
  <2> QED BY <2>4, <2>5
<1>3. CASE Head(line)[1] # "call"
  <2>1. UNCHANGED job
    BY <1>3 DEF WorkEnds
  <2>2. PICK r \in {IF Refused THEN "dropped" ELSE "ok", "failed"} :
                 /\ loads' = [loads EXCEPT ![Head(line)[2]] = r]
                 /\ loaded' = (loaded \/ r = "ok")
    BY <1>3 DEF WorkEnds
  <2>3. loads' \in Seq({"queued", "ok", "dropped", "failed"}) /\ loads' # <<>>
    <3> DEFINE S == {"queued", "ok", "dropped", "failed"}
    <3>1. loads \in Seq(S) /\ r \in S
      BY <2>2 DEF CallsEnding
    <3>2. CASE Head(line)[2] \in 1..Len(loads)
      <4>1. loads' \in Seq(S) /\ Len(loads') = Len(loads)
        BY <2>2, <3>1, <3>2, ExceptSeq
      <4>2. Len(loads) # 0
        BY <1>1, <3>1, EmptySeq
      <4> QED BY <4>1, <4>2, EmptySeq
    <3>3. CASE Head(line)[2] \notin 1..Len(loads)
      <4>1. DOMAIN loads = 1..Len(loads)
        BY <3>1, LenProperties
      <4>2. loads' = loads
        <5>1. loads = [k \in DOMAIN loads |-> loads[k]]
          BY <3>1, <4>1, SeqDef
        <5> QED BY <2>2, <3>3, <4>1, <5>1
      <4> QED BY <1>1, <3>1, <4>2
    <3> QED BY <3>2, <3>3
  <2>4. OneSlot' /\ Running'
    BY <1>1, <2>1 DEF OneSlot, Occupies, Running, slots
  <2>5. CallsEnding'
    BY <1>1, <2>2, <2>3 DEF CallsEnding
  <2> QED BY <2>4, <2>5
<1> QED BY <1>2, <1>3

LEMMA SlotsByCloser ==
  ASSUME SlotInv, CloseModel \/ CloseWaited \/ CloseJoined \/ UNCHANGED mvars
  PROVE  SlotInv'
<1> USE DEF SlotInv
<1>1. UNCHANGED <<call, job, slots, line, loads, loadFuture, loaded, latest, poisoned>>
  BY DEF CloseModel, CloseWaited, CloseJoined, mvars, slots, backend
<1>2. OneSlot' /\ Running'
  BY <1>1 DEF OneSlot, Occupies, Running, slots
<1>3. CASE CloseModel
  BY <1>1, <1>2, <1>3 DEF CloseModel, CallsEnding, backend
<1>4. CASE CloseWaited
  <2>1. UNCHANGED <<closing, loads>> /\ closer.pc = "waits"
        /\ closer'.pc \in {"incomplete", "joins"} /\ shut' = (shut \/ loads # <<>>)
    BY <1>4 DEF CloseWaited
  <2> QED BY <1>1, <1>2, <2>1 DEF CallsEnding
<1>5. CASE CloseJoined
  BY <1>1, <1>2, <1>5 DEF CloseJoined, CallsEnding, backend
<1>6. CASE UNCHANGED mvars
  BY <1>1, <1>2, <1>6 DEF mvars, CallsEnding
<1> QED BY <1>3, <1>4, <1>5, <1>6

\* With one slot - what the program is built with - a call that still runs keeps it,
\* also after its caller gave up, it comes back once, and a backend that is closed runs
\* nothing and will run nothing: for any callers and any number of loads. With more than
\* one slot this does not hold (see the README): the backend tells of one call only.
THEOREM OneSlotCovers ==
  ASSUME ModelSlots = 1
  PROVE  MInit /\ [][MNext]_mvars => []SlotsCover
<1>1. MInit => SlotInv
  <2> SUFFICES ASSUME MInit PROVE SlotInv
    OBVIOUS
  <2> USE DEF MInit
  <2>1. OneSlot /\ Running
    BY ModelSlots = 1 DEF OneSlot, Occupies, Running
  <2>2. loads \in Seq({"queued", "ok", "dropped", "failed"})
    BY EmptySeq
  <2>3. CallsEnding
    BY <2>2 DEF CallsEnding
  <2> QED BY <2>1, <2>3 DEF SlotInv
<1>2. SlotInv /\ [MNext]_mvars => SlotInv'
  BY SlotsByCaller, SlotsByCall, SlotsByWorker, SlotsByCloser DEF MNext
<1>3. SlotInv => SlotsCover
  <2> SUFFICES ASSUME SlotInv PROVE SlotsCover
    OBVIOUS
  <2> USE DEF SlotInv
  <2> DEFINE running == {c \in Callers : job[c] = "queued"}
  <2>1. \A c \in running : Occupies(c)
    BY DEF Running, OneSlot, Occupies
  <2>2. Cardinality(running) <= inFlight
    <3>1. CASE running = {}
      <4>1. Cardinality(running) = 0
        BY <3>1, FS_EmptySet
      <4> QED BY <4>1 DEF OneSlot
    <3>2. CASE running # {}
      <4>1. PICK c \in running : TRUE
        BY <3>2
      <4>2. running = {c}
        BY <2>1, <4>1 DEF OneSlot
      <4>3. inFlight = 1
        BY <2>1, <4>1 DEF OneSlot
      <4>4. Cardinality({c}) = 1
        BY FS_Singleton
      <4> QED BY <4>2, <4>3, <4>4
    <3> QED BY <3>1, <3>2
  <2>3. freeSlots + inFlight = ModelSlots
    BY ModelSlots = 1 DEF OneSlot
  <2>4. closer.pc = "closed" => /\ line = <<>>
                                /\ \A c \in Callers : call[c] = "submit" => shut
    BY DEF CallsEnding
  <2> QED BY <2>2, <2>3, <2>4 DEF SlotsCover
<1> QED BY <1>1, <1>2, <1>3, PTL
-------------------------------------------------------------------------------
(* Admission: the reference of the scene. *)

Stories == [empties : 0..3, gone : BOOLEAN, understood : Int, seen : Int]
PoolLeases ==
    [ident : Idents \cup {"none"}, change : Int, det : Int,
     status : {"unavailable", "confirmed_empty", "detected"}, leave : 0..2, left : BOOLEAN,
     retry : Nat, by : {0, 1, 2}, story : Stories]
\* A reference that is true to the observations it stands on. What makes it last is the
\* last part: where it has an object is where the object was when it was understood.
Faithful(r) ==
    /\ r \in PoolLeases
    /\ r.left => r.story.gone
    /\ r.leave <= r.story.empties
    /\ r.story.seen # Nowhere => /\ r.story.understood # Nowhere
                                 /\ ~Apart(r.story.seen, r.story.understood)
    /\ r.det # Nowhere => r.story.understood = r.det
\* All the references that may be in force now or come back.
SceneInv ==
    /\ Faithful(scene)
    /\ scan \in [w : {0, 1, 2}, ident : Idents \cup {"none"}, ref : PoolLeases,
                 before : PoolLeases, seen : Nat, admitted : BOOLEAN]
    /\ Faithful(scan.ref) /\ Faithful(scan.before)
    /\ scan # NoScan => scan.w \in Slots /\ scan.ident \in Idents
    /\ admittedWin \in [Slots -> [on : BOOLEAN, enqueued : BOOLEAN, retry : Nat,
                                  prev : PoolLeases]]
    /\ \A w \in Slots : Faithful(admittedWin[w].prev)

LEMMA NowhereIsAPlace == Nowhere \in Int
  BY DEF Nowhere

LEMMA NoSceneFaithful == Faithful(NoScene)
  BY DEF Faithful, NoScene, NoStory, PoolLeases, Stories, Nowhere

\* Where nothing but the count of retries and the window changes, a reference stays true.
LEMMA StillFaithful ==
  ASSUME NEW r, Faithful(r), NEW n \in Nat, NEW b \in {0, 1, 2}
  PROVE  /\ Faithful([r EXCEPT !.retry = n]) /\ Faithful([r EXCEPT !.by = b])
         /\ Faithful([r EXCEPT !.retry = n, !.by = b])
  BY DEF Faithful, PoolLeases

\* decide: the reference it returns is true to what was observed, if the one it was
\* given was.
LEMMA DecidedFaithful ==
  ASSUME NEW r, Faithful(r), NEW id \in Idents, NEW s \in Shots, NEW w \in Slots
  PROVE  Faithful(Decided(r, id, s, w))
<1>1. /\ s.det \in {"unavailable", "confirmed_empty", "detected"}
      /\ s.at \in Int /\ s.change \in Int
      /\ s.det # "detected" => s.at = Nowhere
  <2>1. CASE s \in [det : {"unavailable", "confirmed_empty"}, at : {Nowhere},
                    change : Boxes \cup {Nowhere}]
    <3>1. s.at = Nowhere /\ s.change \in Boxes \cup {Nowhere}
          /\ s.det \in {"unavailable", "confirmed_empty"}
      BY <2>1
    <3>2. s.change \in Int /\ s.at \in Int
      BY <3>1, NowhereIsAPlace, AdmissionAssumption
    <3> QED BY <3>1, <3>2
  <2>2. CASE s \in [det : {"detected"}, at : Spots, change : Boxes \cup {Nowhere}]
    <3>1. s.at \in Spots /\ s.change \in Boxes \cup {Nowhere} /\ s.det = "detected"
      BY <2>2
    <3>2. s.change \in Int /\ s.at \in Int
      BY <3>1, NowhereIsAPlace, AdmissionAssumption
    <3> QED BY <3>1, <3>2
  <2> QED BY <2>1, <2>2 DEF Shots
<1>2. r \in PoolLeases /\ r.story \in Stories /\ w \in {0, 1, 2}
  BY DEF Faithful, PoolLeases, Slots
<1>3. NoStory \in Stories
  BY DEF NoStory, Stories, Nowhere
<1> DEFINE admits == Admits(r, id, s)
           told == Told(r.story, s, Unusable(r, id), admits)
           old == IF Unusable(r, id) THEN NoStory ELSE r.story
           run == IF s.det = "confirmed_empty"
                  THEN IF old.empties < 3 THEN old.empties + 1 ELSE old.empties
                  ELSE 0
<1>4. old \in Stories /\ old.empties \in 0..3 /\ run \in 0..3
  BY <1>2, <1>3 DEF Stories
<1>5. /\ told.empties = run
      /\ told.gone = (s.det # "detected" /\ (old.gone \/ run = 3))
      /\ told.understood = IF admits /\ s.det # "unavailable" THEN s.at ELSE old.understood
      /\ told.seen = IF s.det = "detected" THEN s.at ELSE Nowhere
      /\ told = [empties |-> told.empties, gone |-> told.gone,
                 understood |-> told.understood, seen |-> told.seen]
  BY DEF Told, LEAVE_CONFIRM_COUNT
<1>6. admits \in BOOLEAN
  BY DEF Admits, NothingSeen, DetMoved, ChangeMoved, Appeared, Drifted, Leaves
<1> HIDE DEF admits, old, run, told
<1>7. told \in Stories
  <2>1. old.understood \in Int /\ old.gone \in BOOLEAN
    BY <1>4 DEF Stories
  <2>2. told.empties \in 0..3 /\ told.gone \in BOOLEAN
    BY <1>4, <1>5, <2>1
  <2>3. told.understood \in Int /\ told.seen \in Int
    BY <1>1, <1>5, <2>1 DEF Nowhere
  <2> QED BY <1>5, <2>2, <2>3 DEF Stories
<1>8. ~Apart(s.at, s.at)
  BY <1>1 DEF Apart
<1>9. CASE Unusable(r, id) /\ NothingSeen(s)
  BY <1>9 DEF Decided
<1>10. CASE Unusable(r, id) /\ ~NothingSeen(s)
  <2> DEFINE q == [ident |-> id, change |-> s.change, det |-> s.at, status |-> s.det,
                   leave |-> 0, left |-> FALSE, retry |-> r.retry, by |-> w, story |-> told]
  <2>1. Decided(r, id, s, w) = q
    BY <1>10 DEF Decided, admits, told
  <2>2. admits
    BY <1>10 DEF Admits, admits
  <2>3. q \in PoolLeases
    BY <1>1, <1>2, <1>7 DEF PoolLeases
  <2>4. told.empties \in 0..3
    BY <1>7 DEF Stories
  <2>5. told.seen # Nowhere => told.understood = s.at /\ told.seen = s.at
    BY <1>5, <2>2
  <2>6. s.at # Nowhere => told.understood = s.at
    BY <1>1, <1>5, <2>2
  <2> QED BY <1>8, <2>1, <2>3, <2>4, <2>5, <2>6 DEF Faithful
<1>11. CASE ~Unusable(r, id)
  <2> DEFINE left == (r.left /\ s.det # "detected") \/ Leaves(r, s)
             q == [ident |-> id,
             change |-> IF admits \/ (r.change # Nowhere /\ s.change = Nowhere) THEN s.change
                        ELSE r.change,
             det |-> IF s.det = "confirmed_empty" /\ (admits \/ left) THEN Nowhere
                     ELSE IF s.det = "detected" /\ admits THEN s.at ELSE r.det,
             status |-> IF s.det = "unavailable"
                           \/ (s.det = "confirmed_empty" /\ r.det # Nowhere /\ ~Leaves(r, s))
                        THEN r.status ELSE s.det,
             leave |-> IF Leaves(r, s) THEN 0 ELSE Empties(r, s),
             left |-> left, retry |-> r.retry, by |-> w, story |-> told]
  <2>1. Decided(r, id, s, w) = q
    BY <1>11 DEF Decided, admits, told
  <2>2. old = r.story
    BY <1>11 DEF old
  <2>3. r.leave \in 0..2 /\ r.left \in BOOLEAN /\ r.det \in Int /\ r.change \in Int /\ r.retry \in Nat
    BY <1>2 DEF PoolLeases
  <2>4. r.leave <= old.empties /\ (r.left => old.gone) /\ (r.det # Nowhere => old.understood = r.det)
    BY <2>2 DEF Faithful
  <2>5. /\ Empties(r, s) \in 0..3 /\ (Leaves(r, s) <=> s.det = "confirmed_empty" /\ ~r.left
                                                         /\ Empties(r, s) = 3)
        /\ Leaves(r, s) \in BOOLEAN
    BY <2>3 DEF Empties, Leaves, LEAVE_CONFIRM_COUNT
  <2>6. left => told.gone
    <3>1. Leaves(r, s) => run = 3
      BY <1>1, <1>4, <2>3, <2>4, <2>5 DEF Empties, run
    <3>2. Leaves(r, s) => s.det # "detected"
      BY <2>5
    <3> QED BY <1>5, <2>4, <3>1, <3>2
  <2>7. q.leave \in 0..2 /\ q.leave <= told.empties
    <3>1. Empties(r, s) # 3 => Empties(r, s) <= run
      BY <1>1, <1>4, <2>3, <2>4 DEF Empties, run
    <3>2. Empties(r, s) = 3 => Leaves(r, s) \/ r.left
      BY <2>3, <2>5 DEF Empties
    <3>3. r.left => Empties(r, s) <= 2
      BY <2>3 DEF Empties
    <3> QED BY <1>4, <1>5, <2>5, <3>1, <3>2, <3>3
  <2>8. q \in PoolLeases
    <3>1. left \in BOOLEAN
      BY <2>3, <2>5
    <3> HIDE DEF left
    <3> QED BY <1>1, <1>2, <1>7, <2>3, <2>7, <3>1 DEF PoolLeases, Nowhere
  <2>9. told.seen # Nowhere => told.understood # Nowhere /\ ~Apart(told.seen, told.understood)
    <3> SUFFICES ASSUME told.seen # Nowhere
                 PROVE  told.understood # Nowhere /\ ~Apart(told.seen, told.understood)
      OBVIOUS
    <3>1. s.det = "detected" /\ told.seen = s.at /\ s.at # Nowhere
      BY <1>5
    <3>2. CASE admits
      BY <1>5, <1>8, <3>1, <3>2
    <3>3. CASE ~admits
      <4>1. ~Appeared(r, s) /\ ~Drifted(r, s) /\ ~r.left
        BY <1>11, <3>1, <3>3 DEF admits, Admits, DetMoved
      <4>2. r.det # Nowhere /\ ~Apart(r.det, s.at)
        BY <3>1, <4>1 DEF Appeared, Drifted
      <4>3. told.understood = r.det
        BY <1>5, <2>4, <3>3, <4>2
      <4> QED BY <1>1, <2>3, <3>1, <4>2, <4>3 DEF Apart
    <3> QED BY <3>2, <3>3
  <2>10. q.det # Nowhere => told.understood = q.det
    <3>1. CASE admits
      BY <1>1, <1>5, <2>4, <3>1
    <3>2. CASE ~admits
      BY <1>1, <1>5, <2>4, <3>2
    <3> QED BY <3>1, <3>2
  <2>11. q.left = left /\ q.story = told
    OBVIOUS
  <2> HIDE DEF q, left
  <2> QED BY <2>1, <2>6, <2>7, <2>8, <2>9, <2>10, <2>11 DEF Faithful
<1> QED BY <1>9, <1>10, <1>11

LEMMA SceneBegins == AInit => SceneInv
<1> SUFFICES ASSUME AInit PROVE SceneInv
  OBVIOUS
<1>1. NoScene \in PoolLeases
  BY NoSceneFaithful DEF Faithful
<1>2. NoScan.ref = NoScene /\ NoScan.before = NoScene
  BY DEF NoScan
<1> QED BY <1>1, <1>2, NoSceneFaithful DEF AInit, SceneInv, NoScan, NotAdmitted

LEMMA SceneSteps == SceneInv /\ [ANext]_avars => SceneInv'
<1> SUFFICES ASSUME SceneInv, [ANext]_avars PROVE SceneInv'
  OBVIOUS
<1> USE DEF SceneInv
<1>1. ASSUME NEW w \in Slots, NEW id \in Idents, ScanWindow(w, id) PROVE SceneInv'
  <2>1. scan' = [w |-> w, ident |-> id, ref |-> scene, before |-> scene, seen |-> 0,
                 admitted |-> FALSE]
    BY <1>1 DEF ScanWindow, NoScan
  <2>2. scene \in PoolLeases /\ w \in {0, 1, 2}
    BY DEF Faithful, Slots
  <2> QED BY <1>1, <2>1, <2>2 DEF ScanWindow
<1>2. ASSUME NEW s \in Shots, ScanShot(s) PROVE SceneInv'
  <2> DEFINE ref == Decided(scan.ref, scan.ident, s, scan.w)
             adm == scan.admitted \/ Admits(scan.ref, scan.ident, s)
  <2>1. scan' = [scan EXCEPT !.ref = ref, !.seen = scan.seen + 1, !.admitted = adm]
    BY <1>2 DEF ScanShot
  <2>2. scan # NoScan /\ scan.w \in Slots /\ scan.ident \in Idents
    BY <1>2 DEF ScanShot
  <2>3. Faithful(ref) /\ ref \in PoolLeases
    BY <2>2, DecidedFaithful DEF Faithful
  <2>4. adm \in BOOLEAN
    BY DEF Admits, NothingSeen, DetMoved, ChangeMoved, Appeared, Drifted, Leaves
  <2> HIDE DEF ref, adm
  <2>5. /\ scan' \in [w : {0, 1, 2}, ident : Idents \cup {"none"}, ref : PoolLeases,
                      before : PoolLeases, seen : Nat, admitted : BOOLEAN]
        /\ scan'.ref = ref /\ scan'.before = scan.before
        /\ scan'.w = scan.w /\ scan'.ident = scan.ident
    <3> DEFINE Ids == Idents \cup {"none"}
    <3>1. scan \in [w : {0, 1, 2}, ident : Ids, ref : PoolLeases, before : PoolLeases,
                    seen : Nat, admitted : BOOLEAN]
      OBVIOUS
    <3> HIDE DEF Ids
    <3>2. scan' \in [w : {0, 1, 2}, ident : Ids, ref : PoolLeases, before : PoolLeases,
                     seen : Nat, admitted : BOOLEAN]
      <4>1. scan.seen + 1 \in Nat
        BY <3>1
      <4> QED BY <2>1, <2>3, <2>4, <3>1, <4>1, Zenon
    <3>3. /\ scan'.ref = ref /\ scan'.before = scan.before
          /\ scan'.w = scan.w /\ scan'.ident = scan.ident
      BY <2>1, <3>1
    <3> QED BY <3>2, <3>3 DEF Ids
  <2>6. scene' = scene /\ admittedWin' = admittedWin
    BY <1>2 DEF ScanShot
  <2> QED BY <2>2, <2>3, <2>5, <2>6
<1>3. ASSUME AdmitWindow PROVE SceneInv'
  <2> DEFINE others == IF scan.ref = scene THEN admittedWin
                   ELSE [v \in Slots |-> [admittedWin[v] EXCEPT !.prev = NoScene]]
             Wins == [on : BOOLEAN, enqueued : BOOLEAN, retry : Nat, prev : PoolLeases]
  <2>1. others \in [Slots -> Wins] /\ \A v \in Slots : Faithful(others[v].prev)
    BY NoSceneFaithful DEF Faithful
  <2>2. /\ scene' = IF scan.admitted \/ scan.ref.by # scan.w THEN scan.ref
                    ELSE [scan.ref EXCEPT !.by = 0]
        /\ admittedWin' =
              IF scan.admitted
              THEN [others EXCEPT ![scan.w] = [on |-> TRUE, enqueued |-> FALSE,
                                               retry |-> scan.before.retry,
                                               prev |-> scan.before]]
              ELSE others
        /\ scan' = NoScan
    BY <1>3 DEF AdmitWindow
  <2> HIDE DEF others
  <2>3. Faithful(scene')
    <3>1. Faithful([scan.ref EXCEPT !.by = 0])
      BY StillFaithful
    <3> QED BY <2>2, <3>1
  <2>4. /\ admittedWin' \in [Slots -> Wins]
        /\ \A v \in Slots : Faithful(admittedWin'[v].prev)
    <3>1. scan.before.retry \in Nat /\ scan.before \in PoolLeases
      BY DEF Faithful, PoolLeases
    <3>2. CASE scan.admitted
      <4> DEFINE new == [on |-> TRUE, enqueued |-> FALSE, retry |-> scan.before.retry,
                         prev |-> scan.before]
      <4>1. new \in Wins /\ new.prev = scan.before
        BY <3>1
      <4>2. admittedWin' = [others EXCEPT ![scan.w] = new]
        BY <2>2, <3>2
      <4> HIDE DEF new, Wins
      <4> QED BY <2>1, <4>1, <4>2
    <3>3. CASE ~scan.admitted
      BY <2>1, <2>2, <3>3
    <3> QED BY <3>2, <3>3
  <2>5. NoScan \in [w : {0, 1, 2}, ident : Idents \cup {"none"}, ref : PoolLeases,
                    before : PoolLeases, seen : Nat, admitted : BOOLEAN]
        /\ Faithful(NoScan.ref) /\ Faithful(NoScan.before)
    BY NoSceneFaithful DEF NoScan, Faithful
  <2> QED BY <2>2, <2>3, <2>4, <2>5
<1>4. ASSUME NEW w \in Slots, EnqueueTask(w) PROVE SceneInv'
  <2>1. scan' = scan /\ admittedWin' = [admittedWin EXCEPT ![w].enqueued = TRUE]
    BY <1>4 DEF EnqueueTask
  <2>2. Faithful(scene')
    BY <1>4, StillFaithful DEF EnqueueTask
  <2> QED BY <2>1, <2>2
<1>5. ASSUME NEW w \in Slots, SealCut(w) PROVE SceneInv'
  BY <1>5 DEF SealCut
<1>6. ASSUME NEW w \in Slots, EndWindow(w) PROVE SceneInv'
  <2>1. scan' = scan /\ admittedWin' = [admittedWin EXCEPT ![w] = NotAdmitted]
    BY <1>6 DEF EndWindow
  <2>2. Faithful(scene')
    <3>1. admittedWin[w].retry + 1 \in Nat /\ Faithful(admittedWin[w].prev)
      BY <1>6
    <3>2. Faithful([admittedWin[w].prev EXCEPT !.retry = admittedWin[w].retry + 1, !.by = 0])
      BY <3>1, StillFaithful
    <3>3. Faithful([scene EXCEPT !.by = 0])
      BY StillFaithful
    <3> QED BY <1>6, <3>2, <3>3 DEF EndWindow
  <2>3. NotAdmitted \in [on : BOOLEAN, enqueued : BOOLEAN, retry : Nat, prev : PoolLeases]
        /\ NotAdmitted.prev = NoScene
    BY NoSceneFaithful DEF NotAdmitted, Faithful
  <2> QED BY <2>1, <2>2, <2>3, NoSceneFaithful
<1>7. ASSUME UNCHANGED avars PROVE SceneInv'
  BY <1>7 DEF avars
<1> QED BY <1>1, <1>2, <1>3, <1>4, <1>5, <1>6, <1>7 DEF ANext

\* The reference of a scene is true to the observations it stands on, also when windows
\* under way took it and gave it back in any order: for any places, any identities and
\* any number of materials.
THEOREM SceneStaysHonest == AInit /\ [][ANext]_avars => []SceneHonest
<1>1. AInit => SceneInv
  BY SceneBegins
<1>2. SceneInv /\ [ANext]_avars => SceneInv'
  BY SceneSteps
<1>3. SceneInv => SceneHonest
  BY DEF SceneInv, SceneHonest, Faithful
<1> QED BY <1>1, <1>2, <1>3, PTL
-------------------------------------------------------------------------------
(* WindowFusion: the versions of what is learnt of a window. *)

Learnt == [b : Parts, good : BOOLEAN]
Versions == [id : SUBSET Learnt, items : SUBSET Learnt, parent : Nat, seen : Nat]
StateRecords == [mats : SUBSET Learnt, vers : Seq(Versions)]
\* A state of the window, by itself: its versions hold what gives them their identity, what
\* the versions held that they have seen, and nothing that the state does not hold.
StateOK(st) ==
    /\ st \in StateRecords
    /\ \A i \in 1..Len(st.vers) :
        /\ st.vers[i].items \subseteq st.mats /\ st.vers[i].id \subseteq st.vers[i].items
        /\ st.vers[i].parent \in st.vers[i].seen..(i - 1)
        /\ \A u \in 1..st.vers[i].seen : st.vers[u].items \subseteq st.vers[i].items
Became(m, p) == p[m.b] = IF m.good THEN "ok" ELSE "gap"
CameTo(b, p) == [b |-> b, good |-> p[b] = "ok"]

Working == {"add", "rows", "identify", "results", "gaps", "parent", "append", "write"}
FusionPcs == {"idle", "find", "make", "open", "enter", "settle", "cleanup", "forget"} \cup Working
BranchNames == Parts \cup {"none"}
FusionWorkers == [pc : FusionPcs, b : BranchNames, stage : Nat, state : Nat, id : SUBSET Learnt,
                  items : SUBSET Learnt, seen : Nat, parent : Nat, ver : Nat]
\* What a thread has taken of the state st of the window is still there, and what it puts
\* together holds what it brought and all it has seen; p tells the ends of the branches.
Holds(w, p, st) ==
    /\ w.pc # "add" => CameTo(w.b, p) \in st.mats
    /\ w.pc \in {"identify", "results", "gaps", "parent", "append"} => w.id \subseteq st.mats
    /\ w.pc = "identify" /\ p[w.b] = "ok" => CameTo(w.b, p) \in w.id
    /\ w.pc \in {"results", "gaps", "parent", "append"} =>
          CameTo(w.b, p) \in w.id /\ w.seen \in 0..Len(st.vers)
    /\ w.pc \in {"gaps", "parent", "append"} => w.items \subseteq st.mats
    /\ w.pc = "gaps" =>
          \A m \in Learnt : m.good /\ (m \in w.id \/ \E u \in 1..w.seen : m \in st.vers[u].items)
                            => m \in w.items
    /\ w.pc \in {"parent", "append"} => /\ w.id \subseteq w.items
                                        /\ \A u \in 1..w.seen : st.vers[u].items \subseteq w.items
    /\ w.pc = "append" => w.parent \in w.seen..Len(st.vers)
    /\ w.pc = "write" => w.ver \in 1..Len(st.vers) /\ CameTo(w.b, p) \in st.vers[w.ver].items
\* What a thread brings has ended; it stands at one of n stages and in one of the states.
Fits(w, p, n, sts) ==
    /\ w.pc \in {"find", "make", "open", "enter"} \cup Working => w.b \in Parts /\ p[w.b] # "pending"
    /\ w.pc \in {"open", "enter", "forget"} => w.stage \in 1..n
    /\ w.pc \in Working => w.state \in 1..Len(sts) /\ Holds(w, p, sts[w.state])
LogLines == [b : Parts, state : Nat, ver : Nat]
\* An entry of the history names a version, which holds what the branch of the entry became.
LineOK(l, p, sts) ==
    /\ p[l.b] # "pending" /\ l.state \in 1..Len(sts) /\ l.ver \in 1..Len(sts[l.state].vers)
    /\ CameTo(l.b, p) \in sts[l.state].vers[l.ver].items
FusionInv ==
    /\ part \in [Parts -> {"pending", "ok", "gap"}]
    /\ stages \in Seq(Nat) /\ current \in 0..Len(stages)
    /\ states \in Seq(StateRecords)
    /\ \A s \in 1..Len(stages) : stages[s] \in 0..Len(states)
    /\ \A s \in 1..Len(states) : StateOK(states[s]) /\ \A m \in states[s].mats : Became(m, part)
    /\ worker \in [FusionThreads -> FusionWorkers]
    /\ \A t \in FusionThreads : Fits(worker[t], part, Len(stages), states)
    /\ log \subseteq LogLines /\ \A l \in log : LineOK(l, part, states)

\* One state of a window holds all that another held.
Grown(old, new) ==
    /\ old.mats \subseteq new.mats /\ Len(old.vers) <= Len(new.vers)
    /\ \A i \in 1..Len(old.vers) : new.vers[i] = old.vers[i]
\* The ends of branches stay, the states of windows grow.
Later(p, q, a, c) ==
    /\ p \in [Parts -> {"pending", "ok", "gap"}] /\ q \in [Parts -> {"pending", "ok", "gap"}]
    /\ \A b \in Parts : p[b] # "pending" => q[b] = p[b]
    /\ a \in Seq(StateRecords) /\ c \in Seq(StateRecords) /\ Len(a) <= Len(c)
    /\ \A s \in 1..Len(a) : Grown(a[s], c[s])

\* What was taken of the states or written of them is still there when they have grown.
LEMMA FitsStays ==
  ASSUME NEW p, NEW q, NEW a, NEW c, Later(p, q, a, c), NEW n \in Nat, NEW k \in Nat, n <= k
  PROVE  /\ \A w \in FusionWorkers : Fits(w, p, n, a) => Fits(w, q, k, c)
         /\ \A l \in LogLines : LineOK(l, p, a) => LineOK(l, q, c)
<1>1. \A b \in Parts : p[b] # "pending" => q[b] = p[b] /\ CameTo(b, q) = CameTo(b, p)
  BY DEF Later, CameTo
<1>2. ASSUME NEW s \in 1..Len(a)
      PROVE  /\ s \in 1..Len(c) /\ Grown(a[s], c[s])
             /\ Len(a[s].vers) \in Nat /\ Len(c[s].vers) \in Nat
  <2>1. Len(a) \in Nat /\ Len(c) \in Nat /\ Len(a) <= Len(c) /\ Grown(a[s], c[s])
    BY LenProperties DEF Later
  <2>2. s \in 1..Len(c)
    BY <2>1
  <2>3. a[s] \in StateRecords /\ c[s] \in StateRecords
    BY <2>2, ElementOfSeq DEF Later
  <2> QED BY <2>1, <2>2, <2>3, LenProperties DEF StateRecords
<1>3. ASSUME NEW w \in FusionWorkers, Fits(w, p, n, a) PROVE Fits(w, q, k, c)
  <2>1. CASE w.pc \in Working
    <3>1. /\ w.state \in 1..Len(a) /\ w.b \in Parts /\ p[w.b] # "pending"
          /\ Holds(w, p, a[w.state])
      BY <1>3, <2>1 DEF Fits
    <3> DEFINE old == a[w.state]
               new == c[w.state]
    <3>2. /\ w.state \in 1..Len(c) /\ Grown(old, new) /\ Len(old.vers) \in Nat
          /\ Len(new.vers) \in Nat
      BY <1>2, <3>1
    <3>3. q[w.b] = p[w.b] /\ CameTo(w.b, q) = CameTo(w.b, p) /\ Holds(w, p, old)
      BY <1>1, <3>1
    <3>4. w.seen \in Nat /\ w.parent \in Nat /\ w.ver \in Nat
      BY DEF FusionWorkers
    <3> HIDE DEF old, new
    <3>5. w.seen \in 0..Len(old.vers) => \A u \in 1..w.seen : new.vers[u] = old.vers[u]
      BY <3>2, <3>4 DEF Grown
    <3>6. w.pc = "write" => w.ver \in 1..Len(new.vers) /\ new.vers[w.ver] = old.vers[w.ver]
      BY <3>2, <3>3, <3>4 DEF Holds, Grown
    <3>7. w.seen \in 0..Len(old.vers) => w.seen \in 0..Len(new.vers)
      BY <3>2, <3>4 DEF Grown
    <3>8. w.pc = "append" => w.parent \in w.seen..Len(new.vers)
      BY <3>2, <3>3, <3>4 DEF Holds, Grown
    <3>9. old.mats \subseteq new.mats
      BY <3>2 DEF Grown
    <3>10. Holds(w, q, new)
      BY <3>3, <3>5, <3>6, <3>7, <3>8, <3>9 DEF Holds
    <3> QED BY <2>1, <3>1, <3>2, <3>3, <3>10 DEF Fits, new, Working
  <2>2. CASE w.pc \notin Working
    BY <1>1, <1>3, <2>2 DEF Fits
  <2> QED BY <2>1, <2>2
<1>4. ASSUME NEW l \in LogLines, LineOK(l, p, a) PROVE LineOK(l, q, c)
  <2>1. l.b \in Parts /\ l.state \in 1..Len(a) /\ l.ver \in 1..Len(a[l.state].vers)
    BY <1>4 DEF LineOK, LogLines
  <2> QED BY <1>1, <1>2, <1>4, <2>1 DEF LineOK, Grown
<1> QED BY <1>3, <1>4

LEMMA SameIsLater ==
  ASSUME NEW p \in [Parts -> {"pending", "ok", "gap"}], NEW a \in Seq(StateRecords)
  PROVE  Later(p, p, a, a)
<1>1. Len(a) \in Nat
  BY LenProperties
<1>2. ASSUME NEW s \in 1..Len(a) PROVE Grown(a[s], a[s])
  <2>1. a[s] \in StateRecords
    BY <1>2, ElementOfSeq
  <2>2. Len(a[s].vers) \in Nat
    BY <2>1, LenProperties DEF StateRecords
  <2> QED BY <2>2 DEF Grown
<1> QED BY <1>1, <1>2 DEF Later

\* A step of one thread, which leaves it at w and may add one entry to the history.
StepTo(t, w) ==
    /\ Later(part, part', states, states')
    /\ \A s \in 1..Len(states') : StateOK(states'[s]) /\ \A m \in states'[s].mats : Became(m, part')
    /\ stages' \in Seq(Nat) /\ Len(stages) <= Len(stages') /\ current' \in 0..Len(stages')
    /\ \A s \in 1..Len(stages') : stages'[s] \in 0..Len(states')
    /\ worker' = [worker EXCEPT ![t] = w]
    /\ log' \subseteq LogLines /\ \A l \in log' \ log : LineOK(l, part', states')
LEMMA FusionStepKeeps ==
  ASSUME FusionInv, NEW t \in FusionThreads, NEW w \in FusionWorkers, StepTo(t, w),
         Fits(w, part', Len(stages'), states')
  PROVE  FusionInv'
<1>1. Len(stages) \in Nat /\ Len(stages') \in Nat /\ Len(stages) <= Len(stages')
  BY LenProperties DEF FusionInv, StepTo
<1>2. /\ worker' \in [FusionThreads -> FusionWorkers] /\ worker'[t] = w
      /\ \A u \in FusionThreads \ {t} : worker'[u] = worker[u]
  BY DEF FusionInv, StepTo
<1>3. Later(part, part', states, states')
  BY DEF StepTo
<1>4. \A u \in FusionThreads : Fits(worker'[u], part', Len(stages'), states')
  <2>1. ASSUME NEW u \in FusionThreads \ {t} PROVE Fits(worker'[u], part', Len(stages'), states')
    <3>1. worker[u] \in FusionWorkers /\ Fits(worker[u], part, Len(stages), states)
      BY DEF FusionInv
    <3> QED BY <1>1, <1>2, <1>3, <3>1, FitsStays
  <2> QED BY <1>2, <2>1
<1>5. \A l \in log' : LineOK(l, part', states')
  <2>1. ASSUME NEW l \in log PROVE LineOK(l, part', states')
    <3>1. l \in LogLines /\ LineOK(l, part, states)
      BY DEF FusionInv
    <3> QED BY <1>1, <1>3, <3>1, FitsStays
  <2> QED BY <2>1 DEF StepTo
<1> QED BY <1>2, <1>4, <1>5 DEF FusionInv, StepTo, Later

\* A step that changes neither stages nor states nor the ends of branches.
LEMMA ThreadMoves ==
  ASSUME FusionInv, NEW t \in FusionThreads, NEW w \in FusionWorkers,
         UNCHANGED <<part, stages, states, log>>, current' \in 0..Len(stages),
         worker' = [worker EXCEPT ![t] = w], Fits(w, part, Len(stages), states)
  PROVE  FusionInv'
<1>1. Later(part, part', states, states') /\ Len(stages) \in Nat
  BY SameIsLater, LenProperties DEF FusionInv
<1>2. StepTo(t, w)
  BY <1>1 DEF FusionInv, StepTo
<1> QED BY <1>2, FusionStepKeeps

\* A step that gives one state of the window another content.
LEMMA StateMoves ==
  ASSUME FusionInv, NEW t \in FusionThreads, NEW w \in FusionWorkers, NEW s \in 1..Len(states),
         NEW st, StateOK(st), Grown(states[s], st), \A m \in st.mats : Became(m, part),
         states' = [states EXCEPT ![s] = st], UNCHANGED <<part, stages, current, log>>,
         worker' = [worker EXCEPT ![t] = w],
         w.pc \in Working, w.b \in Parts, part[w.b] # "pending", w.state = s, Holds(w, part, st)
  PROVE  FusionInv'
<1>1. /\ states' \in Seq(StateRecords) /\ Len(states') = Len(states)
      /\ \A r \in 1..Len(states) : states'[r] = IF r = s THEN st ELSE states[r]
  BY ExceptSeq DEF FusionInv, StateOK
<1>2. Later(part, part, states, states) /\ Len(states) \in Nat /\ Len(stages) \in Nat
  BY SameIsLater, LenProperties DEF FusionInv
<1>3. Later(part, part', states, states')
  BY <1>1, <1>2 DEF Later
<1>4. StepTo(t, w)
  BY <1>1, <1>2, <1>3 DEF FusionInv, StepTo
<1>5. Fits(w, part', Len(stages'), states')
  BY <1>1 DEF Fits, Working
<1> QED BY <1>4, <1>5, FusionStepKeeps

LEMMA FusionByBranch ==
  ASSUME FusionInv, NEW b \in Parts,
         NEW t \in FusionThreads, EndBranch(t, b) \/ (t = "l2" /\ ExpireBranch(b))
  PROVE  FusionInv'
<1> DEFINE w == [AtRest EXCEPT !.pc = "find", !.b = b]
<1>1. /\ part[b] = "pending" /\ UNCHANGED <<stages, states, current, log>>
      /\ part' \in [Parts -> {"pending", "ok", "gap"}] /\ part'[b] # "pending"
      /\ \A c \in Parts \ {b} : part'[c] = part[c]
      /\ worker' = [worker EXCEPT ![t] = w]
  BY DEF EndBranch, ExpireBranch, WorkerIs, FusionInv
<1>2. w \in FusionWorkers /\ w.pc = "find" /\ w.b = b
  BY DEF AtRest, FusionWorkers, FusionPcs, BranchNames
<1> HIDE DEF w
<1>3. Later(part, part', states, states')
  <2>1. Later(part, part, states, states)
    BY SameIsLater DEF FusionInv
  <2> QED BY <1>1, <2>1 DEF Later
<1>4. \A s \in 1..Len(states) : \A m \in states[s].mats : Became(m, part')
  <2> SUFFICES ASSUME NEW s \in 1..Len(states), NEW m \in states[s].mats PROVE Became(m, part')
    OBVIOUS
  <2>1. m \in Learnt /\ Became(m, part)
    BY DEF FusionInv, StateOK, StateRecords
  <2>2. m.b # b /\ m.b \in Parts
    BY <1>1, <2>1 DEF Became, Learnt
  <2> QED BY <1>1, <2>1, <2>2 DEF Became
<1>5. StepTo(t, w)
  <2>1. Len(stages) \in Nat
    BY LenProperties DEF FusionInv
  <2> QED BY <1>1, <1>3, <1>4, <2>1 DEF FusionInv, StepTo
<1>6. Fits(w, part', Len(stages'), states')
  BY <1>1, <1>2 DEF Fits, Working
<1> QED BY <1>2, <1>5, <1>6, FusionStepKeeps

\* The steps of a thread towards a state of the window, and its rest.
LEMMA FusionByThread ==
  ASSUME FusionInv, NEW t \in FusionThreads,
         FindStage(t) \/ MakeStage(t) \/ OpenState(t) \/ EnterState(t) \/ SettleFusion(t)
         \/ CleanupStage(t) \/ ForgetState(t)
  PROVE  FusionInv'
<1>1. /\ worker[t] \in FusionWorkers /\ Fits(worker[t], part, Len(stages), states)
      /\ Len(stages) \in Nat /\ Len(states) \in Nat /\ current \in 0..Len(stages)
      /\ stages \in Seq(Nat) /\ states \in Seq(StateRecords)
      /\ \A s \in 1..Len(stages) : stages[s] \in 0..Len(states)
      /\ Later(part, part, states, states)
  BY LenProperties, SameIsLater DEF FusionInv
<1>2. AtRest \in FusionWorkers /\ AtRest.pc = "idle"
  BY DEF AtRest, FusionWorkers, FusionPcs, BranchNames
<1>3. CASE FindStage(t)
  <2> DEFINE w == IF current # 0 THEN [worker[t] EXCEPT !.pc = "open", !.stage = current]
                  ELSE [worker[t] EXCEPT !.pc = "make"]
  <2>1. /\ worker' = [worker EXCEPT ![t] = w] /\ UNCHANGED <<part, stages, states, current, log>>
        /\ worker[t].pc = "find"
    BY <1>3 DEF FindStage, WorkerIs, To
  <2>2. /\ w \in FusionWorkers /\ w.b = worker[t].b
        /\ (w.pc = "open" /\ w.stage \in 1..Len(stages)) \/ w.pc = "make"
    <3>1. current \in Nat /\ (current # 0 => current \in 1..Len(stages))
      BY <1>1
    <3> QED BY <1>1, <3>1 DEF FusionWorkers, FusionPcs
  <2> HIDE DEF w
  <2>3. Fits(w, part, Len(stages), states)
    BY <1>1, <2>1, <2>2 DEF Fits, Working
  <2> QED BY <1>1, <2>1, <2>2, <2>3, ThreadMoves
<1>4. CASE MakeStage(t)
  <2> DEFINE n == Len(stages) + 1
             w == [worker[t] EXCEPT !.pc = "open", !.stage = n]
  <2>1. /\ worker' = [worker EXCEPT ![t] = w] /\ UNCHANGED <<part, states, log>>
        /\ worker[t].pc = "make" /\ stages' = Append(stages, 0) /\ current' = n
    BY <1>4 DEF MakeStage, WorkerIs
  <2>2. w \in FusionWorkers /\ w.b = worker[t].b /\ w.pc = "open" /\ w.stage = n
    <3>1. n \in Nat
      BY <1>1
    <3> HIDE DEF n
    <3> QED BY <1>1, <3>1 DEF FusionWorkers, FusionPcs
  <2> HIDE DEF w
  <2>3. /\ stages' \in Seq(Nat) /\ Len(stages') = n /\ stages'[n] = 0
        /\ \A s \in 1..Len(stages) : stages'[s] = stages[s]
    BY <1>1, <2>1, AppendProperties
  <2>4. \A s \in 1..Len(stages') : stages'[s] \in 0..Len(states)
    <3>1. \A s \in 1..Len(stages') : s \in 1..Len(stages) \/ s = n
      BY <1>1, <2>3
    <3>2. \A s \in 1..Len(stages) : stages'[s] \in 0..Len(states)
      BY <1>1, <2>3
    <3>3. stages'[n] \in 0..Len(states)
      BY <1>1, <2>3
    <3> HIDE DEF n
    <3> QED BY <3>1, <3>2, <3>3
  <2>5. Len(stages) <= Len(stages') /\ n \in 1..Len(stages')
    BY <1>1, <2>3
  <2>6. StepTo(t, w)
    BY <1>1, <2>1, <2>3, <2>4, <2>5 DEF FusionInv, StepTo
  <2>7. Fits(w, part', Len(stages'), states')
    BY <1>1, <2>1, <2>2, <2>5 DEF Fits, Working
  <2> QED BY <2>2, <2>6, <2>7, FusionStepKeeps
<1>5. CASE OpenState(t)
  <2> DEFINE n == stages[worker[t].stage]
             w == IF n # 0 THEN [worker[t] EXCEPT !.pc = "add", !.stage = 0, !.state = n]
                  ELSE [worker[t] EXCEPT !.pc = "enter"]
  <2>1. /\ worker' = [worker EXCEPT ![t] = w] /\ UNCHANGED <<part, stages, states, current, log>>
        /\ worker[t].pc = "open" /\ worker[t].stage \in 1..Len(stages)
    BY <1>1, <1>5 DEF OpenState, WorkerIs, To, Fits
  <2>2. n \in 0..Len(states)
    BY <1>1, <2>1
  <2> HIDE DEF n
  <2>3. /\ w \in FusionWorkers /\ w.b = worker[t].b
        /\ \/ w.pc = "add" /\ w.state \in 1..Len(states)
           \/ w.pc = "enter" /\ w.stage = worker[t].stage
    <3>1. n \in Nat /\ (n # 0 => n \in 1..Len(states))
      BY <1>1, <2>2
    <3> QED BY <1>1, <3>1 DEF FusionWorkers, FusionPcs, Working
  <2> HIDE DEF w
  <2>4. Fits(w, part, Len(stages), states)
    BY <1>1, <2>1, <2>3 DEF Fits, Holds, Working
  <2> QED BY <1>1, <2>1, <2>3, <2>4, ThreadMoves
<1>6. CASE EnterState(t)
  <2> DEFINE n == Len(states) + 1
             st == [mats |-> {}, vers |-> <<>>]
             w == [worker[t] EXCEPT !.pc = "add", !.stage = 0, !.state = n]
  <2>1. /\ worker' = [worker EXCEPT ![t] = w] /\ UNCHANGED <<part, current, log>>
        /\ worker[t].pc = "enter" /\ worker[t].stage \in 1..Len(stages)
        /\ states' = Append(states, st) /\ stages' = [stages EXCEPT ![worker[t].stage] = n]
    BY <1>1, <1>6 DEF EnterState, WorkerIs, Fits
  <2>2. w \in FusionWorkers /\ w.b = worker[t].b /\ w.pc = "add" /\ w.state = n
    <3>1. n \in Nat
      BY <1>1
    <3> HIDE DEF n
    <3> QED BY <1>1, <3>1 DEF FusionWorkers, FusionPcs, Working
  <2>3. StateOK(st) /\ st \in StateRecords /\ st.mats = {}
    <3>1. st \in StateRecords /\ Len(st.vers) = 0 /\ st.mats = {}
      BY EmptySeq DEF StateRecords
    <3> HIDE DEF st
    <3> QED BY <3>1 DEF StateOK
  <2> HIDE DEF w, st
  <2>4. /\ states' \in Seq(StateRecords) /\ Len(states') = n /\ states'[n] = st
        /\ \A s \in 1..Len(states) : states'[s] = states[s]
    BY <1>1, <2>1, <2>3, AppendProperties
  <2>5. /\ stages' \in Seq(Nat) /\ Len(stages') = Len(stages)
        /\ \A s \in 1..Len(stages) :
              stages'[s] = IF s = worker[t].stage THEN n ELSE stages[s]
    BY <1>1, <2>1, ExceptSeq
  <2>6. n \in Nat /\ n \in 1..Len(states') /\ Len(states) <= Len(states')
    BY <1>1, <2>4
  <2>7. \A s \in 1..Len(stages') : stages'[s] \in 0..Len(states')
    <3>1. n \in 0..Len(states') /\ \A x \in 0..Len(states) : x \in 0..Len(states')
      BY <1>1, <2>4, <2>6
    <3> HIDE DEF n
    <3> QED BY <1>1, <2>5, <3>1
  <2>8. \A s \in 1..Len(states') : StateOK(states'[s]) /\ \A m \in states'[s].mats : Became(m, part)
    <3>1. \A s \in 1..Len(states') : s \in 1..Len(states) \/ s = n
      BY <1>1, <2>4
    <3> QED BY <2>3, <2>4, <3>1 DEF FusionInv
  <2>9. Later(part, part', states, states')
    BY <1>1, <2>1, <2>4, <2>6 DEF Later
  <2>10. StepTo(t, w)
    BY <1>1, <2>1, <2>5, <2>7, <2>8, <2>9 DEF FusionInv, StepTo
  <2>11. Fits(w, part', Len(stages'), states')
    BY <1>1, <2>1, <2>2, <2>6 DEF Fits, Holds, Working
  <2> QED BY <2>2, <2>10, <2>11, FusionStepKeeps
<1>7. CASE SettleFusion(t)
  <2> DEFINE c == [worker[t] EXCEPT !.pc = "cleanup"]
  <2>1. /\ UNCHANGED <<part, stages, states, current, log>>
        /\ \/ worker' = [worker EXCEPT ![t] = c]
           \/ worker' = [worker EXCEPT ![t] = AtRest]
    BY <1>7 DEF SettleFusion, WorkerIs, To
  <2>2. c \in FusionWorkers /\ c.pc = "cleanup"
    BY <1>1 DEF FusionWorkers, FusionPcs
  <2> HIDE DEF c
  <2>3. Fits(c, part, Len(stages), states) /\ Fits(AtRest, part, Len(stages), states)
    BY <1>2, <2>2 DEF Fits, Working
  <2> QED BY <1>1, <1>2, <2>1, <2>2, <2>3, ThreadMoves
<1>8. CASE CleanupStage(t)
  <2> DEFINE w == IF current = 0 THEN AtRest
                  ELSE [AtRest EXCEPT !.pc = "forget", !.stage = current]
  <2>1. /\ UNCHANGED <<part, stages, states, log>> /\ current' = 0
        /\ worker' = [worker EXCEPT ![t] = w]
    BY <1>8 DEF CleanupStage, WorkerIs
  <2>2. w \in FusionWorkers /\ (w.pc = "idle" \/ (w.pc = "forget" /\ w.stage \in 1..Len(stages)))
    <3>1. current \in Nat /\ (current # 0 => current \in 1..Len(stages))
      BY <1>1
    <3>2. [AtRest EXCEPT !.pc = "forget", !.stage = current] \in FusionWorkers
      BY <1>2, <3>1 DEF FusionWorkers, FusionPcs
    <3>3. /\ [AtRest EXCEPT !.pc = "forget", !.stage = current].pc = "forget"
          /\ [AtRest EXCEPT !.pc = "forget", !.stage = current].stage = current
      BY DEF AtRest
    <3> QED BY <1>2, <3>1, <3>2, <3>3
  <2> HIDE DEF w
  <2>3. Fits(w, part, Len(stages), states) /\ current' \in 0..Len(stages)
    BY <1>1, <2>1, <2>2 DEF Fits, Working
  <2> QED BY <2>1, <2>2, <2>3, ThreadMoves
<1>9. CASE ForgetState(t)
  <2>1. /\ worker' = [worker EXCEPT ![t] = AtRest] /\ UNCHANGED <<part, states, current, log>>
        /\ worker[t].stage \in 1..Len(stages) /\ stages' = [stages EXCEPT ![worker[t].stage] = 0]
    BY <1>1, <1>9 DEF ForgetState, WorkerIs, Fits
  <2>2. /\ stages' \in Seq(Nat) /\ Len(stages') = Len(stages)
        /\ \A s \in 1..Len(stages) :
              stages'[s] = IF s = worker[t].stage THEN 0 ELSE stages[s]
    BY <1>1, <2>1, ExceptSeq
  <2>3. StepTo(t, AtRest)
    BY <1>1, <2>1, <2>2 DEF FusionInv, StepTo
  <2>4. Fits(AtRest, part', Len(stages'), states')
    BY <1>2 DEF Fits, Working
  <2> QED BY <1>2, <2>3, <2>4, FusionStepKeeps
<1> QED BY <1>3, <1>4, <1>5, <1>6, <1>7, <1>8, <1>9

\* The steps of a thread inside a state of the window: it adds what it brings, and puts a
\* version together of what it finds.
LEMMA FusionInState ==
  ASSUME FusionInv, NEW t \in FusionThreads,
         AddMaterials(t) \/ TakeRows(t) \/ Identify(t) \/ TakeResults(t) \/ TakeGaps(t)
         \/ TakeParent(t) \/ AppendVersion(t) \/ WriteFusion(t)
  PROVE  FusionInv'
<1> DEFINE s == worker[t].state
           st == states[s]
           m == Material(worker[t].b)
<1>1. /\ worker[t].pc \in Working \ {"find"} /\ worker[t].b \in Parts /\ part[worker[t].b] # "pending"
      /\ s \in 1..Len(states) /\ Holds(worker[t], part, st) /\ StateOK(st)
      /\ \A x \in st.mats : Became(x, part)
  BY DEF FusionInv, Fits, Working, AddMaterials, TakeRows, Identify, TakeResults, TakeGaps,
     TakeParent, AppendVersion, WriteFusion
<1>2. /\ worker[t] \in FusionWorkers /\ st \in StateRecords /\ st.vers \in Seq(Versions)
      /\ st.mats \in SUBSET Learnt /\ Len(st.vers) \in Nat
      /\ m = CameTo(worker[t].b, part) /\ m \in Learnt /\ Became(m, part)
      /\ m.good <=> part[worker[t].b] = "ok"
  <2>1. st \in StateRecords
    BY <1>1 DEF StateOK
  <2>2. part \in [Parts -> {"pending", "ok", "gap"}]
    BY DEF FusionInv
  <2>3. m = [b |-> worker[t].b, good |-> part[worker[t].b] = "ok"]
    BY DEF Material
  <2>4. part[worker[t].b] \in {"ok", "gap"}
    BY <1>1, <2>2
  <2>5. m.b = worker[t].b /\ m.good = (part[worker[t].b] = "ok") /\ m = CameTo(worker[t].b, part)
    BY <2>3 DEF CameTo
  <2>6. Became(m, part)
    BY <2>4, <2>5 DEF Became
  <2>7. m \in Learnt
    BY <1>1, <2>3 DEF Learnt
  <2>8. worker[t] \in FusionWorkers
    BY DEF FusionInv
  <2>9. st.mats \in SUBSET Learnt /\ st.vers \in Seq(Versions) /\ Len(st.vers) \in Nat
    BY <2>1, LenProperties DEF StateRecords
  <2> QED BY <2>1, <2>5, <2>6, <2>7, <2>8, <2>9
<1>3. /\ Results(s) = {x \in st.mats : x.good} /\ Gaps(s) = {x \in st.mats : ~x.good}
  BY DEF Results, Gaps
<1>4. ASSUME NEW w \in FusionWorkers, worker' = [worker EXCEPT ![t] = w],
             UNCHANGED <<part, stages, states, current, log>>,
             \/ w.pc \in Working /\ w.b = worker[t].b /\ w.state = s /\ Holds(w, part, st)
             \/ w.pc = "settle"
      PROVE  FusionInv'
  <2>1. Fits(w, part, Len(stages), states)
    BY <1>1, <1>4 DEF Fits, Working
  <2> QED BY <1>4, <2>1, ThreadMoves DEF FusionInv
<1>5. [AtRest EXCEPT !.pc = "settle"] \in FusionWorkers /\ [AtRest EXCEPT !.pc = "settle"].pc = "settle"
  BY DEF AtRest, FusionWorkers, FusionPcs, BranchNames
<1> HIDE DEF m
<1>6. CASE AddMaterials(t)
  <2> DEFINE new == [st EXCEPT !.mats = @ \cup {m}]
             w == [worker[t] EXCEPT !.pc = "rows"]
  <2>1. /\ states' = [states EXCEPT ![s] = new] /\ worker' = [worker EXCEPT ![t] = w]
        /\ UNCHANGED <<part, stages, current, log>>
    BY <1>6 DEF AddMaterials, To, WorkerIs, m
  <2>2. new \in StateRecords /\ new.mats = st.mats \cup {m} /\ new.vers = st.vers
    BY <1>2 DEF StateRecords
  <2>3. w \in FusionWorkers /\ w.pc = "rows" /\ w.b = worker[t].b /\ w.state = s
    BY <1>2 DEF FusionWorkers, FusionPcs, Working
  <2> HIDE DEF new, w
  <2>4. StateOK(new) /\ Grown(st, new) /\ \A x \in new.mats : Became(x, part)
    BY <1>1, <1>2, <2>2 DEF StateOK, Grown
  <2>5. Holds(w, part, new) /\ w.pc \in Working
    BY <1>2, <2>2, <2>3 DEF Holds, Working
  <2> QED BY <1>1, <2>1, <2>3, <2>4, <2>5, StateMoves
<1>7. CASE TakeRows(t)
  <2> DEFINE w == [worker[t] EXCEPT !.pc = "identify", !.id = Results(s)]
  <2>1. /\ worker' = [worker EXCEPT ![t] = w] /\ UNCHANGED <<part, stages, states, current, log>>
        /\ worker[t].pc = "rows"
    BY <1>7 DEF TakeRows, WorkerIs
  <2>2. /\ w \in FusionWorkers /\ w.pc = "identify" /\ w.b = worker[t].b /\ w.state = s
        /\ w.id = Results(s)
    BY <1>2, <1>3 DEF FusionWorkers, FusionPcs, Working
  <2> HIDE DEF w
  <2>3. Holds(w, part, st)
    BY <1>1, <1>2, <1>3, <2>1, <2>2 DEF Holds
  <2> QED BY <1>4, <2>1, <2>2, <2>3 DEF Working
<1>8. CASE Identify(t)
  <2> DEFINE id == worker[t].id \cup Gaps(s)
  <2>1. /\ UNCHANGED <<part, stages, states, current, log>> /\ worker[t].pc = "identify"
        /\ \/ worker' = [worker EXCEPT ![t] = [worker[t] EXCEPT !.pc = "results", !.id = id,
                                                                !.seen = Len(st.vers)]]
           \/ \E v \in VersionOf(s, id) :
                worker' = [worker EXCEPT ![t] = [worker[t] EXCEPT !.pc = "write", !.id = {},
                                                                  !.ver = v]]
    BY <1>8 DEF Identify, WorkerIs
  <2>2. id \subseteq st.mats /\ m \in id /\ id \in SUBSET Learnt
    <3>1. worker[t].id \subseteq st.mats /\ m \in st.mats /\ (m.good => m \in worker[t].id)
      BY <1>1, <1>2, <2>1 DEF Holds
    <3> QED BY <1>2, <1>3, <3>1
  <2> HIDE DEF id
  <2>3. CASE worker' = [worker EXCEPT ![t] = [worker[t] EXCEPT !.pc = "results", !.id = id,
                                                               !.seen = Len(st.vers)]]
    <3> DEFINE w == [worker[t] EXCEPT !.pc = "results", !.id = id, !.seen = Len(st.vers)]
    <3>1. /\ w \in FusionWorkers /\ w.pc = "results" /\ w.b = worker[t].b /\ w.state = s
          /\ w.id = id /\ w.seen = Len(st.vers)
      BY <1>2, <2>2 DEF FusionWorkers, FusionPcs, Working
    <3> HIDE DEF w
    <3>2. Holds(w, part, st)
      BY <1>2, <2>2, <3>1 DEF Holds
    <3> QED BY <1>4, <2>1, <2>3, <3>1, <3>2 DEF Working, w
  <2>4. ASSUME NEW v \in VersionOf(s, id),
               worker' = [worker EXCEPT ![t] = [worker[t] EXCEPT !.pc = "write", !.id = {}, !.ver = v]]
        PROVE  FusionInv'
    <3> DEFINE w == [worker[t] EXCEPT !.pc = "write", !.id = {}, !.ver = v]
    <3>1. v \in 1..Len(st.vers) /\ st.vers[v].id = id
      BY <1>2, <2>4, LenProperties DEF VersionOf
    <3>2. w \in FusionWorkers /\ w.pc = "write" /\ w.b = worker[t].b /\ w.state = s /\ w.ver = v
      <4>1. v \in Nat
        BY <1>2, <3>1
      <4> QED BY <1>2, <4>1 DEF FusionWorkers, FusionPcs, Working
    <3> HIDE DEF w
    <3>3. m \in st.vers[v].items
      BY <1>1, <2>2, <3>1 DEF StateOK
    <3>4. m \in st.mats
      BY <2>2
    <3>5. Holds(w, part, st)
      BY <1>2, <3>1, <3>2, <3>3, <3>4 DEF Holds
    <3> QED BY <1>4, <2>1, <2>4, <3>2, <3>5 DEF Working, w
  <2> QED BY <2>1, <2>3, <2>4
<1>9. CASE TakeResults(t)
  <2> DEFINE w == [worker[t] EXCEPT !.pc = "gaps", !.items = Results(s)]
  <2>1. /\ UNCHANGED <<part, stages, states, current, log>> /\ worker[t].pc = "results"
        /\ \/ worker' = [worker EXCEPT ![t] = w]
           \/ worker' = [worker EXCEPT ![t] = [AtRest EXCEPT !.pc = "settle"]]
    BY <1>9 DEF TakeResults, WorkerIs
  <2>2. /\ w \in FusionWorkers /\ w.pc = "gaps" /\ w.b = worker[t].b /\ w.state = s
        /\ w.id = worker[t].id /\ w.seen = worker[t].seen /\ w.items = Results(s)
    BY <1>2, <1>3 DEF FusionWorkers, FusionPcs, Working
  <2> HIDE DEF w
  <2>3. Holds(w, part, st)
    <3>1. /\ m \in st.mats /\ w.id \subseteq st.mats /\ m \in w.id /\ w.seen \in 0..Len(st.vers)
      BY <1>1, <1>2, <2>1, <2>2 DEF Holds
    <3>2. \A u \in 1..w.seen : st.vers[u].items \subseteq st.mats
      BY <1>1, <1>2, <3>1 DEF StateOK
    <3> QED BY <1>2, <1>3, <2>2, <3>1, <3>2 DEF Holds
  <2> QED BY <1>4, <1>5, <2>1, <2>2, <2>3 DEF Working
<1>10. CASE TakeGaps(t)
  <2> DEFINE w == [worker[t] EXCEPT !.pc = "parent", !.items = @ \cup Gaps(s)]
  <2>1. /\ worker' = [worker EXCEPT ![t] = w] /\ UNCHANGED <<part, stages, states, current, log>>
        /\ worker[t].pc = "gaps"
    BY <1>10 DEF TakeGaps, WorkerIs
  <2>2. /\ w \in FusionWorkers /\ w.pc = "parent" /\ w.b = worker[t].b /\ w.state = s
        /\ w.id = worker[t].id /\ w.seen = worker[t].seen /\ w.items = worker[t].items \cup Gaps(s)
    BY <1>2, <1>3 DEF FusionWorkers, FusionPcs, Working
  <2> HIDE DEF w
  <2>3. /\ m \in st.mats /\ w.id \subseteq st.mats /\ m \in w.id /\ w.seen \in 0..Len(st.vers)
        /\ worker[t].items \subseteq st.mats
        /\ \A x \in Learnt : x.good /\ (x \in w.id \/ \E u \in 1..w.seen : x \in st.vers[u].items)
                             => x \in worker[t].items
    BY <1>1, <1>2, <2>1, <2>2 DEF Holds
  <2>4. \A u \in 1..w.seen : st.vers[u].items \subseteq st.mats
    BY <1>1, <1>2, <2>3 DEF StateOK
  <2>5. /\ w.items \subseteq st.mats /\ w.id \subseteq w.items
        /\ \A u \in 1..w.seen : st.vers[u].items \subseteq w.items
    <3>1. \A x \in st.mats : x \in Learnt /\ (x.good \/ x \in Gaps(s))
      BY <1>2, <1>3
    <3>2. Gaps(s) \subseteq st.mats
      BY <1>3
    <3> QED BY <2>2, <2>3, <2>4, <3>1, <3>2
  <2>6. Holds(w, part, st)
    BY <1>2, <2>2, <2>3, <2>5 DEF Holds
  <2> QED BY <1>4, <2>1, <2>2, <2>6 DEF Working
<1>11. CASE TakeParent(t)
  <2> DEFINE w == [worker[t] EXCEPT !.pc = "append", !.parent = Len(st.vers)]
  <2>1. /\ worker' = [worker EXCEPT ![t] = w] /\ UNCHANGED <<part, stages, states, current, log>>
        /\ worker[t].pc = "parent"
    BY <1>11 DEF TakeParent, WorkerIs
  <2>2. /\ w \in FusionWorkers /\ w.pc = "append" /\ w.b = worker[t].b /\ w.state = s
        /\ w.id = worker[t].id /\ w.seen = worker[t].seen /\ w.items = worker[t].items
        /\ w.parent = Len(st.vers)
    BY <1>2 DEF FusionWorkers, FusionPcs, Working
  <2> HIDE DEF w
  <2>3. Holds(w, part, st)
    BY <1>1, <1>2, <2>1, <2>2 DEF Holds
  <2> QED BY <1>4, <2>1, <2>2, <2>3 DEF Working
<1>12. CASE AppendVersion(t)
  <2> DEFINE v == [id |-> worker[t].id, items |-> worker[t].items, parent |-> worker[t].parent,
                   seen |-> worker[t].seen]
             new == [st EXCEPT !.vers = Append(@, v)]
             n == Len(st.vers) + 1
             w == [AtRest EXCEPT !.pc = "write", !.b = worker[t].b, !.state = s, !.ver = n]
  <2>1. /\ states' = [states EXCEPT ![s] = new] /\ worker' = [worker EXCEPT ![t] = w]
        /\ UNCHANGED <<part, stages, current, log>> /\ worker[t].pc = "append"
    BY <1>12 DEF AppendVersion, WorkerIs
  <2>2. /\ v \in Versions /\ v.id = worker[t].id /\ v.items = worker[t].items
        /\ v.parent = worker[t].parent /\ v.seen = worker[t].seen
    BY <1>2 DEF FusionWorkers, Versions
  <2>3. new.vers = Append(st.vers, v) /\ new.mats = st.mats
    BY <1>2 DEF StateRecords
  <2>4. w \in FusionWorkers /\ w.pc = "write" /\ w.b = worker[t].b /\ w.state = s /\ w.ver = n
    <3>1. n \in Nat /\ worker[t].b \in BranchNames /\ s \in Nat
      BY <1>2 DEF FusionWorkers
    <3> HIDE DEF n, s
    <3> QED BY <3>1 DEF AtRest, FusionWorkers, FusionPcs, Working
  <2>5. new \in StateRecords
    <3> HIDE DEF v
    <3>1. Append(st.vers, v) \in Seq(Versions)
      BY <1>2, <2>2, AppendProperties
    <3> QED BY <1>2, <3>1 DEF StateRecords
  <2> HIDE DEF v, new, w
  <2>6. /\ Len(new.vers) = n /\ new.vers[n] = v
        /\ \A i \in 1..Len(st.vers) : new.vers[i] = st.vers[i]
    BY <1>2, <2>2, <2>3, AppendProperties
  <2>7. /\ v.items \subseteq st.mats /\ v.id \subseteq v.items /\ m \in v.id
        /\ v.seen \in 0..Len(st.vers) /\ v.parent \in v.seen..Len(st.vers)
        /\ \A u \in 1..v.seen : st.vers[u].items \subseteq v.items
    BY <1>1, <1>2, <2>1, <2>2 DEF Holds
  <2>8. StateOK(new)
    <3>1. ASSUME NEW i \in 1..Len(new.vers)
          PROVE  /\ new.vers[i].items \subseteq new.mats
                 /\ new.vers[i].id \subseteq new.vers[i].items
                 /\ new.vers[i].parent \in new.vers[i].seen..(i - 1)
                 /\ \A u \in 1..new.vers[i].seen : new.vers[u].items \subseteq new.vers[i].items
      <4>1. CASE i \in 1..Len(st.vers)
        <5>1. new.vers[i] = st.vers[i] /\ st.vers[i] \in Versions
          BY <1>2, <2>6, <4>1, ElementOfSeq
        <5>2. st.vers[i].parent \in st.vers[i].seen..(i - 1) /\ st.vers[i].seen \in Nat
              /\ st.vers[i].parent \in Nat
          BY <1>1, <4>1, <5>1 DEF StateOK, Versions
        <5>3. ASSUME NEW u \in 1..st.vers[i].seen PROVE new.vers[u] = st.vers[u]
          <6>1. u \in 1..Len(st.vers)
            BY <1>2, <4>1, <5>2
          <6> QED BY <2>6, <6>1
        <5> QED BY <1>1, <2>3, <4>1, <5>1, <5>2, <5>3 DEF StateOK
      <4>2. CASE i = n
        <5>1. ASSUME NEW u \in 1..v.seen PROVE new.vers[u] = st.vers[u]
          <6>1. u \in 1..Len(st.vers)
            BY <1>2, <2>7
          <6> QED BY <2>6, <6>1
        <5>2. v.parent \in v.seen..(n - 1)
          BY <1>2, <2>7
        <5> HIDE DEF n
        <5> QED BY <2>3, <2>6, <2>7, <4>2, <5>1, <5>2
      <4>3. i \in 1..Len(st.vers) \/ i = n
        BY <1>2, <2>6, <3>1
      <4> QED BY <4>1, <4>2, <4>3
    <3> QED BY <2>5, <3>1 DEF StateOK
  <2>9. Grown(st, new) /\ \A x \in new.mats : Became(x, part)
    BY <1>1, <1>2, <2>3, <2>6 DEF Grown
  <2>10. Holds(w, part, new) /\ w.pc \in Working
    BY <1>2, <2>3, <2>4, <2>6, <2>7 DEF Holds, Working
  <2> QED BY <1>1, <2>1, <2>4, <2>8, <2>9, <2>10, StateMoves
<1>13. CASE WriteFusion(t)
  <2> DEFINE w == [AtRest EXCEPT !.pc = "settle"]
             entry == [b |-> worker[t].b, state |-> s, ver |-> worker[t].ver]
  <2>1. /\ worker' = [worker EXCEPT ![t] = w] /\ UNCHANGED <<part, stages, states, current>>
        /\ log' = log \cup {entry} /\ worker[t].pc = "write"
    BY <1>13 DEF WriteFusion, WorkerIs
  <2>2. /\ entry \in LogLines /\ entry.b = worker[t].b /\ entry.state = s /\ entry.ver = worker[t].ver
    BY <1>1, <1>2, LenProperties DEF LogLines, FusionWorkers, FusionInv
  <2> HIDE DEF w, entry
  <2>3. worker[t].ver \in 1..Len(st.vers) /\ m \in st.vers[worker[t].ver].items
    BY <1>1, <1>2, <2>1 DEF Holds
  <2>4. LineOK(entry, part, states)
    BY <1>1, <1>2, <2>2, <2>3 DEF LineOK
  <2>5. Later(part, part', states, states') /\ Len(stages) \in Nat
    BY <2>1, SameIsLater, LenProperties DEF FusionInv
  <2>6. StepTo(t, w)
    BY <2>1, <2>2, <2>4, <2>5 DEF FusionInv, StepTo
  <2>7. w \in FusionWorkers /\ Fits(w, part', Len(stages'), states')
    BY <1>5 DEF Fits, Working, w
  <2> QED BY <2>6, <2>7, FusionStepKeeps
<1> QED BY <1>6, <1>7, <1>8, <1>9, <1>10, <1>11, <1>12, <1>13

LEMMA FusionBegins == FusionInit => FusionInv
<1> SUFFICES ASSUME FusionInit PROVE FusionInv
  OBVIOUS
<1> USE DEF FusionInit
<1>1. Len(stages) = 0 /\ Len(states) = 0 /\ stages \in Seq(Nat) /\ states \in Seq(StateRecords)
  BY EmptySeq
<1>2. AtRest \in FusionWorkers /\ AtRest.pc = "idle"
  BY DEF AtRest, FusionWorkers, FusionPcs, BranchNames
<1>3. worker \in [FusionThreads -> FusionWorkers]
      /\ \A t \in FusionThreads : Fits(worker[t], part, Len(stages), states)
  BY <1>2 DEF Fits, Working
<1> QED BY <1>1, <1>3 DEF FusionInv

LEMMA FusionSteps == FusionInv /\ [FusionNext]_fusionvars => FusionInv'
<1> SUFFICES ASSUME FusionInv, [FusionNext]_fusionvars PROVE FusionInv'
  OBVIOUS
<1>1. ASSUME ExpireFusion \/ UNCHANGED fusionvars PROVE FusionInv'
  <2>1. UNCHANGED <<part, stages, states, current, worker, log>>
    BY <1>1 DEF ExpireFusion, fusionvars
  <2> QED BY <2>1 DEF FusionInv
<1>2. ASSUME ExpireFusionEnd PROVE FusionInv'
  <2> DEFINE w == [worker["l2"] EXCEPT !.pc = "cleanup"]
  <2>1. /\ UNCHANGED <<part, stages, states, current, log>>
        /\ worker' = [worker EXCEPT !["l2"] = w]
    BY <1>2 DEF ExpireFusionEnd, To, WorkerIs
  <2>2. "l2" \in FusionThreads /\ worker["l2"] \in FusionWorkers /\ current \in 0..Len(stages)
    BY DEF FusionThreads, FusionInv
  <2>3. w \in FusionWorkers /\ w.pc = "cleanup"
    BY <2>2 DEF FusionWorkers, FusionPcs
  <2> HIDE DEF w
  <2>4. Fits(w, part, Len(stages), states)
    BY <2>3 DEF Fits, Working
  <2> QED BY <2>1, <2>2, <2>3, <2>4, ThreadMoves
<1>3. ASSUME NEW b \in Parts, ExpireBranch(b) PROVE FusionInv'
  BY <1>3, FusionByBranch DEF FusionThreads
<1>4. ASSUME NEW t \in FusionThreads,
             \/ \E b \in Parts : EndBranch(t, b)
             \/ FindStage(t) \/ MakeStage(t) \/ OpenState(t) \/ EnterState(t) \/ AddMaterials(t)
             \/ TakeRows(t) \/ Identify(t) \/ TakeResults(t) \/ TakeGaps(t) \/ TakeParent(t)
             \/ AppendVersion(t) \/ WriteFusion(t) \/ SettleFusion(t) \/ CleanupStage(t)
             \/ ForgetState(t)
      PROVE  FusionInv'
  BY <1>4, FusionByBranch, FusionByThread, FusionInState
<1> QED BY <1>1, <1>2, <1>3, <1>4 DEF FusionNext

\* What is written as fusion rests on what became of the branches, its own among them, and a
\* version holds all that the versions held that were there when it was put together, though
\* two threads work on one stage without a lock: for any branches of the window, any number
\* of stages, states and versions.
THEOREM FusionOnlyGrows == FusionInit /\ [][FusionNext]_fusionvars => []FusionGrows
<1>1. FusionInit => FusionInv
  BY FusionBegins
<1>2. FusionInv /\ [FusionNext]_fusionvars => FusionInv'
  BY FusionSteps
<1>3. FusionInv => FusionGrows
  <2> SUFFICES ASSUME FusionInv, NEW l \in log
               PROVE  LET v == Written(l)
                          all == states[l.state].vers
                      IN  /\ \A m \in v.items : part[m.b] = IF m.good THEN "ok" ELSE "gap"
                          /\ v.id \subseteq v.items /\ Material(l.b) \in v.items
                          /\ v.parent \in v.seen..(l.ver - 1)
                          /\ \A u \in 1..v.seen : all[u].items \subseteq v.items
    BY DEF FusionGrows
  <2>1. /\ LineOK(l, part, states) /\ l.state \in 1..Len(states)
        /\ l.ver \in 1..Len(states[l.state].vers)
        /\ StateOK(states[l.state]) /\ \A m \in states[l.state].mats : Became(m, part)
    BY DEF FusionInv, LineOK
  <2>2. Material(l.b) \in states[l.state].vers[l.ver].items
    BY <2>1 DEF LineOK, Material, CameTo
  <2> QED BY <2>1, <2>2 DEF StateOK, Became, Written
<1> QED BY <1>1, <1>2, <1>3, PTL
-------------------------------------------------------------------------------
(* EventProgress: what is told of an event, and by which frames. *)

\* What a fusion that waits knows of its frames is what they showed: an object without
\* an event at a frame may have been given one, no other was changed.
Snapped(f) ==
    /\ DOMAIN f.snap \subseteq 1..shot
    /\ \A t \in DOMAIN f.snap : f.snap[t].known =>
        /\ DOMAIN f.snap[t].bind = seen[t].refs
        /\ \A o \in seen[t].refs : seen[t].bind[o] \in {0, f.snap[t].bind[o]}
\* A row begins when the track of its object was born, which never changes.
RowsOfTracks ==
    /\ shot \in Nat
    /\ facts \in [Objs -> [occ : Nat, state : {"none", "pending", "open"}, born : Nat, last : Nat]]
    /\ \A o \in Objs : facts[o].born <= shot /\ facts[o].last <= shot
    /\ rows \in [Episodes -> [start : Nat, end : Nat, first : BOOLEAN]]
    /\ \A e \in Episodes : rows[e] # NoRow =>
        rows[e].start = facts[e[1]].born /\ facts[e[1]].born # 0 /\ rows[e].end <= shot
    /\ \A o \in Objs : facts[o].state # "none" \/ facts[o].occ # 0 => facts[o].born # 0
SeenFrames == (\E S : seen \in Seq(S)) /\ Len(seen) = shot
FusionsSnapped == (\E S : fusions \in Seq(S)) /\ \A f \in ToSet(fusions) : Snapped(f)
Grounded(s) ==
    LET o == s.event[1]
    IN  /\ s.event \in Episodes /\ rows[s.event].first
        /\ s.frames \subseteq 1..shot
        /\ \E t \in s.frames : o \in seen[t].refs
        /\ \A t \in s.frames :
            /\ seen[t].refs \subseteq {o}
            /\ o \in seen[t].refs => /\ Inside(t, rows[s.event])
                                     /\ seen[t].bind[o] \in {0, s.event[2]}
ProgressInv ==
    RowsOfTracks /\ SeenFrames /\ FusionsSnapped /\ \A s \in story : Grounded(s)

\* A step that keeps what was seen, and shortens no row, keeps what was told.
LEMMA ProgressFrame ==
  ASSUME ProgressInv, shot <= shot', shot' \in Nat, story' = story,
         \A t \in 1..shot : seen'[t] = seen[t],
         rows' \in [Episodes -> [start : Nat, end : Nat, first : BOOLEAN]],
         \A e \in Episodes : rows[e].first =>
            /\ rows'[e].first /\ rows'[e].start = rows[e].start
            /\ rows[e].end <= rows'[e].end
  PROVE  /\ \A s \in story' : Grounded(s)'
         /\ fusions' = fusions => FusionsSnapped'
<1> USE DEF ProgressInv
<1>0. shot \in Nat /\ 1..shot \subseteq 1..shot'
  BY DEF RowsOfTracks
<1>1. ASSUME NEW s \in story PROVE Grounded(s)'
  <2> DEFINE o == s.event[1]
  <2>1. /\ s.event \in Episodes /\ rows[s.event].first
        /\ s.frames \subseteq 1..shot
        /\ \E t \in s.frames : o \in seen[t].refs
        /\ \A t \in s.frames :
            /\ seen[t].refs \subseteq {o}
            /\ o \in seen[t].refs => /\ Inside(t, rows[s.event])
                                     /\ seen[t].bind[o] \in {0, s.event[2]}
    BY DEF Grounded
  <2> HIDE DEF o
  <2>2. \A t \in s.frames : seen'[t] = seen[t] /\ t \in Nat /\ t \in 1..shot'
    BY <1>0, <2>1
  <2>3. /\ rows'[s.event].first /\ rows'[s.event].start = rows[s.event].start
        /\ rows[s.event].end <= rows'[s.event].end
        /\ rows[s.event].start \in Nat /\ rows[s.event].end \in Nat /\ rows'[s.event].end \in Nat
    BY <2>1 DEF RowsOfTracks
  <2>4. \A t \in s.frames : Inside(t, rows[s.event]) => Inside(t, rows'[s.event])
    BY <2>2, <2>3 DEF Inside
  <2> QED BY <1>0, <2>1, <2>2, <2>3, <2>4 DEF Grounded, o
<1>2. ASSUME NEW f, Snapped(f) PROVE Snapped(f)'
  <2>1. \A t \in DOMAIN f.snap : seen'[t] = seen[t]
    BY <1>2 DEF Snapped
  <2> QED BY <1>0, <1>2, <2>1 DEF Snapped
<1>3. ASSUME fusions' = fusions PROVE FusionsSnapped'
  <2>1. (\E S : fusions' \in Seq(S)) /\ \A f \in ToSet(fusions') : Snapped(f)
    BY <1>3 DEF FusionsSnapped
  <2> QED BY <1>2, <2>1 DEF FusionsSnapped
<1> QED BY <1>1, <1>3

LEMMA ProgressShowFrame ==
  ASSUME ProgressInv, NEW refs \in SUBSET Objs, NEW good \in SUBSET Objs,
         ShowFrame(refs, good)
  PROVE  ProgressInv'
<1> USE DEF ProgressInv
<1> DEFINE t == shot + 1
           after == [o \in Objs |-> IF o \in refs THEN FactAfter(facts[o], t, o \in good)
                                    ELSE facts[o]]
           pic == [refs |-> refs, bind |-> Bindings(refs, after)]
<1>1. /\ shot' = t /\ facts' = after /\ seen' = Append(seen, pic)
      /\ good \subseteq refs /\ UNCHANGED <<fusions, story>>
  BY DEF ShowFrame
<1>2. PICK firsts \in SUBSET good :
        rows' = [e \in Episodes |->
                    IF e[1] \in good /\ e[2] = after[e[1]].occ
                    THEN [start |-> after[e[1]].born, end |-> t,
                          first |-> rows[e].first \/ e[1] \in firsts]
                    ELSE rows[e]]
  BY DEF ShowFrame
<1>3. shot \in Nat /\ t \in Nat /\ shot <= t
  BY DEF RowsOfTracks
<1>4. \A o \in Objs :
        /\ after[o] \in [occ : Nat, state : {"none", "pending", "open"}, born : Nat, last : Nat]
        /\ after[o].born <= t /\ after[o].last <= t
        /\ facts[o].born # 0 => after[o].born = facts[o].born
        /\ o \in refs => after[o].born # 0
        /\ after[o].state # "none" \/ after[o].occ # 0 => after[o].born # 0
  <2> SUFFICES ASSUME NEW o \in Objs
               PROVE  /\ after[o] \in [occ : Nat, state : {"none", "pending", "open"},
                                       born : Nat, last : Nat]
                      /\ after[o].born <= t /\ after[o].last <= t
                      /\ facts[o].born # 0 => after[o].born = facts[o].born
                      /\ o \in refs => after[o].born # 0
                      /\ after[o].state # "none" \/ after[o].occ # 0 => after[o].born # 0
    OBVIOUS
  <2>1. /\ facts[o] \in [occ : Nat, state : {"none", "pending", "open"}, born : Nat, last : Nat]
        /\ facts[o].born <= shot /\ facts[o].last <= shot
        /\ facts[o].state # "none" \/ facts[o].occ # 0 => facts[o].born # 0
    BY DEF RowsOfTracks
  <2>2. CASE o \in refs
    <3>1. after[o] = FactAfter(facts[o], t, o \in good)
      BY <2>2
    <3> HIDE DEF after
    <3> QED BY <1>3, <2>1, <2>2, <3>1 DEF FactAfter
  <2>3. CASE o \notin refs
    <3>1. after[o] = facts[o]
      BY <2>3
    <3> HIDE DEF after
    <3> QED BY <1>3, <2>1, <2>3, <3>1
  <2> QED BY <2>2, <2>3
<1>5. \A e \in Episodes : e[1] \in Objs
  BY DEF Episodes
<1> HIDE DEF after, pic
<1>6. /\ rows' \in [Episodes -> [start : Nat, end : Nat, first : BOOLEAN]]
      /\ \A e \in Episodes :
          /\ rows'[e] # NoRow => /\ rows'[e].start = after[e[1]].born
                                 /\ after[e[1]].born # 0 /\ rows'[e].end <= t
          /\ rows[e].first => /\ rows'[e].first /\ rows'[e].start = rows[e].start
                              /\ rows[e].end <= rows'[e].end
  <2>1. ASSUME NEW e \in Episodes
        PROVE  /\ rows'[e] \in [start : Nat, end : Nat, first : BOOLEAN]
               /\ rows'[e] # NoRow => /\ rows'[e].start = after[e[1]].born
                                      /\ after[e[1]].born # 0 /\ rows'[e].end <= t
               /\ rows[e].first => /\ rows'[e].first /\ rows'[e].start = rows[e].start
                                   /\ rows[e].end <= rows'[e].end
    <3>1. /\ rows[e] \in [start : Nat, end : Nat, first : BOOLEAN] /\ e[1] \in Objs
          /\ rows[e] # NoRow => /\ rows[e].start = facts[e[1]].born
                                /\ facts[e[1]].born # 0 /\ rows[e].end <= shot
      BY <1>5 DEF RowsOfTracks
    <3>2. rows[e].first => rows[e] # NoRow
      BY DEF NoRow
    <3>3. CASE e[1] \in good /\ e[2] = after[e[1]].occ
      <4>1. rows'[e] = [start |-> after[e[1]].born, end |-> t,
                        first |-> rows[e].first \/ e[1] \in firsts]
        BY <1>2, <3>3
      <4>2. after[e[1]].born \in Nat /\ after[e[1]].born # 0
        BY <1>1, <1>4, <3>1, <3>3
      <4> QED BY <1>3, <1>4, <3>1, <3>2, <4>1, <4>2
    <3>4. CASE ~(e[1] \in good /\ e[2] = after[e[1]].occ)
      <4>1. rows'[e] = rows[e]
        BY <1>2, <3>4
      <4> QED BY <1>3, <1>4, <3>1, <3>2, <4>1
    <3> QED BY <3>3, <3>4
  <2>2. rows' \in [Episodes -> [start : Nat, end : Nat, first : BOOLEAN]]
    BY <1>2, <2>1
  <2> QED BY <2>1, <2>2
<1>7. SeenFrames' /\ \A u \in 1..shot : seen'[u] = seen[u]
  <2>1. PICK S : seen \in Seq(S)
    BY DEF SeenFrames
  <2>2. seen \in Seq(S \cup {pic})
    BY <2>1, SeqMonotonic
  <2>3. /\ seen' \in Seq(S \cup {pic}) /\ Len(seen') = Len(seen) + 1
        /\ \A u \in 1..Len(seen) : seen'[u] = seen[u]
    BY <1>1, <2>2, AppendProperties
  <2> QED BY <1>1, <2>3 DEF SeenFrames
<1>8. RowsOfTracks'
  <2>1. facts' \in [Objs -> [occ : Nat, state : {"none", "pending", "open"}, born : Nat,
                             last : Nat]]
    <3>1. facts' = [o \in Objs |-> facts'[o]]
      BY <1>1 DEF after
    <3> QED BY <1>1, <1>4, <3>1
  <2> QED BY <1>1, <1>3, <1>4, <1>6, <2>1 DEF RowsOfTracks
<1>9. FusionsSnapped' /\ \A s \in story' : Grounded(s)'
  BY <1>1, <1>3, <1>6, <1>7, ProgressFrame
<1> QED BY <1>7, <1>8, <1>9

LEMMA ProgressLoseStream == ASSUME ProgressInv, LoseStream PROVE ProgressInv'
<1> USE DEF ProgressInv
<1>1. /\ facts' = [o \in Objs |-> [facts[o] EXCEPT !.state = "none"]]
      /\ UNCHANGED <<shot, rows, seen, fusions, story>>
  BY DEF LoseStream
<1>2. RowsOfTracks'
  BY <1>1 DEF RowsOfTracks, Episodes
<1>3. SeenFrames' /\ FusionsSnapped'
  BY <1>1 DEF SeenFrames, FusionsSnapped, Snapped
<1>4. \A s \in story' : Grounded(s)'
  BY <1>1 DEF Grounded
<1> QED BY <1>2, <1>3, <1>4

LEMMA ProgressWriteLate == ASSUME ProgressInv, NEW e \in Episodes, WriteLate(e) PROVE ProgressInv'
<1> USE DEF ProgressInv
<1>1. UNCHANGED <<shot, facts, seen, fusions, story>> /\ ~rows[e].first
  BY DEF WriteLate
<1>2. e[1] \in Objs /\ shot \in Nat
  BY DEF Episodes, RowsOfTracks
<1>3. PICK r \in [start : Nat, end : Nat, first : BOOLEAN] :
        /\ rows' = [rows EXCEPT ![e] = r]
        /\ r # NoRow => r.start = facts[e[1]].born /\ facts[e[1]].born # 0 /\ r.end <= shot
  <2>1. /\ facts[e[1]].born \in Nat /\ facts[e[1]].last \in Nat
        /\ facts[e[1]].last <= shot
        /\ rows[e] \in [start : Nat, end : Nat, first : BOOLEAN]
    BY <1>2 DEF RowsOfTracks
  <2>2. CASE rows' = [rows EXCEPT ![e] = [start |-> facts[e[1]].born, end |-> facts[e[1]].last,
                                          first |-> FALSE]]
             /\ rows[e] = NoRow /\ e[2] = facts[e[1]].occ
    <3> DEFINE r == [start |-> facts[e[1]].born, end |-> facts[e[1]].last, first |-> FALSE]
    <3>1. r \in [start : Nat, end : Nat, first : BOOLEAN]
      BY <2>1
    <3>2. facts[e[1]].born # 0
      <4>1. e[2] # 0
        BY DEF Episodes
      <4> QED BY <1>2, <2>2, <4>1 DEF RowsOfTracks
    <3> QED BY <2>1, <2>2, <3>1, <3>2
  <2>3. CASE rows[e] # NoRow /\ rows' = [rows EXCEPT ![e].first = TRUE]
    <3> DEFINE r == [rows[e] EXCEPT !.first = TRUE]
    <3>1. /\ r \in [start : Nat, end : Nat, first : BOOLEAN]
          /\ r.start = rows[e].start /\ r.end = rows[e].end
      BY <2>1
    <3>2. rows' = [rows EXCEPT ![e] = r]
      BY <2>3
    <3>3. rows[e].start = facts[e[1]].born /\ facts[e[1]].born # 0 /\ rows[e].end <= shot
      BY <2>3 DEF RowsOfTracks
    <3> HIDE DEF r
    <3> QED BY <3>1, <3>2, <3>3
  <2> QED BY <2>2, <2>3 DEF WriteLate
<1>4. /\ rows' \in [Episodes -> [start : Nat, end : Nat, first : BOOLEAN]]
      /\ rows'[e] = r /\ \A d \in Episodes \ {e} : rows'[d] = rows[d]
  BY <1>3 DEF RowsOfTracks
<1>5. RowsOfTracks'
  BY <1>1, <1>3, <1>4 DEF RowsOfTracks
<1>6. \A d \in Episodes : rows[d].first => rows'[d] = rows[d]
  BY <1>1, <1>4
<1>7. \A s \in story' : Grounded(s)'
  <2>1. \A d \in Episodes : rows[d].end <= rows[d].end
    BY DEF RowsOfTracks
  <2>2. /\ shot <= shot' /\ shot' \in Nat /\ \A u \in 1..shot : seen'[u] = seen[u]
    BY <1>1, <1>2
  <2>3. \A d \in Episodes : rows[d].first =>
            /\ rows'[d].first /\ rows'[d].start = rows[d].start
            /\ rows[d].end <= rows'[d].end
    BY <1>6, <2>1
  <2> QED BY <1>1, <1>4, <2>2, <2>3, ProgressFrame
<1>8. SeenFrames' /\ FusionsSnapped'
  BY <1>1 DEF SeenFrames, FusionsSnapped, Snapped
<1> QED BY <1>5, <1>7, <1>8

LEMMA ProgressSubmit ==
  ASSUME ProgressInv, NEW fs \in SUBSET (1..shot), NEW o \in Objs, SubmitFusion(fs, o)
  PROVE  ProgressInv'
<1> USE DEF ProgressInv
<1>1. /\ UNCHANGED <<shot, facts, rows, seen, story>>
      /\ \E kept, about : fusions' = Append(fusions, [about |-> o, snap |-> Frozen(fs, kept, about)])
  BY DEF SubmitFusion, cameraFacts
<1>2. PICK kept, about :
        fusions' = Append(fusions, [about |-> o, snap |-> Frozen(fs, kept, about)])
  BY <1>1
<1> DEFINE f == [about |-> o, snap |-> Frozen(fs, kept, about)]
<1>3. Snapped(f)
  <2>1. /\ DOMAIN f.snap = fs
        /\ \A t \in fs : f.snap[t] =
              IF t \in ToSet(kept)
              THEN [known |-> TRUE, bind |-> [p \in seen[t].refs |-> FrozenBinding(p, t, about)]]
              ELSE [known |-> FALSE, bind |-> <<>>]
    BY DEF Frozen
  <2> DEFINE of(t) == [p \in seen[t].refs |-> FrozenBinding(p, t, about)]
  <2>3. \A t \in fs : /\ t \in ToSet(kept) => f.snap[t].bind = of(t)
                      /\ t \notin ToSet(kept) => f.snap[t].known = FALSE
    <3>1. ASSUME NEW t \in fs, t \in ToSet(kept) PROVE f.snap[t].bind = of(t)
      <4>1. f.snap[t] = [known |-> TRUE, bind |-> of(t)]
        BY <2>1, <3>1
      <4> HIDE DEF f, of
      <4> QED BY <4>1
    <3>2. ASSUME NEW t \in fs, t \notin ToSet(kept) PROVE f.snap[t].known = FALSE
      <4>1. f.snap[t] = [known |-> FALSE, bind |-> <<>>]
        BY <2>1, <3>2
      <4> HIDE DEF f, of
      <4> QED BY <4>1
    <3> HIDE DEF f, of
    <3> QED BY <3>1, <3>2
  <2> HIDE DEF f
  <2>2. ASSUME NEW t \in fs, f.snap[t].known
        PROVE  /\ DOMAIN f.snap[t].bind = seen[t].refs
               /\ \A p \in seen[t].refs : seen[t].bind[p] \in {0, f.snap[t].bind[p]}
    <3>1. f.snap[t].bind = [p \in seen[t].refs |-> FrozenBinding(p, t, about)]
      BY <2>2, <2>3
    <3>2. \A p \in seen[t].refs : FrozenBinding(p, t, about) = seen[t].bind[p] \/ seen[t].bind[p] = 0
      BY DEF FrozenBinding
    <3> QED BY <3>1, <3>2
  <2> QED BY <2>1, <2>2 DEF Snapped
<1>4. FusionsSnapped'
  <2>1. PICK S : fusions \in Seq(S)
    BY DEF FusionsSnapped
  <2>2. fusions \in Seq(S \cup {f})
    BY <2>1, SeqMonotonic
  <2> HIDE DEF f
  <2>3. fusions' \in Seq(S \cup {f}) /\ ToSet(fusions') = ToSet(fusions) \cup {f}
    BY <1>2, <2>2, AppendFacts DEF f
  <2>4. \A g : Snapped(g) => Snapped(g)'
    BY <1>1 DEF Snapped
  <2> QED BY <1>3, <2>3, <2>4 DEF FusionsSnapped
<1>5. RowsOfTracks' /\ SeenFrames' /\ \A s \in story' : Grounded(s)'
  BY <1>1 DEF RowsOfTracks, SeenFrames, Grounded
<1> QED BY <1>4, <1>5

\* _associate: what it finds is told by frames of that event and of no other object.
LEMMA AssociatedGrounds ==
  ASSUME ProgressInv, NEW f, Snapped(f), NEW e \in Associated(f), Attachable(e, f)
  PROVE  Grounded([event |-> e, frames |-> DOMAIN f.snap])
<1> USE DEF ProgressInv
<1> DEFINE with == {t \in DOMAIN f.snap : f.about \in DOMAIN f.snap[t].bind}
           ks == {f.snap[t].bind[f.about] : t \in with}
           o == f.about
<1>1. /\ \A t \in DOMAIN f.snap : f.snap[t].known /\ DOMAIN f.snap[t].bind \subseteq {f.about}
      /\ Cardinality(ks) = 1 /\ 0 \notin ks
      /\ e \in {<<f.about, k>> : k \in ks}
  BY DEF Associated
<1>2. IsFiniteSet(ks)
  <2>1. shot \in Nat
    BY DEF RowsOfTracks
  <2>2. IsFiniteSet(1..shot)
    BY <2>1, FS_Interval
  <2>3. with \subseteq 1..shot
    BY DEF Snapped
  <2>4. IsFiniteSet(with)
    BY <2>2, <2>3, FS_Subset
  <2> DEFINE g == [t \in with |-> f.snap[t].bind[f.about]]
  <2>5. ks = {g[t] : t \in with}
    OBVIOUS
  <2> HIDE DEF g, ks, with
  <2> QED BY <2>4, <2>5, ImageOfFinite
<1>3. PICK k : ks = {k}
  <2> HIDE DEF ks
  <2> QED BY <1>1, <1>2, OnlyOne
<1>4. e = <<o, k>> /\ e[1] = o /\ e[2] = k
  BY <1>1, <1>3
<1>5. e \in Episodes /\ rows[e].first
      /\ \A t \in DOMAIN f.snap : DOMAIN f.snap[t].bind # {} => Inside(t, rows[e])
  BY DEF Attachable, RowsOfTracks
<1>6. \A t \in DOMAIN f.snap : /\ seen[t].refs = DOMAIN f.snap[t].bind
                               /\ \A p \in seen[t].refs : seen[t].bind[p] \in {0, f.snap[t].bind[p]}
  BY <1>1 DEF Snapped
<1>7. \E t \in DOMAIN f.snap : o \in seen[t].refs
  BY <1>3, <1>6
<1>8. ASSUME NEW t \in DOMAIN f.snap
      PROVE  /\ seen[t].refs \subseteq {o}
             /\ o \in seen[t].refs => Inside(t, rows[e]) /\ seen[t].bind[o] \in {0, k}
  <2>1. seen[t].refs \subseteq {o}
    BY <1>1, <1>6
  <2>2. ASSUME o \in seen[t].refs PROVE f.snap[t].bind[o] = k
    <3>1. t \in with
      BY <1>6, <2>2
    <3>2. f.snap[t].bind[o] \in ks
      BY <3>1
    <3> HIDE DEF ks, o
    <3> QED BY <1>3, <3>2
  <2>3. o \in seen[t].refs => Inside(t, rows[e])
    BY <1>5, <1>6
  <2> QED BY <1>6, <2>1, <2>2, <2>3
<1> DEFINE s == [event |-> e, frames |-> DOMAIN f.snap]
<1>9. s.event = e /\ s.frames = DOMAIN f.snap
  OBVIOUS
<1>10. DOMAIN f.snap \subseteq 1..shot
  BY DEF Snapped
<1> HIDE DEF s, ks, with, o
<1>11. Grounded(s)
  BY <1>4, <1>5, <1>7, <1>8, <1>9, <1>10 DEF Grounded
<1> QED BY <1>11 DEF s

LEMMA ProgressPublish == ASSUME ProgressInv, PublishFusion PROVE ProgressInv'
<1> USE DEF ProgressInv
<1> DEFINE f == Head(fusions)
<1>1. /\ fusions # <<>> /\ fusions' = Tail(fusions) /\ UNCHANGED <<shot, facts, rows, seen>>
      /\ story' = story \cup {[event |-> e, frames |-> DOMAIN f.snap] :
                                 e \in {d \in Associated(f) : Attachable(d, f)}}
  BY DEF PublishFusion, cameraFacts
<1>2. /\ f \in ToSet(fusions) /\ ToSet(fusions') \subseteq ToSet(fusions)
      /\ \E S : fusions' \in Seq(S)
  BY <1>1, LineFacts DEF FusionsSnapped
<1>3. Snapped(f)
  BY <1>2 DEF FusionsSnapped
<1> HIDE DEF f
<1>4. \A s \in story' : Grounded(s)
  BY <1>1, <1>3, AssociatedGrounds
<1>5. FusionsSnapped' /\ \A s \in story' : Grounded(s)'
  BY <1>1, <1>2, <1>4 DEF FusionsSnapped, Snapped, Grounded
<1>6. RowsOfTracks' /\ SeenFrames'
  BY <1>1 DEF RowsOfTracks, SeenFrames
<1> QED BY <1>5, <1>6

\* The two resolvers: what all frames of a package agree on is what its bound frames do.
LEMMA ResolversNeverDiffer == ASSUME shot \in Nat PROVE ResolversAgree
<1> SUFFICES ASSUME NEW fs \in SUBSET (1..shot), NEW o \in Objs, MaterialBinding(fs, o) # {}
             PROVE  FrameBindings(fs) = MaterialBinding(fs, o)
  BY DEF ResolversAgree
<1> DEFINE ks == {seen[t].bind[o] : t \in fs}
           bound == {t \in fs : ClassifyFrame(t) = "bound"}
           events == UNION {EventOfFrame(t) : t \in bound}
<1>1. /\ fs # {} /\ fs \subseteq ToSet(frames)
      /\ \A t \in fs : seen[t].refs = {o} /\ seen[t].bind[o] # 0
      /\ Cardinality(ks) = 1
      /\ MaterialBinding(fs, o) = {<<o, seen[t].bind[o]>> : t \in fs}
  BY DEF MaterialBinding
<1>2. IsFiniteSet(ks)
  <2>0. IsFiniteSet(1..shot)
    BY FS_Interval
  <2>1. IsFiniteSet(fs)
    BY <2>0, FS_Subset
  <2> DEFINE g == [t \in fs |-> seen[t].bind[o]]
  <2>2. ks = {g[t] : t \in fs}
    OBVIOUS
  <2> HIDE DEF g, ks
  <2> QED BY <2>1, <2>2, ImageOfFinite
<1>3. PICK k : ks = {k}
  <2> HIDE DEF ks
  <2> QED BY <1>1, <1>2, OnlyOne
<1>4. \A t \in fs : seen[t].bind[o] = k
  BY <1>3
<1>5. bound = fs
  <2> SUFFICES ASSUME NEW t \in fs PROVE ClassifyFrame(t) = "bound"
    OBVIOUS
  <2>1. t \in ToSet(frames) /\ seen[t].refs = {o} /\ seen[t].bind[o] # 0
    BY <1>1
  <2>2. Cardinality({o}) = 1
    BY FS_Singleton
  <2> QED BY <2>1, <2>2 DEF ClassifyFrame
<1>6. \A t \in fs : EventOfFrame(t) = {<<o, k>>}
  BY <1>1, <1>4 DEF EventOfFrame
<1>7. events = {<<o, k>>} /\ MaterialBinding(fs, o) = {<<o, k>>}
  <2> HIDE DEF bound
  <2>1. events = {<<o, k>>}
    BY <1>1, <1>5, <1>6
  <2>2. MaterialBinding(fs, o) = {<<o, k>>}
    BY <1>1, <1>4
  <2> QED BY <2>1, <2>2
<1>8. FrameBindings(fs) = IF Cardinality(events) = 1 THEN events ELSE {}
  BY DEF FrameBindings
<1> HIDE DEF events, ks, bound
<1> QED BY <1>7, <1>8, FS_Singleton

LEMMA ProgressBegins == ProgressInit => ProgressInv
<1> SUFFICES ASSUME ProgressInit PROVE ProgressInv
  OBVIOUS
<1> USE DEF ProgressInit
<1>1. RowsOfTracks
  BY DEF RowsOfTracks, NoRow
<1>2. ToSet(<<>>) = {}
  BY DEF ToSet
<1>3. \E S : <<>> \in Seq(S)
  BY EmptySeq
<1>4. Len(<<>>) = 0
  BY EmptySeq
<1> QED BY <1>1, <1>2, <1>3, <1>4 DEF ProgressInv, SeenFrames, FusionsSnapped

LEMMA ProgressSteps == ProgressInv /\ [ProgressNext]_eprogvars => ProgressInv'
<1> SUFFICES ASSUME ProgressInv, [ProgressNext]_eprogvars PROVE ProgressInv'
  OBVIOUS
<1>1. ASSUME UNCHANGED eprogvars PROVE ProgressInv'
  <2>1. UNCHANGED <<shot, facts, rows, seen, fusions, story>>
    BY <1>1 DEF eprogvars
  <2> QED BY <2>1 DEF ProgressInv, RowsOfTracks, SeenFrames, FusionsSnapped, Snapped, Grounded
<1> QED BY <1>1, ProgressShowFrame, ProgressLoseStream, ProgressPublish, ProgressWriteLate,
           ProgressSubmit DEF ProgressNext

\* What is appended to an event rests on frames of that event, and the two resolvers
\* never contradict each other: for any objects, any number of frames, events and
\* fusions, any capacity of the registry and any eviction from it.
THEOREM ProgressStaysHonest == ProgressInit /\ [][ProgressNext]_eprogvars => []ProgressHonest
<1>1. ProgressInit => ProgressInv
  BY ProgressBegins
<1>2. ProgressInv /\ [ProgressNext]_eprogvars => ProgressInv'
  BY ProgressSteps
<1>3. ProgressInv => ProgressHonest
  <2> SUFFICES ASSUME ProgressInv PROVE ProgressHonest
    OBVIOUS
  <2>1. ResolversAgree
    BY ResolversNeverDiffer DEF ProgressInv, RowsOfTracks
  <2>2. \A s \in story : Grounded(s)
    BY DEF ProgressInv
  <2> QED BY <2>1, <2>2 DEF ProgressHonest, Grounded
<1> QED BY <1>1, <1>2, <1>3, PTL
-------------------------------------------------------------------------------
(* DesktopSession: the shell and the backends it starts. *)

Phases == {"none", "boot", "setup", "up", "told", "dying", "exited"}
PagesAndEnds == {"navigate", "ready", "ok", "incomplete"}
BackendStates == [at : Phases, code : {0, 1, 3}, said : {"nothing", "ok", "incomplete"},
             out : Seq(PagesAndEnds)]
ReaderStates == [reader : {"none", "reading", "posted", "closed"},
            post : PagesAndEnds \cup {"none", "fault"},
            hs : {"nothing", "ok", "incomplete"}, sent : BOOLEAN]
LaunchStates == [is : {"none", "open", "up", "failed"}, stop : BOOLEAN]
ClientStates == [pc : {"idle", "admit", "spawn", "publish", "tell", "await", "send", "poll"},
          g : 0..MaxGens, why : {"none", "restart", "stop", "elsewhere"}]
WindowStates == [exit : BOOLEAN, ready : BOOLEAN, allowed : SUBSET Gens, pending : 0..MaxGens,
            nav : {"no", "ok", "failed"}]

\* A backend and its reader: what is read was written, and the end it reported is in its
\* pipe or read; a fault is of one that ended without a word.
SaysSo(b, s) ==
    /\ b \in BackendStates /\ s \in ReaderStates
    /\ b.at \in {"none", "boot", "setup", "up"} => b.said = "nothing"
    /\ \A word \in {"ok", "incomplete"} : word \in ToSet(b.out) \/ s.hs = word => b.said = word
    /\ b.said # "nothing" => s.hs = b.said \/ b.said \in ToSet(b.out)
    /\ "ready" \in ToSet(b.out) \/ s.post = "ready" => b.at \notin {"none", "boot", "setup"}
    /\ s.post = "fault" => b.at = "exited" /\ b.said = "nothing"
AllSaySo ==
    /\ service \in [Gens -> BackendStates] /\ gen \in [Gens -> ReaderStates]
    /\ \A g \in Gens : SaysSo(service[g], gen[g])

\* The generations are begun one after the other.
Begun(n) == \A g \in Gens : launch[g].is # "none" <=> g <= n
Roomless == ~(client["ui"].pc = "admit"
              \/ (client["ui"].pc \in {"send", "poll"} /\ client["ui"].why = "restart"))
Attempts ==
    /\ launch \in [Gens -> LaunchStates]
    /\ \E n \in 0..MaxGens : Begun(n) /\ (n < MaxGens \/ Roomless)
    /\ \A g \in Gens :
        /\ launch[g].is = "none" => service[g].at = "none" /\ g # curGen
        /\ launch[g].is = "up" => service[g].at # "none"
    /\ StopReaches

\* Who is at what: only the window starts, and what it started and not published is in the
\* slot; what it stops is the current generation.
WhoDoesWhat ==
    /\ client \in [Clients -> ClientStates]
    /\ client["other"].pc \in {"idle", "await", "send", "poll"}
    /\ client["other"].why \in {"none", "elsewhere"}
    /\ \A c \in Clients : client[c].pc \in {"await", "poll"} => client[c].g # 0
    /\ LET ui == client["ui"]
       IN  /\ ui.pc # "await"
           /\ ui.pc \in {"admit", "spawn", "publish", "tell"} => ui.why \in {"none", "restart"}
           /\ ui.pc \in {"tell", "send", "poll"} => ui.g = curGen
           /\ ui.pc = "tell" => curGen # 0 /\ launch[curGen].is = "open"
           /\ slot # 0 <=> ui.pc \in {"spawn", "publish"}
           /\ slot # 0 => ui.g = slot /\ launch[slot].is = "open"
           /\ ui.pc = "spawn" => service[slot].at = "none"
           /\ ui.pc = "publish" => service[slot].at # "none"
OneLives ==
    /\ slot \in 0..MaxGens /\ curGen \in 0..MaxGens
    /\ \A g \in Gens : Living(g) => g \in {curGen, slot}
    /\ curGen # 0 => service[curGen].at # "none"
    /\ slot # 0 => slot # curGen /\ (curGen = 0 \/ HasExited(curGen))

\* The window, except while a restart has replaced the generation and not yet told it.
Telling == client["ui"].pc = "tell" /\ client["ui"].why = "restart"
WindowKeeps ==
    /\ win \in WindowStates /\ strayed \in BOOLEAN /\ misled = FALSE
    /\ strayed = FALSE => \A g \in Gens : gen[g].reader = "posted" => g = curGen
    /\ strayed = FALSE /\ ~Telling =>
        /\ win.allowed \subseteq {curGen} /\ win.pending \in {0, curGen}
        /\ win.ready => curGen # 0 /\ service[curGen].at \notin {"boot", "setup"}
    /\ client["ui"].pc \in {"admit", "spawn", "publish", "tell"} /\ client["ui"].why = "none" =>
        win.allowed = {} /\ win.pending = 0 /\ win.ready = FALSE
    /\ win.exit => client["ui"].pc = "idle" /\ (curGen = 0 \/ HasExited(curGen))
SessionInv == AllSaySo /\ Attempts /\ WhoDoesWhat /\ OneLives /\ WindowKeeps

LEMMA SessionConstants == MaxGens \in Nat \ {0} /\ Gens = 1..MaxGens /\ 0 \notin Gens
  BY SessionAssumption DEF Gens

\* A backend and what its process does next: the rest of the session does not notice, but
\* for a backend that has ended.
BackendGoes(g, b) ==
    /\ service' = [service EXCEPT ![g] = b] /\ UNCHANGED shellSide
    /\ SaysSo(b, gen[g])
    /\ Living(g) /\ b.at # "none"
    /\ service[g].at \notin {"boot", "setup"} => b.at \notin {"boot", "setup"}
    /\ ~PipesOpen(g) => b.at \in {"dying", "exited"}

LEMMA BackendWrites ==
  ASSUME NEW b \in BackendStates, NEW s, SaysSo(b, s), b.at \in {"boot", "setup"},
         NEW phase \in {"setup", "up"}, NEW lines \in {<<"navigate">>, <<"navigate", "ready">>},
         lines = <<"navigate", "ready">> => phase = "up"
  PROVE  SaysSo([b EXCEPT !.at = phase, !.out = @ \o lines], s)
<1> DEFINE after == [b EXCEPT !.at = phase, !.out = @ \o lines]
<1>1. /\ lines \in Seq(PagesAndEnds)
      /\ ToSet(lines) \subseteq {"navigate", "ready"}
      /\ "ready" \in ToSet(lines) => phase = "up"
  <2>1. CASE lines = <<"navigate">>
    <3>1. lines \in Seq(PagesAndEnds) /\ Len(lines) = 1 /\ lines[1] = "navigate"
      BY <2>1 DEF PagesAndEnds
    <3>2. \A y \in ToSet(lines) : \E i \in 1..1 : y = lines[i]
      BY <3>1 DEF ToSet
    <3>3. ToSet(lines) \subseteq {"navigate"}
      BY <3>1, <3>2
    <3> QED BY <3>1, <3>3
  <2>2. CASE lines = <<"navigate", "ready">>
    <3>1. /\ lines \in Seq(PagesAndEnds) /\ Len(lines) = 2
          /\ lines[1] = "navigate" /\ lines[2] = "ready"
      BY <2>2 DEF PagesAndEnds
    <3>2. \A y \in ToSet(lines) : \E i \in 1..2 : y = lines[i]
      BY <3>1 DEF ToSet
    <3>3. ToSet(lines) \subseteq {"navigate", "ready"}
      BY <3>1, <3>2
    <3> QED BY <2>2, <3>1, <3>3
  <2> QED BY <2>1, <2>2
<1>2. /\ b.out \o lines \in Seq(PagesAndEnds)
      /\ ToSet(b.out \o lines) = ToSet(b.out) \cup ToSet(lines)
  BY <1>1, ConcatFacts DEF BackendStates
<1>3. /\ after.at = phase /\ after.said = b.said /\ after.out = b.out \o lines
      /\ after \in BackendStates
  BY <1>2 DEF BackendStates, Phases
<1> HIDE DEF after
<1>4. /\ b.said = "nothing" /\ s.post # "ready" /\ s.post # "fault" /\ s \in ReaderStates
      /\ "ok" \notin ToSet(b.out) /\ "incomplete" \notin ToSet(b.out) /\ "ready" \notin ToSet(b.out)
      /\ s.hs # "ok" /\ s.hs # "incomplete"
  BY DEF SaysSo
<1>5. "ok" \notin ToSet(after.out) /\ "incomplete" \notin ToSet(after.out)
      /\ ("ready" \in ToSet(after.out) => phase = "up")
  <2>1. ToSet(after.out) = ToSet(b.out) \cup ToSet(lines)
    BY <1>2, <1>3
  <2>2. "ok" \notin ToSet(lines) /\ "incomplete" \notin ToSet(lines)
    BY <1>1
  <2> QED BY <1>1, <1>4, <2>1, <2>2
<1>6. SaysSo(after, s)
  BY <1>3, <1>4, <1>5 DEF SaysSo
<1> QED BY <1>6 DEF after

LEMMA BackendStops ==
  ASSUME NEW b \in BackendStates, NEW s, SaysSo(b, s), b.at \in {"setup", "up"},
         NEW word \in {"ok", "incomplete"}
  PROVE  SaysSo([b EXCEPT !.at = "told", !.said = word, !.code = IF word = "ok" THEN 0 ELSE 3,
                          !.out = Append(@, word)], s)
<1> DEFINE after == [b EXCEPT !.at = "told", !.said = word,
                              !.code = IF word = "ok" THEN 0 ELSE 3, !.out = Append(@, word)]
<1>1. /\ Append(b.out, word) \in Seq(PagesAndEnds)
      /\ ToSet(Append(b.out, word)) = ToSet(b.out) \cup {word}
  BY AppendFacts DEF BackendStates, PagesAndEnds
<1>2. /\ after.at = "told" /\ after.said = word /\ after.out = Append(b.out, word)
      /\ after \in BackendStates
  <2>1. (IF word = "ok" THEN 0 ELSE 3) \in {0, 1, 3}
    OBVIOUS
  <2> QED BY <1>1, <2>1 DEF BackendStates, Phases
<1> HIDE DEF after
<1>3. /\ b.said = "nothing" /\ s.post # "fault" /\ s \in ReaderStates
      /\ "ok" \notin ToSet(b.out) /\ "incomplete" \notin ToSet(b.out)
      /\ s.hs # "ok" /\ s.hs # "incomplete"
  BY DEF SaysSo
<1>4. \A w \in {"ok", "incomplete"} : w \in ToSet(after.out) => w = word
  BY <1>1, <1>2, <1>3
<1>5. word \in ToSet(after.out)
  BY <1>1, <1>2
<1>6. SaysSo(after, s)
  BY <1>2, <1>3, <1>4, <1>5 DEF SaysSo
<1> QED BY <1>6 DEF after

LEMMA BackendEnds ==
  ASSUME NEW b \in BackendStates, NEW s, SaysSo(b, s),
         b.at # "exited",
         NEW phase \in {"dying", "exited"}, NEW n \in {0, 1, 3}
  PROVE  SaysSo([b EXCEPT !.at = phase, !.code = n], s)
<1> DEFINE after == [b EXCEPT !.at = phase, !.code = n]
<1>1. /\ after.at = phase /\ after.said = b.said /\ after.out = b.out /\ after \in BackendStates
  BY DEF BackendStates, Phases
<1> HIDE DEF after
<1>2. SaysSo(after, s)
  BY <1>1 DEF SaysSo
<1> QED BY <1>2 DEF after

LEMMA BackendMoves ==
  ASSUME AllSaySo, NEW g \in Gens, BackendStep(g)
  PROVE  \E b \in BackendStates : BackendGoes(g, b)
<1> DEFINE old == service[g]
<1>1. SaysSo(old, gen[g]) /\ old \in BackendStates
  BY DEF AllSaySo, SaysSo
<1> HIDE DEF old
<1>3. CASE OpenSetup(g)
  <2> DEFINE b == [old EXCEPT !.at = "setup", !.out = @ \o <<"navigate">>]
  <2>1. old.at = "boot" /\ service' = [service EXCEPT ![g] = b] /\ UNCHANGED shellSide
    BY <1>3 DEF OpenSetup, Emits, AllSaySo, old
  <2>2. SaysSo(b, gen[g])
    BY <1>1, <2>1, BackendWrites
  <2>3. b.at = "setup"
    BY <1>1 DEF BackendStates
  <2> HIDE DEF b
  <2>4. BackendGoes(g, b)
    BY <2>1, <2>2, <2>3 DEF BackendGoes, Living, PipesOpen, old
  <2> QED BY <2>2, <2>4 DEF SaysSo
<1>4. CASE HttpReady(g)
  <2> DEFINE b == [old EXCEPT !.at = "up", !.out = @ \o <<"navigate", "ready">>]
  <2>1. old.at \in {"boot", "setup"} /\ service' = [service EXCEPT ![g] = b] /\ UNCHANGED shellSide
    BY <1>4 DEF HttpReady, Emits, AllSaySo, old
  <2>2. SaysSo(b, gen[g])
    BY <1>1, <2>1, BackendWrites
  <2>3. b.at = "up"
    BY <1>1 DEF BackendStates
  <2> HIDE DEF b
  <2>4. BackendGoes(g, b)
    BY <2>1, <2>2, <2>3 DEF BackendGoes, Living, PipesOpen, old
  <2> QED BY <2>2, <2>4 DEF SaysSo
<1>5. ASSUME NEW word \in {"ok", "incomplete"}, old.at \in {"setup", "up"},
             EmitsStopped(g, word), UNCHANGED shellSide
      PROVE  \E b \in BackendStates : BackendGoes(g, b)
  <2> DEFINE b == [old EXCEPT !.at = "told", !.said = word,
                              !.code = IF word = "ok" THEN 0 ELSE 3, !.out = Append(@, word)]
  <2>1. service' = [service EXCEPT ![g] = b]
    BY <1>5 DEF EmitsStopped, AllSaySo, old
  <2>2. SaysSo(b, gen[g])
    BY <1>1, <1>5, BackendStops
  <2>3. b.at = "told"
    BY <1>1 DEF BackendStates
  <2> HIDE DEF b
  <2>4. BackendGoes(g, b)
    BY <1>5, <2>1, <2>2, <2>3 DEF BackendGoes, Living, PipesOpen, old
  <2> QED BY <2>2, <2>4 DEF SaysSo
<1>6. ASSUME NEW phase \in {"dying", "exited"}, NEW n \in {0, 1, 3},
             old.at \notin {"none", "exited"},
             service' = [service EXCEPT ![g] = [old EXCEPT !.at = phase, !.code = n]],
             UNCHANGED shellSide
      PROVE  \E b \in BackendStates : BackendGoes(g, b)
  <2> DEFINE b == [old EXCEPT !.at = phase, !.code = n]
  <2>1. SaysSo(b, gen[g])
    BY <1>1, <1>6, BackendEnds
  <2>2. b.at = phase
    BY <1>1 DEF BackendStates
  <2> HIDE DEF b
  <2>3. BackendGoes(g, b)
    BY <1>6, <2>1, <2>2 DEF BackendGoes, Living, PipesOpen, old, b
  <2> QED BY <2>1, <2>3 DEF SaysSo
<1>7. CASE StopSetup(g) \/ StopRun(g, "ok") \/ StopRun(g, "incomplete")
  BY <1>5, <1>7 DEF StopSetup, StopRun, old
<1>8. CASE SetupFails(g) \/ Dies(g)
  <2>1. /\ old.at \notin {"none", "exited"} /\ UNCHANGED shellSide
        /\ service' = [service EXCEPT ![g] = [old EXCEPT !.at = "dying", !.code = 1]]
    BY <1>8 DEF SetupFails, Dies, PipesOpen, AllSaySo, old
  <2> QED BY <1>6, <2>1
<1>9. CASE Returns(g) \/ EndSignalled(g)
  <2>1. PICK phase \in {"dying", "exited"} :
          /\ old.at \notin {"none", "exited"} /\ UNCHANGED shellSide
          /\ service' = [service EXCEPT ![g] = [old EXCEPT !.at = phase]]
    BY <1>9 DEF Returns, EndSignalled, AllSaySo, old
  <2>2. old.code \in {0, 1, 3} /\ [old EXCEPT !.at = phase] = [old EXCEPT !.at = phase, !.code = old.code]
    BY <1>1 DEF BackendStates
  <2> QED BY <1>6, <2>1, <2>2
<1> QED BY <1>3, <1>4, <1>7, <1>8, <1>9 DEF BackendStep

LEMMA BackendKeeps ==
  ASSUME SessionInv, NEW g \in Gens, NEW b \in BackendStates, BackendGoes(g, b)
  PROVE  SessionInv'
<1> USE DEF SessionInv
<1>1. /\ service' = [service EXCEPT ![g] = b] /\ SaysSo(b, gen[g])
      /\ UNCHANGED <<gen, slot, launch, curGen, client, misled, win, strayed>>
  BY DEF BackendGoes, shellSide
<1>2. /\ DOMAIN service' = Gens /\ service'[g] = b /\ \A h \in Gens \ {g} : service'[h] = service[h]
  BY <1>1 DEF AllSaySo
<1>3. \A h \in Gens :
        /\ service'[h].at = "none" <=> service[h].at = "none"
        /\ Living(h)' => Living(h)
        /\ HasExited(h) => HasExited(h)'
        /\ service[h].at \notin {"boot", "setup"} => service'[h].at \notin {"boot", "setup"}
        /\ ~PipesOpen(h) => ~PipesOpen(h)'
  BY <1>2 DEF BackendGoes, Living, HasExited, PipesOpen
<1>4. AllSaySo'
  BY <1>1, <1>2 DEF AllSaySo
<1>5. Attempts'
  <2>1. (\E n \in 0..MaxGens : Begun(n) /\ (n < MaxGens \/ Roomless))'
    BY <1>1 DEF Attempts, Begun, Roomless
  <2>2. StopReaches'
    BY <1>1, <1>3 DEF Attempts, StopReaches
  <2> QED BY <1>1, <1>3, <2>1, <2>2 DEF Attempts
<1>6. slot \in 0..MaxGens /\ curGen \in 0..MaxGens
      /\ (slot # 0 => slot \in Gens) /\ (curGen # 0 => curGen \in Gens)
  BY SessionConstants DEF OneLives
<1>7. WhoDoesWhat'
  BY <1>1, <1>3, <1>6 DEF WhoDoesWhat
<1>8. OneLives'
  BY <1>1, <1>3, <1>6 DEF OneLives
<1>9. WindowKeeps'
  BY <1>1, <1>3, <1>6 DEF WindowKeeps, Telling
<1> QED BY <1>4, <1>5, <1>7, <1>8, <1>9

\* Goto: one caller goes on, the other stays where it is.
ClientPhases == {"idle", "admit", "spawn", "publish", "tell", "await", "send", "poll"}
LEMMA GoesOn ==
  ASSUME client \in [Clients -> ClientStates], NEW c \in Clients, NEW pc \in ClientPhases, Goto(c, pc)
  PROVE  /\ client' \in [Clients -> ClientStates] /\ client'[c].pc = pc
         /\ pc # "idle" => client'[c].g = client[c].g /\ client'[c].why = client[c].why
         /\ pc = "idle" => client'[c].g = 0 /\ client'[c].why = "none"
         /\ \A d \in Clients \ {c} : client'[d] = client[d]
<1>1. client' = [client EXCEPT ![c] = IF pc = "idle" THEN Idle ELSE [client[c] EXCEPT !.pc = pc]]
  BY DEF Goto
<1>2. client[c] \in ClientStates
  OBVIOUS
<1>3. CASE pc = "idle"
  <2>1. Idle \in ClientStates
    BY SessionConstants DEF Idle, ClientStates
  <2>2. client' = [client EXCEPT ![c] = Idle]
    BY <1>1, <1>3
  <2> QED BY <1>3, <2>1, <2>2 DEF Idle
<1>4. CASE pc # "idle"
  <2> DEFINE on == [client[c] EXCEPT !.pc = pc]
  <2>1. on \in ClientStates /\ on.pc = pc /\ on.g = client[c].g /\ on.why = client[c].why
    BY <1>2 DEF ClientStates, ClientPhases
  <2>2. client' = [client EXCEPT ![c] = on]
    BY <1>1, <1>4
  <2> HIDE DEF on
  <2> QED BY <1>4, <2>1, <2>2
<1> QED BY <1>3, <1>4

LEMMA TwoClients == Clients = {"ui", "other"} /\ "ui" \in Clients /\ "other" \in Clients
  BY DEF Clients

\* A wait that ends: a restart goes on, the window exits, only with no backend left.
LEMMA ConcludesKeeps ==
  ASSUME SessionInv, NEW c \in Clients, client[c].pc \in {"await", "send", "poll"}, NEW outcome,
         Concludes(c, outcome),
         outcome = "normal" => /\ service[client[c].g].said = "ok"
                               /\ service[client[c].g].at = "exited"
                               /\ service[client[c].g].code = 0,
         c = "ui" /\ outcome \in Done => curGen = 0 \/ HasExited(curGen),
         UNCHANGED <<gen, slot, launch, curGen, strayed, service>>
  PROVE  SessionInv'
<1> USE DEF SessionInv
<1> DEFINE goesTo == IF outcome \in Done /\ client[c].why = "restart" THEN "admit" ELSE "idle"
<1>1. /\ Goto(c, goesTo)
      /\ win' = [win EXCEPT !.exit = @ \/ (outcome \in Done /\ client[c].why = "stop")]
      /\ misled' = misled
  BY DEF Concludes, WindowKeeps
<1>2. goesTo \in ClientPhases /\ client \in [Clients -> ClientStates]
  BY DEF ClientPhases, WhoDoesWhat
<1> HIDE DEF goesTo
<1>3. /\ client' \in [Clients -> ClientStates] /\ client'[c].pc = goesTo
      /\ goesTo # "idle" => client'[c].g = client[c].g /\ client'[c].why = client[c].why
      /\ goesTo = "idle" => client'[c].g = 0 /\ client'[c].why = "none"
      /\ \A d \in Clients \ {c} : client'[d] = client[d]
  BY <1>1, <1>2, GoesOn
<1>4. /\ goesTo \in {"admit", "idle"}
      /\ goesTo = "admit" => client[c].why = "restart" /\ outcome \in Done
  BY DEF goesTo
<1>5. AllSaySo'
  BY DEF AllSaySo
<1>6. OneLives'
  BY DEF OneLives, Living, HasExited
<1>7. win'.exit <=> (win.exit \/ (outcome \in Done /\ client[c].why = "stop"))
  BY <1>1 DEF WindowKeeps, WindowStates
<1>8. /\ win' \in WindowStates /\ win'.allowed = win.allowed /\ win'.pending = win.pending
      /\ win'.ready = win.ready
  BY <1>1 DEF WindowKeeps, WindowStates
<1>9. CASE c = "ui"
  <2>1. /\ client'["other"] = client["other"] /\ client'["ui"].pc = goesTo
        /\ client["ui"].pc \in {"send", "poll"} /\ slot = 0 /\ win.exit = FALSE
    BY <1>3, <1>9, TwoClients DEF WhoDoesWhat, WindowKeeps, WindowStates
  <2>2. Attempts'
    <3>1. PICK n \in 0..MaxGens : Begun(n) /\ (n < MaxGens \/ Roomless)
      BY DEF Attempts
    <3>2. n < MaxGens \/ Roomless'
      BY <1>4, <1>9, <2>1, <3>1 DEF Roomless
    <3>3. Begun(n)'
      BY <3>1 DEF Begun
    <3>4. StopReaches'
      BY DEF Attempts, StopReaches, PipesOpen
    <3> QED BY <3>2, <3>3, <3>4 DEF Attempts
  <2>3. WhoDoesWhat'
    BY <1>3, <1>4, <1>9, <2>1, TwoClients DEF WhoDoesWhat
  <2>4. WindowKeeps'
    BY <1>1, <1>3, <1>4, <1>7, <1>8, <1>9, <2>1 DEF WindowKeeps, Telling, HasExited
  <2> QED BY <1>5, <1>6, <2>2, <2>3, <2>4
<1>10. CASE c = "other"
  <2>1. /\ client'["ui"] = client["ui"] /\ client'["other"].pc = goesTo
        /\ client["other"].why \in {"none", "elsewhere"} /\ goesTo = "idle"
        /\ client'["other"].why = "none"
    BY <1>3, <1>4, <1>10, TwoClients DEF WhoDoesWhat
  <2>2. Attempts'
    BY <2>1 DEF Attempts, StopReaches, PipesOpen, Begun, Roomless
  <2>3. WhoDoesWhat'
    BY <1>3, <1>10, <2>1, TwoClients DEF WhoDoesWhat
  <2>4. WindowKeeps'
    BY <1>1, <1>7, <1>8, <1>10, <2>1 DEF WindowKeeps, Telling, HasExited
  <2> QED BY <1>5, <1>6, <2>2, <2>3, <2>4
<1> QED BY <1>9, <1>10, TwoClients

\* A reader goes on: nothing is forgotten, and only the reader of the current generation
\* comes to wait for the window.
LEMMA ReaderKeeps ==
  ASSUME SessionInv, NEW g \in Gens, NEW b, NEW s,
         service' = [service EXCEPT ![g] = b], gen' = [gen EXCEPT ![g] = s],
         SaysSo(b, s), b.at = service[g].at,
         gen[g].sent => s.sent, gen[g].hs # "nothing" => s.hs # "nothing",
         s.reader = "posted" => g = curGen \/ gen[g].reader = "posted",
         UNCHANGED <<slot, launch, curGen, client, misled, strayed>>
  PROVE  /\ AllSaySo' /\ Attempts' /\ WhoDoesWhat' /\ OneLives'
         /\ win' = win => WindowKeeps'
<1> USE DEF SessionInv
<1>1. /\ DOMAIN service' = Gens /\ service'[g] = b /\ \A h \in Gens \ {g} : service'[h] = service[h]
      /\ DOMAIN gen' = Gens /\ gen'[g] = s /\ \A h \in Gens \ {g} : gen'[h] = gen[h]
  BY DEF AllSaySo
<1>2. \A h \in Gens : service'[h].at = service[h].at
  BY <1>1
<1>3. \A h \in Gens : Living(h)' = Living(h) /\ HasExited(h)' = HasExited(h)
                      /\ PipesOpen(h)' = PipesOpen(h)
  BY <1>2 DEF Living, HasExited, PipesOpen
<1>4. AllSaySo'
  <2>1. b \in BackendStates /\ s \in ReaderStates
    BY DEF SaysSo
  <2>2. service' \in [Gens -> BackendStates] /\ gen' \in [Gens -> ReaderStates]
    BY <2>1 DEF AllSaySo
  <2> QED BY <1>1, <2>2 DEF AllSaySo
<1>5. Attempts'
  <2>1. (\E n \in 0..MaxGens : Begun(n) /\ (n < MaxGens \/ Roomless))'
    BY DEF Attempts, Begun, Roomless
  <2>2. StopReaches'
    BY <1>1, <1>3 DEF Attempts, StopReaches
  <2> QED BY <1>2, <2>1, <2>2 DEF Attempts
<1>6. slot \in 0..MaxGens /\ curGen \in 0..MaxGens
      /\ (slot # 0 => slot \in Gens) /\ (curGen # 0 => curGen \in Gens)
  BY SessionConstants DEF OneLives
<1>7. WhoDoesWhat'
  BY <1>2, <1>6 DEF WhoDoesWhat
<1>8. OneLives'
  BY <1>2, <1>3, <1>6 DEF OneLives
<1>9. ASSUME win' = win PROVE WindowKeeps'
  BY <1>1, <1>2, <1>3, <1>6, <1>9 DEF WindowKeeps, Telling
<1> QED BY <1>4, <1>5, <1>7, <1>8, <1>9

LEMMA LineKeeps == ASSUME SessionInv, NEW g \in Gens, HandleLine(g) PROVE SessionInv'
<1> USE DEF SessionInv
<1> DEFINE said == Head(service[g].out)
           over == Hands(g, said, "reading")
           s == IF said \in {"ok", "incomplete"} THEN [over EXCEPT !.hs = said] ELSE over
           b == [service[g] EXCEPT !.out = Tail(@)]
<1>1. /\ gen[g].reader = "reading" /\ service[g].out # <<>>
      /\ gen' = [gen EXCEPT ![g] = s] /\ service' = [service EXCEPT ![g] = b]
      /\ UNCHANGED <<slot, launch, curGen, client, misled, win, strayed>>
  BY DEF HandleLine
<1>2. SaysSo(service[g], gen[g]) /\ service[g] \in BackendStates /\ gen[g] \in ReaderStates
  BY DEF AllSaySo
<1>3. /\ said \in ToSet(service[g].out) /\ Tail(service[g].out) \in Seq(PagesAndEnds)
      /\ ToSet(service[g].out) = {said} \cup ToSet(Tail(service[g].out))
      /\ said \in PagesAndEnds
  <2>1. service[g].out \in Seq(PagesAndEnds)
    BY <1>2 DEF BackendStates
  <2> QED BY <1>1, <2>1, LineFacts
<1>4. /\ b \in BackendStates /\ b.at = service[g].at /\ b.said = service[g].said
      /\ b.out = Tail(service[g].out)
  BY <1>2, <1>3 DEF BackendStates
<1> HIDE DEF said, b
<1>5. over = [gen[g] EXCEPT !.post = IF IsCurrentGen(g) THEN said ELSE "none",
                            !.reader = IF IsCurrentGen(g) THEN "posted" ELSE "reading"]
  BY DEF Hands
<1>6. /\ over \in ReaderStates /\ over.hs = gen[g].hs /\ over.sent = gen[g].sent
      /\ over.post \in {said, "none"} /\ (over.reader = "posted" => g = curGen)
  <2>1. (IF IsCurrentGen(g) THEN said ELSE "none") \in PagesAndEnds \cup {"none", "fault"}
    BY <1>3
  <2>2. (IF IsCurrentGen(g) THEN "posted" ELSE "reading") \in {"none", "reading", "posted", "closed"}
    OBVIOUS
  <2> HIDE DEF over
  <2> QED BY <1>2, <1>5, <2>1, <2>2 DEF ReaderStates, IsCurrentGen
<1> HIDE DEF over
<1>7. /\ s \in ReaderStates /\ s.sent = gen[g].sent
      /\ s.hs = IF said \in {"ok", "incomplete"} THEN said ELSE gen[g].hs
      /\ s.post \in {said, "none"} /\ (s.reader = "posted" => g = curGen)
  BY <1>6 DEF ReaderStates
<1> HIDE DEF s
<1>8. SaysSo(b, s)
  <2>1. b.at \in {"none", "boot", "setup", "up"} => b.said = "nothing"
    BY <1>2, <1>4 DEF SaysSo
  <2>2. \A word \in {"ok", "incomplete"} : word \in ToSet(b.out) \/ s.hs = word => b.said = word
    BY <1>2, <1>3, <1>4, <1>7 DEF SaysSo
  <2>3. b.said # "nothing" => s.hs = b.said \/ b.said \in ToSet(b.out)
    <3>1. CASE said \in {"ok", "incomplete"}
      BY <1>2, <1>3, <1>4, <1>7, <3>1 DEF SaysSo
    <3>2. CASE said \notin {"ok", "incomplete"}
      <4>1. service[g].said # "nothing" => service[g].said \in {"ok", "incomplete"}
        BY <1>2 DEF BackendStates
      <4> QED BY <1>2, <1>3, <1>4, <1>7, <3>2, <4>1 DEF SaysSo
    <3> QED BY <3>1, <3>2
  <2>4. "ready" \in ToSet(b.out) \/ s.post = "ready" => b.at \notin {"none", "boot", "setup"}
    BY <1>2, <1>3, <1>4, <1>7 DEF SaysSo
  <2>5. s.post # "fault"
    BY <1>3, <1>7 DEF PagesAndEnds
  <2> QED BY <1>4, <1>7, <2>1, <2>2, <2>3, <2>4, <2>5 DEF SaysSo
<1>9. gen[g].hs # "nothing" => s.hs # "nothing"
  BY <1>7
<1> QED BY <1>1, <1>4, <1>7, <1>8, <1>9, ReaderKeeps

LEMMA PipeKeeps == ASSUME SessionInv, NEW g \in Gens, EndOfPipe(g) PROVE SessionInv'
<1> USE DEF SessionInv
<1> DEFINE s == IF gen[g].hs = "nothing" /\ HasExited(g)
                THEN Hands(g, "fault", "closed") ELSE [gen[g] EXCEPT !.reader = "closed"]
<1>1. /\ gen[g].reader = "reading" /\ service[g].out = <<>>
      /\ gen' = [gen EXCEPT ![g] = s] /\ service' = service
      /\ UNCHANGED <<slot, launch, curGen, client, misled, win, strayed>>
  BY DEF EndOfPipe
<1>2. SaysSo(service[g], gen[g]) /\ service[g] \in BackendStates /\ gen[g] \in ReaderStates
  BY DEF AllSaySo
<1>3. service' = [service EXCEPT ![g] = service[g]]
  BY <1>1 DEF AllSaySo
<1>4. ToSet(service[g].out) = {}
  BY <1>1 DEF ToSet
<1>5. CASE gen[g].hs = "nothing" /\ HasExited(g)
  <2>1. s = [gen[g] EXCEPT !.post = IF IsCurrentGen(g) THEN "fault" ELSE "none",
                           !.reader = IF IsCurrentGen(g) THEN "posted" ELSE "closed"]
    BY <1>5 DEF Hands
  <2>2. (IF IsCurrentGen(g) THEN "fault" ELSE "none") \in PagesAndEnds \cup {"none", "fault"}
    OBVIOUS
  <2>3. (IF IsCurrentGen(g) THEN "posted" ELSE "closed") \in {"none", "reading", "posted", "closed"}
    OBVIOUS
  <2> HIDE DEF s
  <2>4. /\ s \in ReaderStates /\ s.hs = "nothing" /\ s.sent = gen[g].sent
        /\ s.post \in {"fault", "none"} /\ (s.reader = "posted" => g = curGen)
    BY <1>2, <1>5, <2>1, <2>2, <2>3 DEF ReaderStates, IsCurrentGen
  <2>5. service[g].said = "nothing" /\ service[g].at = "exited"
    BY <1>2, <1>4, <1>5 DEF SaysSo, HasExited
  <2>6. SaysSo(service[g], s)
    BY <1>2, <1>4, <2>4, <2>5 DEF SaysSo
  <2> QED BY <1>1, <1>3, <1>5, <2>4, <2>6, ReaderKeeps
<1>6. CASE ~(gen[g].hs = "nothing" /\ HasExited(g))
  <2>1. s = [gen[g] EXCEPT !.reader = "closed"]
    BY <1>6
  <2> HIDE DEF s
  <2>2. /\ s \in ReaderStates /\ s.hs = gen[g].hs /\ s.sent = gen[g].sent
        /\ s.post = gen[g].post /\ s.reader = "closed"
    BY <1>2, <2>1 DEF ReaderStates
  <2>3. SaysSo(service[g], s)
    BY <1>2, <2>2 DEF SaysSo
  <2> QED BY <1>1, <1>3, <2>2, <2>3, ReaderKeeps
<1> QED BY <1>5, <1>6

LEMMA DispatchKeeps == ASSUME SessionInv, NEW g \in Gens, Dispatch(g) PROVE SessionInv'
<1> USE DEF SessionInv
<1> DEFINE what == gen[g].post
           next == IF gen[g].post = "fault" THEN "closed" ELSE "reading"
           s == [gen[g] EXCEPT !.post = "none", !.reader = next]
<1>1. /\ gen[g].reader = "posted" /\ UiFree /\ win' = Handles(win, g, what)
      /\ gen' = [gen EXCEPT ![g] = s] /\ service' = service
      /\ UNCHANGED <<slot, launch, curGen, client, misled, strayed>>
  BY DEF Dispatch
<1>2. SaysSo(service[g], gen[g]) /\ service[g] \in BackendStates /\ gen[g] \in ReaderStates
  BY DEF AllSaySo
<1>3. service' = [service EXCEPT ![g] = service[g]]
  BY <1>1 DEF AllSaySo
<1>4. next \in {"closed", "reading"}
  OBVIOUS
<1> HIDE DEF next
<1>5. /\ s \in ReaderStates /\ s.hs = gen[g].hs /\ s.sent = gen[g].sent
      /\ s.post = "none" /\ s.reader # "posted"
  BY <1>2, <1>4 DEF ReaderStates
<1> HIDE DEF s
<1>6. SaysSo(service[g], s)
  BY <1>2, <1>5 DEF SaysSo
<1>7. AllSaySo' /\ Attempts' /\ WhoDoesWhat' /\ OneLives'
  BY <1>1, <1>3, <1>5, <1>6, ReaderKeeps
<1>8. /\ win' \in WindowStates /\ win'.exit = win.exit
      /\ win'.allowed \subseteq win.allowed \cup {g}
      /\ win'.pending \in {win.pending, g}
      /\ win'.ready => win.ready \/ what = "ready"
  <2>1. win \in WindowStates /\ g \in 0..MaxGens
    BY SessionConstants DEF WindowKeeps
  <2>2. CASE what = "navigate"
    <3>1. win' = [win EXCEPT !.allowed = @ \cup {g}, !.pending = IF win.nav = "ok" THEN @ ELSE g]
      BY <1>1, <2>2 DEF Handles
    <3> QED BY <2>1, <3>1 DEF WindowStates
  <2>3. CASE what = "ready"
    <3>1. win' = [win EXCEPT !.allowed = @ \cup {g}, !.ready = TRUE]
      BY <1>1, <2>3 DEF Handles
    <3> QED BY <2>1, <2>3, <3>1 DEF WindowStates
  <2>4. CASE what = "fault"
    <3>1. win' = [win EXCEPT !.ready = FALSE]
      BY <1>1, <2>4 DEF Handles
    <3> QED BY <2>1, <3>1 DEF WindowStates
  <2>5. CASE what \notin {"navigate", "ready", "fault"}
    <3>1. win' = win
      BY <1>1, <2>5 DEF Handles
    <3> QED BY <2>1, <3>1 DEF WindowStates
  <2> QED BY <2>2, <2>3, <2>4, <2>5
<1>9. what = "ready" => service[g].at \notin {"boot", "setup"}
  BY <1>2 DEF SaysSo
<1>10. \A h \in Gens : gen'[h].reader = "posted" => gen[h].reader = "posted"
  BY <1>1, <1>5 DEF AllSaySo
<1>11. client["ui"].pc \notin {"admit", "spawn", "publish", "tell"}
  BY <1>1 DEF UiFree
<1>12. strayed = FALSE => g = curGen /\ curGen # 0
  BY <1>1, SessionConstants DEF WindowKeeps
<1>13. WindowKeeps'
  BY <1>1, <1>8, <1>9, <1>10, <1>11, <1>12 DEF WindowKeeps, Telling, HasExited
<1> QED BY <1>7, <1>13

\* The window's own steps: what it knows is of the current generation or nothing.
LEMMA WindowOnly ==
  ASSUME SessionInv, UNCHANGED <<gen, slot, launch, curGen, client, misled, strayed, service>>,
         win' \in WindowStates, win'.exit = win.exit, win'.allowed = win.allowed,
         win'.pending \in {0, win.pending}, win'.ready => win.ready
  PROVE  SessionInv'
<1> USE DEF SessionInv
<1>1. AllSaySo' /\ OneLives'
  BY DEF AllSaySo, OneLives, Living, HasExited
<1>2. Attempts'
  BY DEF Attempts, StopReaches, PipesOpen, Begun, Roomless
<1>3. WhoDoesWhat'
  BY DEF WhoDoesWhat
<1>4. WindowKeeps'
  BY DEF WindowKeeps, WindowStates, Telling, HasExited
<1> QED BY <1>1, <1>2, <1>3, <1>4

\* BeginWait, RestartBackend and a view that fails: a caller begins to wait.
LEMMA WaitBegins ==
  ASSUME SessionInv, NEW c \in Clients, NEW w, NEW marked,
         client[c].pc = "idle", win.exit = FALSE,
         client' = [client EXCEPT ![c] = w], w \in ClientStates,
         c = "ui" => /\ w.pc \in {"send", "admit"} /\ w.why \in {"restart", "stop"}
                     /\ w.pc = "send" => w.g = curGen
                     /\ w.pc = "admit" => w.why = "restart"
                     /\ w.why = "restart" => NextGen <= MaxGens,
         c = "other" => /\ w.pc \in {"send", "await"} /\ w.why = "elsewhere"
                        /\ w.pc = "await" => w.g # 0,
         launch' = marked,
         marked = launch \/ (slot # 0 /\ marked = [launch EXCEPT ![slot].stop = TRUE]),
         UNCHANGED <<gen, slot, curGen, misled, strayed, service>>,
         win' \in WindowStates, win'.exit = win.exit, win'.allowed = win.allowed,
         win'.pending = win.pending, win'.ready => win.ready
  PROVE  SessionInv'
<1> USE DEF SessionInv
<1>1. /\ client \in [Clients -> ClientStates] /\ client' \in [Clients -> ClientStates]
      /\ client'[c] = w /\ \A d \in Clients \ {c} : client'[d] = client[d]
  BY DEF WhoDoesWhat
<1>2. AllSaySo' /\ OneLives'
  BY DEF AllSaySo, OneLives, Living, HasExited
<1>3. /\ launch' \in [Gens -> LaunchStates] /\ \A g \in Gens : launch'[g].is = launch[g].is
      /\ \A g \in Gens : launch[g].is = "up" => launch'[g].stop = launch[g].stop
  <2>1. launch \in [Gens -> LaunchStates]
    BY DEF Attempts
  <2>2. slot # 0 => slot \in Gens /\ launch[slot].is = "open"
    BY SessionConstants DEF OneLives, WhoDoesWhat
  <2> QED BY <2>1, <2>2 DEF LaunchStates
<1>4. PICK n \in 0..MaxGens : Begun(n) /\ (n < MaxGens \/ Roomless)
  BY DEF Attempts
<1>5. Cardinality({g \in Gens : launch[g].is # "none"}) = n
  <2>1. {g \in Gens : launch[g].is # "none"} = 1..n
    BY <1>4, SessionConstants DEF Begun
  <2>2. Cardinality(1..n) = n
    BY SessionConstants, FS_Interval
  <2> QED BY <2>1, <2>2
<1>6. NextGen <= MaxGens => n < MaxGens
  BY <1>5, SessionConstants DEF NextGen
<1>7. Attempts'
  <2>1. Begun(n)'
    BY <1>3, <1>4 DEF Begun
  <2>2. n < MaxGens \/ Roomless'
    BY <1>1, <1>4, <1>6, TwoClients DEF Roomless
  <2>3. StopReaches'
    BY <1>3 DEF Attempts, StopReaches, PipesOpen
  <2> QED BY <1>3, <2>1, <2>2, <2>3 DEF Attempts
<1>8. c = "ui" => slot = 0
  BY DEF WhoDoesWhat
<1>9. /\ slot \in 0..MaxGens /\ curGen \in 0..MaxGens
      /\ (slot # 0 => slot \in Gens) /\ (curGen # 0 => curGen \in Gens)
  BY SessionConstants DEF OneLives
<1>10. WhoDoesWhat'
  <2>1. CASE c = "ui"
    BY <1>1, <1>3, <1>8, <1>9, <2>1, TwoClients DEF WhoDoesWhat
  <2>2. CASE c = "other"
    BY <1>1, <1>3, <1>9, <2>2, TwoClients DEF WhoDoesWhat
  <2> QED BY <2>1, <2>2, TwoClients
<1>11. WindowKeeps'
  <2>1. CASE c = "ui"
    BY <1>1, <2>1, TwoClients DEF WindowKeeps, WindowStates, Telling, HasExited
  <2>2. CASE c = "other"
    BY <1>1, <2>2, TwoClients DEF WindowKeeps, WindowStates, Telling, HasExited
  <2> QED BY <2>1, <2>2, TwoClients
<1> QED BY <1>2, <1>7, <1>10, <1>11

LEMMA BeginWaitKeeps ==
  ASSUME SessionInv, NEW c \in Clients, NEW why, BeginWait(c, why),
         c = "ui" => why \in {"stop", "restart"} /\ (why = "restart" => NextGen <= MaxGens),
         c = "other" => why = "elsewhere"
  PROVE  SessionInv'
<1> DEFINE w == [pc |-> IF slot # 0 THEN "await" ELSE "send", why |-> why,
                 g |-> IF slot # 0 THEN slot ELSE curGen]
           marked == IF slot # 0 THEN [launch EXCEPT ![slot].stop = TRUE] ELSE launch
<1>1. /\ client[c].pc = "idle" /\ win.exit = FALSE
      /\ client' = [client EXCEPT ![c] = w] /\ launch' = marked
      /\ UNCHANGED <<gen, slot, curGen, misled, win, strayed, service>>
  BY DEF BeginWait, SessionInv, WindowKeeps, WindowStates
<1>2. slot \in 0..MaxGens /\ curGen \in 0..MaxGens /\ (c = "ui" => slot = 0)
  BY <1>1 DEF SessionInv, OneLives, WhoDoesWhat
<1>3. why \in {"restart", "stop", "elsewhere"}
  BY TwoClients
<1>4. w \in ClientStates
  BY <1>2, <1>3 DEF ClientStates
<1>5. /\ w.pc = (IF slot # 0 THEN "await" ELSE "send") /\ w.why = why
      /\ w.g = (IF slot # 0 THEN slot ELSE curGen)
  OBVIOUS
<1>6. marked = launch \/ (slot # 0 /\ marked = [launch EXCEPT ![slot].stop = TRUE])
  OBVIOUS
<1> HIDE DEF w, marked
<1>7. /\ win' \in WindowStates /\ win'.exit = win.exit /\ win'.allowed = win.allowed
      /\ win'.pending = win.pending /\ (win'.ready => win.ready)
  BY <1>1 DEF SessionInv, WindowKeeps
<1>8. c = "ui" => /\ w.pc \in {"send", "admit"} /\ w.why \in {"restart", "stop"}
                  /\ w.pc = "send" => w.g = curGen
                  /\ w.pc = "admit" => w.why = "restart"
                  /\ w.why = "restart" => NextGen <= MaxGens
  BY <1>2, <1>5
<1>9. c = "other" => /\ w.pc \in {"send", "await"} /\ w.why = "elsewhere"
                     /\ w.pc = "await" => w.g # 0
  BY <1>5
<1> QED BY <1>1, <1>4, <1>6, <1>7, <1>8, <1>9, WaitBegins

LEMMA WindowStepsKeep ==
  ASSUME SessionInv,
         RestartBackend \/ StopCore \/ StopAndWaitElsewhere \/ NavigationReady \/ ViewFails
  PROVE  SessionInv'
<1>1. win \in WindowStates /\ curGen \in 0..MaxGens /\ launch \in [Gens -> LaunchStates]
  BY DEF SessionInv, WindowKeeps, OneLives, Attempts
<1>2. CASE RestartBackend
  <2>1. CASE curGen = 0 \/ HasExited(curGen)
    <3> DEFINE w == [client["ui"] EXCEPT !.pc = "admit", !.why = "restart"]
    <3>1. /\ client["ui"].pc = "idle" /\ win.exit = FALSE /\ NextGen <= MaxGens
          /\ client' = [client EXCEPT !["ui"] = [@ EXCEPT !.pc = "admit", !.why = "restart"]]
          /\ UNCHANGED <<gen, slot, launch, curGen, misled, win, strayed, service>>
      BY <1>1, <1>2, <2>1 DEF RestartBackend, WindowStates
    <3>2. w \in ClientStates /\ w.pc = "admit" /\ w.why = "restart"
      BY TwoClients DEF SessionInv, WhoDoesWhat, ClientStates
    <3>3. client' = [client EXCEPT !["ui"] = w]
      BY <3>1, TwoClients DEF SessionInv, WhoDoesWhat
    <3> HIDE DEF w
    <3>4. "ui" # "other"
      OBVIOUS
    <3> QED BY <1>1, <3>1, <3>2, <3>3, <3>4, TwoClients, WaitBegins
  <2>2. CASE ~(curGen = 0 \/ HasExited(curGen))
    <3>1. BeginWait("ui", "restart") /\ NextGen <= MaxGens
      BY <1>2, <2>2 DEF RestartBackend
    <3> QED BY <3>1, TwoClients, BeginWaitKeeps
  <2> QED BY <2>1, <2>2
<1>3. CASE StopCore
  BY <1>3, TwoClients, BeginWaitKeeps DEF StopCore
<1>4. CASE StopAndWaitElsewhere
  BY <1>4, TwoClients, BeginWaitKeeps DEF StopAndWaitElsewhere
<1>5. CASE NavigationReady
  <2>1. /\ win' = [win EXCEPT !.nav = "ok", !.pending = 0]
        /\ UNCHANGED <<gen, slot, launch, curGen, client, misled, strayed, service>>
    BY <1>5 DEF NavigationReady
  <2>2. /\ win' \in WindowStates /\ win'.exit = win.exit /\ win'.allowed = win.allowed
        /\ win'.pending = 0 /\ win'.ready = win.ready
    <3>1. 0 \in 0..MaxGens
      BY SessionConstants
    <3> QED BY <1>1, <2>1, <3>1 DEF WindowStates
  <2> QED BY <2>1, <2>2, WindowOnly
<1>6. CASE ViewFails
  <2>1. /\ win' = [win EXCEPT !.nav = "failed", !.ready = FALSE] /\ win.exit = FALSE
        /\ UNCHANGED <<gen, slot, launch, curGen, misled, strayed, service>>
    BY <1>1, <1>6 DEF ViewFails, WindowStates
  <2>2. /\ win' \in WindowStates /\ win'.exit = win.exit /\ win'.allowed = win.allowed
        /\ win'.pending = win.pending /\ win'.ready = FALSE
    BY <1>1, <2>1 DEF WindowStates
  <2>3. CASE client["ui"].pc = "idle"
    <3> DEFINE w == [pc |-> "send", g |-> curGen, why |-> "stop"]
    <3>1. client' = [client EXCEPT !["ui"] = w]
      BY <1>6, <2>3 DEF ViewFails
    <3>2. w \in ClientStates /\ w.pc = "send" /\ w.g = curGen /\ w.why = "stop"
      BY <1>1 DEF ClientStates
    <3> HIDE DEF w
    <3>3. "ui" # "other"
      OBVIOUS
    <3> QED BY <2>1, <2>2, <2>3, <3>1, <3>2, <3>3, TwoClients, WaitBegins
  <2>4. CASE client["ui"].pc # "idle"
    <3>1. client' = client
      BY <1>6, <2>4 DEF ViewFails
    <3> QED BY <2>1, <2>2, <3>1, WindowOnly
  <2> QED BY <2>3, <2>4
<1> QED BY <1>2, <1>3, <1>4, <1>5, <1>6

LEMMA MarkKeeps == ASSUME SessionInv, StopFromElsewhere PROVE SessionInv'
<1> USE DEF SessionInv
<1>1. /\ slot # 0 /\ launch' = [launch EXCEPT ![slot].stop = TRUE]
      /\ UNCHANGED <<gen, slot, curGen, client, misled, win, strayed, service>>
  BY DEF StopFromElsewhere
<1>2. slot \in Gens /\ launch[slot].is = "open" /\ launch \in [Gens -> LaunchStates]
  BY <1>1, SessionConstants DEF OneLives, WhoDoesWhat, Attempts
<1>3. /\ launch' \in [Gens -> LaunchStates] /\ \A g \in Gens : launch'[g].is = launch[g].is
      /\ \A g \in Gens : launch[g].is = "up" => launch'[g].stop = launch[g].stop
  BY <1>1, <1>2 DEF LaunchStates
<1>4. AllSaySo' /\ OneLives'
  BY <1>1 DEF AllSaySo, OneLives, Living, HasExited
<1>5. Attempts'
  <2>1. (\E n \in 0..MaxGens : Begun(n) /\ (n < MaxGens \/ Roomless))'
    BY <1>1, <1>3 DEF Attempts, Begun, Roomless
  <2>2. StopReaches'
    BY <1>1, <1>3 DEF Attempts, StopReaches, PipesOpen
  <2> QED BY <1>1, <1>3, <2>1, <2>2 DEF Attempts
<1>6. curGen # 0 => curGen \in Gens
  BY SessionConstants DEF OneLives
<1>7. WhoDoesWhat' /\ WindowKeeps'
  BY <1>1, <1>2, <1>3, <1>6 DEF WhoDoesWhat, WindowKeeps, Telling, HasExited
<1> QED BY <1>4, <1>5, <1>7

\* RequestStop: the command is in the pipe, or there is none to write to, or no need.
LEMMA StopWritten ==
  ASSUME AllSaySo, NEW g \in Gens, WriteStop(g), service' = service
  PROVE  /\ AllSaySo'
         /\ \A h \in Gens : /\ gen'[h].hs = gen[h].hs /\ gen'[h].reader = gen[h].reader
                            /\ gen[h].sent => gen'[h].sent
         /\ gen'[g].sent \/ gen'[g].hs # "nothing" \/ ~PipesOpen(g)
<1> DEFINE sends == gen[g].sent \/ (gen[g].hs = "nothing" /\ PipesOpen(g))
           s == [gen[g] EXCEPT !.sent = sends]
<1>1. gen' = [gen EXCEPT ![g] = s]
  BY DEF WriteStop, AllSaySo
<1>2. gen[g] \in ReaderStates /\ sends \in BOOLEAN
  BY DEF AllSaySo
<1> HIDE DEF sends
<1>3. /\ s \in ReaderStates /\ s.hs = gen[g].hs /\ s.reader = gen[g].reader
      /\ s.post = gen[g].post /\ s.sent = sends
  BY <1>2 DEF ReaderStates
<1> HIDE DEF s
<1>4. gen' \in [Gens -> ReaderStates] /\ gen'[g] = s /\ \A h \in Gens \ {g} : gen'[h] = gen[h]
  BY <1>1, <1>3 DEF AllSaySo
<1>5. SaysSo(service[g], s)
  BY <1>3 DEF AllSaySo, SaysSo
<1>6. AllSaySo'
  BY <1>4, <1>5 DEF AllSaySo
<1> QED BY <1>3, <1>4, <1>6 DEF sends

LEMMA WaitsKeep ==
  ASSUME SessionInv, NEW c \in Clients,
         AwaitLaunch(c) \/ LaunchTooLong(c) \/ SendStop(c) \/ Settle(c) \/ Deadline(c)
  PROVE  SessionInv'
<1> USE DEF SessionInv
<1>0. /\ curGen \in 0..MaxGens /\ (curGen # 0 => curGen \in Gens)
      /\ client \in [Clients -> ClientStates] /\ client[c].g \in 0..MaxGens
      /\ (client[c].g # 0 => client[c].g \in Gens)
  BY SessionConstants DEF OneLives, WhoDoesWhat, ClientStates
<1>1. CASE LaunchTooLong(c)
  BY <1>1, ConcludesKeeps DEF LaunchTooLong, Done
<1>2. CASE Deadline(c)
  BY <1>2, ConcludesKeeps DEF Deadline, Done
<1>3. CASE AwaitLaunch(c)
  <2>1. c = "other" /\ client[c].pc = "await"
    BY <1>3, TwoClients DEF AwaitLaunch, WhoDoesWhat
  <2>2. UNCHANGED <<gen, slot, launch, curGen, strayed, service>>
    BY <1>3 DEF AwaitLaunch
  <2>3. CASE Concludes(c, "notRunning")
    BY <2>1, <2>2, <2>3, ConcludesKeeps
  <2>4. CASE Goto(c, "send") /\ UNCHANGED <<misled, win>>
    <3>1. /\ client' \in [Clients -> ClientStates] /\ client'["other"].pc = "send"
          /\ client'["other"].why = client["other"].why /\ client'["ui"] = client["ui"]
      BY <1>0, <2>1, <2>4, GoesOn, TwoClients DEF ClientPhases
    <3>2. AllSaySo' /\ OneLives'
      BY <2>2 DEF AllSaySo, OneLives, Living, HasExited
    <3>3. Attempts'
      BY <2>2, <3>1 DEF Attempts, StopReaches, PipesOpen, Begun, Roomless
    <3>4. WhoDoesWhat'
      BY <2>2, <3>1, TwoClients DEF WhoDoesWhat
    <3>5. WindowKeeps'
      BY <2>2, <2>4, <3>1 DEF WindowKeeps, Telling, HasExited
    <3> QED BY <3>2, <3>3, <3>4, <3>5
  <2> QED BY <1>3, <2>3, <2>4 DEF AwaitLaunch
<1>4. CASE SendStop(c)
  <2>1. client[c].pc = "send" /\ UNCHANGED <<slot, launch, curGen, strayed, service>>
    BY <1>4 DEF SendStop
  <2>2. CASE client[c].g = 0
    <3>1. Concludes(c, "notRunning") /\ UNCHANGED gen
      BY <1>4, <2>2 DEF SendStop
    <3>2. c = "ui" => curGen = 0
      BY <2>1, <2>2 DEF WhoDoesWhat
    <3> QED BY <2>1, <3>1, <3>2, ConcludesKeeps
  <2>3. CASE client[c].g # 0
    <3>1. WriteStop(client[c].g) /\ Goto(c, "poll") /\ UNCHANGED <<misled, win>>
      BY <1>4, <2>3 DEF SendStop
    <3>2. client[c].g \in Gens
      BY <1>0, <2>3
    <3>3. /\ AllSaySo'
          /\ \A h \in Gens : /\ gen'[h].hs = gen[h].hs /\ gen'[h].reader = gen[h].reader
                             /\ gen[h].sent => gen'[h].sent
      BY <2>1, <3>1, <3>2, StopWritten
    <3>4. /\ client' \in [Clients -> ClientStates] /\ client'[c].pc = "poll"
          /\ client'[c].g = client[c].g /\ client'[c].why = client[c].why
          /\ \A d \in Clients \ {c} : client'[d] = client[d]
      BY <1>0, <3>1, GoesOn DEF ClientPhases
    <3>5. OneLives'
      BY <2>1 DEF OneLives, Living, HasExited
    <3>6. \/ /\ client'["ui"].pc \in {"send", "poll"}
             /\ client'["ui"].why = client["ui"].why
             /\ client["ui"].pc = "send"
          \/ client'["ui"] = client["ui"]
      BY <2>1, <3>4, TwoClients
    <3>7. Attempts'
      <4>1. PICK n \in 0..MaxGens : Begun(n) /\ (n < MaxGens \/ Roomless)
        BY DEF Attempts
      <4>2. Begun(n)' /\ (n < MaxGens \/ Roomless')
        BY <2>1, <3>6, <4>1 DEF Begun, Roomless
      <4>3. StopReaches'
        BY <2>1, <3>3 DEF Attempts, StopReaches, PipesOpen
      <4> QED BY <2>1, <4>2, <4>3 DEF Attempts
    <3>8. WhoDoesWhat'
      <4>1. CASE c = "ui"
        BY <2>1, <2>3, <3>4, <4>1, TwoClients DEF WhoDoesWhat
      <4>2. CASE c = "other"
        BY <2>1, <2>3, <3>4, <4>2, TwoClients DEF WhoDoesWhat
      <4> QED BY <4>1, <4>2, TwoClients
    <3>9. WindowKeeps'
      BY <2>1, <3>1, <3>3, <3>6 DEF WindowKeeps, Telling, HasExited
    <3> QED BY <3>3, <3>5, <3>7, <3>8, <3>9
  <2> QED BY <2>2, <2>3
<1>5. CASE Settle(c)
  <2> DEFINE g == client[c].g
  <2>1. /\ client[c].pc = "poll" /\ HasExited(g) /\ Concludes(c, Evaluate(g))
        /\ UNCHANGED <<gen, slot, launch, curGen, strayed, service>>
    BY <1>5 DEF Settle
  <2>2. g \in Gens
    BY <1>0, <2>1 DEF WhoDoesWhat
  <2>3. Evaluate(g) = "normal" => gen[g].hs = "ok" /\ service[g].code = 0
    <3>1. gen[g].hs \in {"nothing", "ok", "incomplete"}
      BY <2>2 DEF AllSaySo, ReaderStates
    <3> QED BY <3>1 DEF Evaluate
  <2>4. Evaluate(g) = "normal" => /\ service[g].said = "ok" /\ service[g].at = "exited"
                                  /\ service[g].code = 0
    BY <2>1, <2>2, <2>3 DEF AllSaySo, SaysSo, HasExited
  <2>5. c = "ui" => HasExited(curGen)
    BY <2>1 DEF WhoDoesWhat
  <2> QED BY <2>1, <2>4, <2>5, ConcludesKeeps
<1> QED BY <1>1, <1>2, <1>3, <1>4, <1>5

\* StartInternal, step by step. Only the window is in it.
StartFacts(c) ==
    /\ c = "ui" /\ client["ui"].pc \in {"admit", "spawn", "publish", "tell"}
    /\ client["ui"].why \in {"none", "restart"} /\ win.exit = FALSE
    /\ slot \in 0..MaxGens /\ (slot # 0 => slot \in Gens)
    /\ curGen \in 0..MaxGens /\ (curGen # 0 => curGen \in Gens)
    /\ client \in [Clients -> ClientStates] /\ launch \in [Gens -> LaunchStates]
    /\ win \in WindowStates
LEMMA Starting ==
  ASSUME SessionInv, NEW c \in Clients, client[c].pc \in {"admit", "spawn", "publish", "tell"}
  PROVE  StartFacts(c)
<1>1. c = "ui"
  BY TwoClients DEF SessionInv, WhoDoesWhat
<1> QED BY <1>1, SessionConstants DEF SessionInv, WhoDoesWhat, OneLives, WindowKeeps, WindowStates,
                                      Attempts, StartFacts

\* A start that fails leaves the window idle and unready.
LEMMA FailsKeeps ==
  ASSUME SessionInv, StartFacts("ui"), client["ui"].pc \in {"admit", "spawn"},
         Goto("ui", "idle"), StartFails,
         slot' = 0, launch' \in [Gens -> LaunchStates],
         \A g \in Gens : \/ launch'[g] = launch[g]
                         \/ launch[g].is = "open" /\ launch'[g].is = "failed",
         UNCHANGED <<gen, curGen, misled, strayed, service>>
  PROVE  SessionInv'
<1> USE DEF SessionInv
<1>1. /\ client' \in [Clients -> ClientStates] /\ client'["ui"].pc = "idle"
      /\ client'["ui"].why = "none" /\ client'["other"] = client["other"]
  BY GoesOn, TwoClients DEF ClientPhases, StartFacts
<1>2. /\ win' \in WindowStates /\ win'.exit = FALSE /\ win'.allowed = win.allowed
      /\ win'.pending = win.pending /\ win'.ready = FALSE
  BY DEF StartFails, StartFacts, WindowStates
<1>3. AllSaySo'
  BY DEF AllSaySo
<1>4. Attempts'
  <2>1. PICK n \in 0..MaxGens : Begun(n)
    BY DEF Attempts
  <2>2. Begun(n)' /\ Roomless'
    BY <1>1, <2>1 DEF Begun, Roomless
  <2>3. StopReaches'
    BY DEF Attempts, StopReaches, PipesOpen
  <2>4. \A g \in Gens :
        /\ launch'[g].is = "none" => service'[g].at = "none" /\ g # curGen'
        /\ launch'[g].is = "up" => service'[g].at # "none"
    BY DEF Attempts
  <2> QED BY <2>2, <2>3, <2>4 DEF Attempts
<1>5. WhoDoesWhat'
  BY <1>1, TwoClients DEF WhoDoesWhat
<1>6. OneLives'
  <2>1. \A g \in Gens : Living(g) => g # slot \/ slot = 0
    BY DEF WhoDoesWhat, Living, StartFacts
  <2> QED BY <2>1, SessionConstants DEF OneLives, Living, HasExited, StartFacts
<1>7. WindowKeeps'
  <2>1. strayed = FALSE => win.allowed \subseteq {curGen} /\ win.pending \in {0, curGen}
    BY DEF WindowKeeps, Telling
  <2> QED BY <1>1, <1>2, <2>1 DEF WindowKeeps, Telling
<1> QED BY <1>3, <1>4, <1>5, <1>6, <1>7

LEMMA AdmitKeeps == ASSUME SessionInv, NEW c \in Clients, AdmitStart(c) PROVE SessionInv'
<1> USE DEF SessionInv
<1>1. c = "ui" /\ StartFacts("ui") /\ client["ui"].pc = "admit"
  <2>1. client[c].pc = "admit"
    BY DEF AdmitStart
  <2>2. StartFacts(c)
    BY <2>1, Starting
  <2> QED BY <2>1, <2>2 DEF StartFacts
<1>2. UNCHANGED <<gen, curGen, misled, strayed, service>> /\ slot = 0
  BY <1>1 DEF AdmitStart, WhoDoesWhat
<1>3. CASE ~MayStart
  <2>1. Goto("ui", "idle") /\ StartFails /\ UNCHANGED <<slot, launch>>
    BY <1>1, <1>3 DEF AdmitStart
  <2>2. slot' = 0 /\ launch' \in [Gens -> LaunchStates]
    BY <1>1, <1>2, <2>1 DEF StartFacts
  <2> QED BY <1>1, <1>2, <2>1, <2>2, FailsKeeps
<1>4. CASE MayStart
  <2>1. PICK n \in 0..MaxGens : Begun(n) /\ n < MaxGens
    BY <1>1 DEF Attempts, Roomless
  <2>2. Cardinality({g \in Gens : launch[g].is # "none"}) = n
    <3>1. {g \in Gens : launch[g].is # "none"} = 1..n
      BY <2>1, SessionConstants DEF Begun
    <3>2. Cardinality(1..n) = n
      BY SessionConstants, FS_Interval
    <3> QED BY <3>1, <3>2
  <2>3. NextGen = n + 1 /\ NextGen \in Gens /\ NextGen # 0
    BY <2>1, <2>2, SessionConstants DEF NextGen
  <2>4. launch[NextGen].is = "none"
    BY <2>1, <2>3, SessionConstants DEF Begun
  <2> DEFINE k == NextGen
  <2>5. /\ slot' = k /\ launch' = [launch EXCEPT ![k].is = "open"] /\ win' = win
        /\ client' = [client EXCEPT !["ui"] = [@ EXCEPT !.pc = "spawn", !.g = k]]
    BY <1>1, <1>4 DEF AdmitStart
  <2> HIDE DEF k
  <2>6. k \in Gens /\ k # 0 /\ k = n + 1 /\ k \in 0..MaxGens /\ launch[k].is = "none"
    BY <2>3, <2>4, SessionConstants DEF k
  <2>7. /\ launch' \in [Gens -> LaunchStates] /\ launch'[k].is = "open"
        /\ \A g \in Gens \ {k} : launch'[g] = launch[g]
    BY <1>1, <2>5, <2>6 DEF StartFacts, LaunchStates
  <2>8. /\ client' \in [Clients -> ClientStates] /\ client'["ui"].pc = "spawn"
        /\ client'["ui"].g = k /\ client'["ui"].why = client["ui"].why
        /\ client'["other"] = client["other"]
    <3> DEFINE w == [client["ui"] EXCEPT !.pc = "spawn", !.g = k]
    <3>1. w \in ClientStates /\ w.pc = "spawn" /\ w.g = k /\ w.why = client["ui"].why
      BY <1>1, <2>6, TwoClients DEF StartFacts, ClientStates
    <3>2. client' = [client EXCEPT !["ui"] = w]
      BY <1>1, <2>5, TwoClients DEF StartFacts
    <3> HIDE DEF w
    <3> QED BY <1>1, <3>1, <3>2, TwoClients DEF StartFacts
  <2>9. AllSaySo'
    BY <1>2 DEF AllSaySo
  <2>10. Attempts'
    <3>1. Begun(n + 1)' /\ n + 1 \in 0..MaxGens /\ Roomless'
      BY <2>1, <2>6, <2>7, <2>8, SessionConstants DEF Begun, Roomless
    <3>2. StopReaches'
      BY <1>2, <2>7 DEF Attempts, StopReaches, PipesOpen
    <3>3. \A g \in Gens :
          /\ launch'[g].is = "none" => service'[g].at = "none" /\ g # curGen'
          /\ launch'[g].is = "up" => service'[g].at # "none"
      BY <1>2, <2>7 DEF Attempts
    <3> QED BY <2>7, <3>1, <3>2, <3>3 DEF Attempts
  <2>11. service[k].at = "none" /\ k # curGen
    BY <2>6 DEF Attempts
  <2>12. WhoDoesWhat'
    BY <1>1, <1>2, <2>5, <2>6, <2>7, <2>8, <2>11, TwoClients DEF WhoDoesWhat
  <2>13. OneLives'
    BY <1>2, <1>4, <2>5, <2>6, <2>11, SessionConstants DEF OneLives, Living, HasExited, MayStart
  <2>14. WindowKeeps'
    BY <1>1, <1>2, <2>5, <2>8 DEF WindowKeeps, Telling, HasExited, StartFacts
  <2> QED BY <2>9, <2>10, <2>12, <2>13, <2>14
<1> QED BY <1>3, <1>4

LEMMA SpawnKeeps == ASSUME SessionInv, NEW c \in Clients, SpawnProcess(c) PROVE SessionInv'
<1> USE DEF SessionInv
<1>1. c = "ui" /\ StartFacts("ui") /\ client["ui"].pc = "spawn"
  <2>1. client[c].pc = "spawn"
    BY DEF SpawnProcess
  <2>2. StartFacts(c)
    BY <2>1, Starting
  <2> QED BY <2>1, <2>2 DEF StartFacts
<1>2. /\ slot # 0 /\ client["ui"].g = slot /\ launch[slot].is = "open" /\ slot \in Gens
      /\ service[slot].at = "none" /\ slot # curGen
  BY <1>1 DEF WhoDoesWhat, OneLives, StartFacts
<1> DEFINE b == [service[slot] EXCEPT !.at = "boot"]
<1>3. /\ Goto("ui", "publish") /\ service' = [service EXCEPT ![slot] = b]
      /\ UNCHANGED <<gen, slot, launch, curGen, misled, win, strayed>>
  BY <1>1, <1>2 DEF SpawnProcess
<1>4. SaysSo(service[slot], gen[slot]) /\ service[slot] \in BackendStates
  BY <1>2 DEF AllSaySo
<1>5. /\ b \in BackendStates /\ b.at = "boot" /\ b.said = service[slot].said
      /\ b.out = service[slot].out
  BY <1>4 DEF BackendStates, Phases
<1> HIDE DEF b
<1>6. SaysSo(b, gen[slot])
  BY <1>2, <1>4, <1>5 DEF SaysSo
<1>7. /\ service' \in [Gens -> BackendStates] /\ service'[slot] = b
      /\ \A g \in Gens \ {slot} : service'[g] = service[g]
  BY <1>2, <1>3, <1>5 DEF AllSaySo
<1>8. /\ client' \in [Clients -> ClientStates] /\ client'["ui"].pc = "publish"
      /\ client'["ui"].g = slot /\ client'["ui"].why = client["ui"].why
      /\ client'["other"] = client["other"]
  BY <1>1, <1>2, <1>3, GoesOn, TwoClients DEF ClientPhases, StartFacts
<1>9. AllSaySo'
  BY <1>3, <1>6, <1>7 DEF AllSaySo
<1>10. Attempts'
  <2>1. (\E n \in 0..MaxGens : Begun(n) /\ (n < MaxGens \/ Roomless))'
    BY <1>1, <1>3, <1>8 DEF Attempts, Begun, Roomless
  <2>2. StopReaches'
    BY <1>2, <1>3, <1>7 DEF Attempts, StopReaches, PipesOpen
  <2>3. \A g \in Gens :
        /\ launch'[g].is = "none" => service'[g].at = "none" /\ g # curGen'
        /\ launch'[g].is = "up" => service'[g].at # "none"
    BY <1>2, <1>3, <1>5, <1>7 DEF Attempts
  <2> QED BY <1>3, <2>1, <2>2, <2>3 DEF Attempts
<1>11. WhoDoesWhat'
  BY <1>1, <1>2, <1>3, <1>5, <1>7, <1>8, TwoClients DEF WhoDoesWhat
<1>12. OneLives'
  BY <1>1, <1>2, <1>3, <1>7 DEF OneLives, Living, HasExited, StartFacts
<1>13. WindowKeeps'
  BY <1>1, <1>2, <1>3, <1>7, <1>8 DEF WindowKeeps, Telling, HasExited, StartFacts
<1> QED BY <1>9, <1>10, <1>11, <1>12, <1>13

LEMMA SpawnFailsKeeps == ASSUME SessionInv, NEW c \in Clients, SpawnFails(c) PROVE SessionInv'
<1> USE DEF SessionInv
<1>1. c = "ui" /\ StartFacts("ui") /\ client["ui"].pc = "spawn"
  <2>1. client[c].pc = "spawn"
    BY DEF SpawnFails
  <2>2. StartFacts(c)
    BY <2>1, Starting
  <2> QED BY <2>1, <2>2 DEF StartFacts
<1>2. slot \in Gens /\ launch[slot].is = "open" /\ launch \in [Gens -> LaunchStates]
  BY <1>1 DEF WhoDoesWhat, StartFacts
<1>3. /\ Goto("ui", "idle") /\ StartFails /\ slot' = 0
      /\ launch' = [launch EXCEPT ![slot].is = "failed"]
      /\ UNCHANGED <<gen, curGen, misled, strayed, service>>
  BY <1>1 DEF SpawnFails
<1>4. /\ launch' \in [Gens -> LaunchStates]
      /\ \A g \in Gens : \/ launch'[g] = launch[g]
                         \/ launch[g].is = "open" /\ launch'[g].is = "failed"
  BY <1>2, <1>3 DEF LaunchStates
<1> QED BY <1>1, <1>3, <1>4, FailsKeeps

LEMMA PublishKeeps == ASSUME SessionInv, NEW c \in Clients, Publish(c) PROVE SessionInv'
<1> USE DEF SessionInv
<1>1. c = "ui" /\ StartFacts("ui") /\ client["ui"].pc = "publish"
  <2>1. client[c].pc = "publish"
    BY DEF Publish
  <2>2. StartFacts(c)
    BY <2>1, Starting
  <2> QED BY <2>1, <2>2 DEF StartFacts
<1>2. /\ slot # 0 /\ client["ui"].g = slot /\ launch[slot].is = "open" /\ slot \in Gens
      /\ service[slot].at # "none" /\ slot # curGen /\ (curGen = 0 \/ HasExited(curGen))
  BY <1>1 DEF WhoDoesWhat, OneLives, StartFacts
<1> DEFINE s == [gen[slot] EXCEPT !.reader = "reading"]
<1>3. /\ Goto("ui", "tell") /\ gen' = [gen EXCEPT ![slot] = s]
      /\ curGen' = slot /\ slot' = 0
      /\ strayed' = (strayed \/ \E g \in Gens : gen[g].reader = "posted")
      /\ UNCHANGED <<launch, misled, win, service>>
  BY <1>1, <1>2 DEF Publish
<1>4. SaysSo(service[slot], gen[slot]) /\ gen[slot] \in ReaderStates
  BY <1>2 DEF AllSaySo
<1>5. /\ s \in ReaderStates /\ s.reader = "reading" /\ s.post = gen[slot].post
      /\ s.hs = gen[slot].hs /\ s.sent = gen[slot].sent
  BY <1>4 DEF ReaderStates
<1> HIDE DEF s
<1>6. SaysSo(service[slot], s)
  BY <1>4, <1>5 DEF SaysSo
<1>7. /\ gen' \in [Gens -> ReaderStates] /\ gen'[slot] = s
      /\ \A g \in Gens \ {slot} : gen'[g] = gen[g]
  BY <1>2, <1>3, <1>5 DEF AllSaySo
<1>8. /\ client' \in [Clients -> ClientStates] /\ client'["ui"].pc = "tell"
      /\ client'["ui"].g = slot /\ client'["ui"].why = client["ui"].why
      /\ client'["other"] = client["other"]
  BY <1>1, <1>2, <1>3, GoesOn, TwoClients DEF ClientPhases, StartFacts
<1>9. AllSaySo'
  BY <1>3, <1>6, <1>7 DEF AllSaySo
<1>10. Attempts'
  <2>1. (\E n \in 0..MaxGens : Begun(n) /\ (n < MaxGens \/ Roomless))'
    BY <1>1, <1>3, <1>8 DEF Attempts, Begun, Roomless
  <2>2. StopReaches'
    BY <1>2, <1>3, <1>5, <1>7 DEF Attempts, StopReaches, PipesOpen
  <2>3. \A g \in Gens :
        /\ launch'[g].is = "none" => service'[g].at = "none" /\ g # curGen'
        /\ launch'[g].is = "up" => service'[g].at # "none"
    BY <1>2, <1>3 DEF Attempts
  <2> QED BY <1>3, <2>1, <2>2, <2>3 DEF Attempts
<1>11. WhoDoesWhat'
  BY <1>1, <1>2, <1>3, <1>8, TwoClients DEF WhoDoesWhat
<1>12. OneLives'
  <2>1. \A g \in Gens : Living(g) => g = slot
    BY <1>2, SessionConstants DEF OneLives, Living, HasExited
  <2> QED BY <1>1, <1>2, <1>3, <2>1, SessionConstants DEF OneLives, Living, HasExited, StartFacts
<1>13. WindowKeeps'
  <2>1. strayed' \in BOOLEAN
    BY <1>3
  <2>2. strayed' = FALSE => \A g \in Gens : gen'[g].reader # "posted"
    BY <1>3, <1>5, <1>7
  <2>3. client'["ui"].why = "none" => win'.allowed = {} /\ win'.pending = 0 /\ win'.ready = FALSE
    BY <1>1, <1>3, <1>8 DEF WindowKeeps
  <2>4. client'["ui"].why \in {"none", "restart"}
    BY <1>1, <1>8 DEF StartFacts
  <2> QED BY <1>1, <1>3, <1>8, <2>1, <2>2, <2>3, <2>4 DEF WindowKeeps, Telling, StartFacts
<1> QED BY <1>9, <1>10, <1>11, <1>12, <1>13

LEMMA TellKeeps == ASSUME SessionInv, NEW c \in Clients, TellStop(c) PROVE SessionInv'
<1> USE DEF SessionInv
<1>1. c = "ui" /\ StartFacts("ui") /\ client["ui"].pc = "tell"
  <2>1. client[c].pc = "tell"
    BY DEF TellStop
  <2>2. StartFacts(c)
    BY <2>1, Starting
  <2> QED BY <2>1, <2>2 DEF StartFacts
<1>2. /\ client["ui"].g = curGen /\ curGen # 0 /\ curGen \in Gens /\ slot = 0
      /\ launch[curGen].is = "open"
  BY <1>1 DEF WhoDoesWhat, StartFacts
<1>3. /\ Goto("ui", "idle") /\ launch' = [launch EXCEPT ![curGen].is = "up"]
      /\ IF launch[curGen].stop THEN WriteStop(curGen) ELSE UNCHANGED gen
      /\ win' = IF client["ui"].why = "restart" THEN Forget(win) ELSE win
      /\ UNCHANGED <<slot, curGen, misled, strayed, service>>
  BY <1>1, <1>2 DEF TellStop
<1>4. /\ AllSaySo'
      /\ \A h \in Gens : /\ gen'[h].hs = gen[h].hs /\ gen'[h].reader = gen[h].reader
                         /\ gen[h].sent => gen'[h].sent
      /\ launch[curGen].stop =>
            gen'[curGen].sent \/ gen'[curGen].hs # "nothing" \/ ~PipesOpen(curGen)
  <2>1. CASE launch[curGen].stop
    BY <1>2, <1>3, <2>1, StopWritten
  <2>2. CASE ~launch[curGen].stop
    BY <1>3, <2>2 DEF AllSaySo
  <2> QED BY <2>1, <2>2
<1>5. /\ launch' \in [Gens -> LaunchStates] /\ launch'[curGen].is = "up"
      /\ launch'[curGen].stop = launch[curGen].stop
      /\ \A g \in Gens \ {curGen} : launch'[g] = launch[g]
  BY <1>1, <1>2, <1>3 DEF StartFacts, LaunchStates
<1>6. /\ client' \in [Clients -> ClientStates] /\ client'["ui"].pc = "idle"
      /\ client'["ui"].why = "none" /\ client'["other"] = client["other"]
  BY <1>1, <1>3, GoesOn, TwoClients DEF ClientPhases, StartFacts
<1>7. Attempts'
  <2>1. PICK n \in 0..MaxGens : Begun(n)
    BY DEF Attempts
  <2>2. Begun(n)' /\ Roomless'
    BY <1>2, <1>5, <1>6, <2>1 DEF Begun, Roomless
  <2>3. StopReaches'
    BY <1>2, <1>3, <1>4, <1>5 DEF Attempts, StopReaches, PipesOpen
  <2>4. \A g \in Gens :
        /\ launch'[g].is = "none" => service'[g].at = "none" /\ g # curGen'
        /\ launch'[g].is = "up" => service'[g].at # "none"
    BY <1>2, <1>3, <1>5 DEF Attempts, OneLives
  <2> QED BY <1>5, <2>2, <2>3, <2>4 DEF Attempts
<1>8. WhoDoesWhat'
  BY <1>1, <1>2, <1>3, <1>6, TwoClients DEF WhoDoesWhat
<1>9. OneLives'
  BY <1>2, <1>3 DEF OneLives, Living, HasExited
<1>10. /\ win' \in WindowStates /\ win'.exit = FALSE
       /\ win'.allowed = {} /\ win'.pending = 0 /\ win'.ready = FALSE
  <2>1. win \in WindowStates /\ win.exit = FALSE /\ 0 \in 0..MaxGens
    BY <1>1, SessionConstants DEF StartFacts
  <2>2. CASE client["ui"].why = "restart"
    <3>1. win' = [win EXCEPT !.ready = FALSE, !.allowed = {}, !.pending = 0]
      BY <1>3, <2>2 DEF Forget
    <3> QED BY <2>1, <3>1 DEF WindowStates
  <2>3. CASE client["ui"].why = "none"
    <3>1. win' = win
      BY <1>3, <2>3
    <3> QED BY <1>1, <2>1, <2>3, <3>1 DEF WindowKeeps
  <2> QED BY <1>1, <2>2, <2>3 DEF StartFacts
<1>11. WindowKeeps'
  BY <1>3, <1>4, <1>6, <1>10 DEF WindowKeeps, Telling
<1> QED BY <1>4, <1>7, <1>8, <1>9, <1>11

LEMMA SessionBegins == SessionInit => SessionInv
<1> SUFFICES ASSUME SessionInit PROVE SessionInv
  OBVIOUS
<1> USE DEF SessionInit
<1> DEFINE b == [at |-> "none", code |-> 0, said |-> "nothing", out |-> <<>>]
           s == [reader |-> "none", post |-> "none", hs |-> "nothing", sent |-> FALSE]
<1>1. b \in BackendStates /\ s \in ReaderStates
  BY EmptySeq DEF BackendStates, ReaderStates, Phases, PagesAndEnds
<1>2. ToSet(<<>>) = {}
  BY DEF ToSet
<1>3. SaysSo(b, s)
  BY <1>1, <1>2 DEF SaysSo
<1>4. AllSaySo
  BY <1>1, <1>3 DEF AllSaySo
<1>5. 0 \in 0..MaxGens
  BY SessionConstants
<1>6. Attempts
  <2>1. Begun(0) /\ 0 < MaxGens
    BY SessionConstants DEF Begun
  <2>2. launch \in [Gens -> LaunchStates] /\ StopReaches
    BY DEF LaunchStates, StopReaches
  <2> QED BY <1>5, <2>1, <2>2, SessionConstants DEF Attempts
<1>7. /\ client \in [Clients -> ClientStates] /\ client["other"] = Idle
      /\ client["ui"] = [Idle EXCEPT !.pc = "admit"]
  BY <1>5, TwoClients DEF Idle, ClientStates
<1>8. WhoDoesWhat
  BY <1>7, TwoClients DEF WhoDoesWhat, Idle
<1>9. OneLives
  BY <1>5 DEF OneLives, Living, HasExited
<1>10. WindowKeeps
  BY <1>5, <1>7 DEF WindowKeeps, WindowStates, Telling, Idle
<1> QED BY <1>4, <1>6, <1>8, <1>9, <1>10 DEF SessionInv

LEMMA SessionSteps == SessionInv /\ [SessionNext]_sessionvars => SessionInv'
<1> SUFFICES ASSUME SessionInv, [SessionNext]_sessionvars PROVE SessionInv'
  OBVIOUS
<1>1. ASSUME NEW c \in Clients, ClientStep(c) PROVE SessionInv'
  BY <1>1, AdmitKeeps, SpawnKeeps, SpawnFailsKeeps, PublishKeeps, TellKeeps, WaitsKeep
     DEF ClientStep
<1>2. ASSUME NEW g \in Gens, BackendStep(g) PROVE SessionInv'
  <2>1. \E b \in BackendStates : BackendGoes(g, b)
    BY <1>2, BackendMoves DEF SessionInv
  <2> QED BY <1>2, <2>1, BackendKeeps
<1>3. ASSUME NEW g \in Gens, HandleLine(g) \/ EndOfPipe(g) \/ Dispatch(g) PROVE SessionInv'
  BY <1>3, LineKeeps, PipeKeeps, DispatchKeeps
<1>4. ASSUME UNCHANGED sessionvars PROVE SessionInv'
  <2>1. UNCHANGED <<gen, slot, launch, curGen, client, misled, win, strayed, service>>
    BY <1>4 DEF sessionvars, shellSide
  <2>2. win' \in WindowStates /\ (win'.ready => win.ready)
    BY <2>1 DEF SessionInv, WindowKeeps
  <2> QED BY <2>1, <2>2, WindowOnly
<1> QED BY <1>1, <1>2, <1>3, <1>4, MarkKeeps, WindowStepsKeep DEF SessionNext

\* One backend at a time and none lost sight of; what is said of a stop, of a fault and of
\* what the window shows is true of it: for any number of starts and of troubles.
THEOREM SessionStaysHonest == SessionSpec => []SessionHonest
<1>1. SessionInit => SessionInv
  BY SessionBegins
<1>2. SessionInv /\ [SessionNext]_sessionvars => SessionInv'
  BY SessionSteps
<1>3. SessionInv => SessionHonest
  <2> SUFFICES ASSUME SessionInv PROVE SessionHonest
    OBVIOUS
  <2> USE DEF SessionInv
  <2>1. NoneLost
    <3> SUFFICES ASSUME NEW g \in Gens, Living(g)
                 PROVE  g \in {curGen, slot} /\ \A h \in Gens \ {g} : ~Living(h)
      BY DEF NoneLost
    <3>1. g # 0
      BY SessionConstants
    <3> QED BY <3>1, SessionConstants DEF OneLives, Living, HasExited
  <2>2. NormalIsTrue /\ StopReaches
    BY DEF WindowKeeps, NormalIsTrue, Attempts
  <2>3. FaultIsTrue
    BY DEF AllSaySo, SaysSo, FaultIsTrue, HasExited
  <2>4. WindowIsCurrent
    <3>1. UiFree => ~Telling
      BY DEF UiFree, Telling
    <3>2. strayed = FALSE \/ strayed = TRUE
      BY DEF WindowKeeps
    <3> QED BY <3>1, <3>2 DEF WindowKeeps, WindowIsCurrent
  <2>5. win.exit => \A g \in Gens : ~Living(g)
    <3> SUFFICES ASSUME win.exit, NEW g \in Gens PROVE ~Living(g)
      OBVIOUS
    <3>1. slot = 0 /\ (curGen = 0 \/ HasExited(curGen)) /\ g # 0
      BY SessionConstants DEF WindowKeeps, WhoDoesWhat
    <3> QED BY <3>1 DEF OneLives, Living, HasExited
  <2> QED BY <2>1, <2>2, <2>3, <2>4, <2>5 DEF SessionHonest
<1> QED BY <1>1, <1>2, <1>3, PTL DEF SessionSpec
-------------------------------------------------------------------------------
(* NotifyHub: alarms to the outside. *)

Counts == [cursor : Nat, fails : [Alarms -> Nat]]
RoundStates == [pc : {"wait", "send", "cursor"}, batch : Seq(Alarms), decided : Nat,
                undecided : Nat]
HubShape ==
    /\ clock \in Nat /\ startOf \in [Alarms -> Nat] /\ \A e \in Alarms : startOf[e] <= clock
    /\ view \in Counts /\ durable \in Counts
    /\ view.cursor <= clock /\ durable.cursor <= clock
    /\ round \in RoundStates /\ round.decided <= clock /\ round.undecided <= clock
    /\ received \in [Outlets -> SUBSET Alarms] /\ outrun \subseteq Alarms
\* An event that needs no further round, as a connection sees the counts.
Through(e, meta) == (\A o \in Outlets : e \in received[o]) \/ meta.fails[e] >= MaxTries
\* What is out of the window of a cursor is through, by the counts that lie beside it.
Behind(meta) ==
    \A e \in Alarms \ outrun : startOf[e] # 0 /\ startOf[e] + ResendWindow <= meta.cursor
                                  => Through(e, meta)
\* In a round, whoever is not through is still to come or stays in the window, however
\* far the round gets.
Reached(t) == /\ round.decided < t + ResendWindow
              /\ round.undecided <= t + ResendWindow
              /\ \A b \in ToSet(round.batch) : startOf[b] < t + ResendWindow
InRound ==
    /\ round.pc = "wait" => round = Waiting
    /\ round.pc = "cursor" => round.batch = <<>>
    /\ \A i \in 1..Len(round.batch) :
        /\ startOf[round.batch[i]] # 0 /\ round.decided <= startOf[round.batch[i]]
        /\ \A j \in 1..Len(round.batch) : i < j =>
              startOf[round.batch[i]] <= startOf[round.batch[j]]
    /\ round.pc # "wait" => \A e \in Alarms \ outrun : startOf[e] # 0 =>
        Through(e, view) \/ e \in ToSet(round.batch) \/ Reached(startOf[e])
HubCore == HubShape /\ Behind(view) /\ Behind(durable) /\ InRound
\* How far a cursor is, or a round got, is the beginning of an event that is stored, or
\* before it.
Attained(c) == c # 0 => \E f \in Alarms : c <= startOf[f]
HubKnown == Attained(view.cursor) /\ Attained(durable.cursor)
            /\ Attained(round.decided) /\ Attained(round.undecided)
HubInv == HubCore /\ HubKnown

\* What an event that is not through shows while nothing of it changes.
LEMMA HubConstants ==
  /\ ResendWindow \in Nat \ {0} /\ MaxTries \in Nat
  /\ RoundLimit \in Nat \ {0}
  BY HubAssumption

\* A step that leaves the counts of a connection and lets outlets receive more.
LEMMA StillBehind ==
  ASSUME HubShape, NEW meta \in Counts, Behind(meta), NEW more \in Counts,
         received' \in [Outlets -> SUBSET Alarms],
         \A o \in Outlets : received[o] \subseteq received'[o],
         more.cursor <= meta.cursor,
         \A e \in Alarms : meta.fails[e] >= MaxTries =>
            more.fails[e] >= MaxTries \/ \A o \in Outlets : e \in received'[o],
         startOf' = startOf
  PROVE  \A e \in Alarms \ outrun : startOf'[e] # 0 /\ startOf'[e] + ResendWindow <= more.cursor
            => (\A o \in Outlets : e \in received'[o]) \/ more.fails[e] >= MaxTries
<1> SUFFICES ASSUME NEW e \in Alarms \ outrun, startOf[e] # 0,
                    startOf[e] + ResendWindow <= more.cursor
             PROVE  (\A o \in Outlets : e \in received'[o]) \/ more.fails[e] >= MaxTries
  OBVIOUS
<1>1. startOf[e] + ResendWindow <= meta.cursor
  BY HubConstants DEF HubShape, Counts
<1>2. Through(e, meta)
  BY <1>1 DEF Behind
<1> QED BY <1>2 DEF Through

LEMMA HubBegins == HubInit => HubInv
<1> SUFFICES ASSUME HubInit PROVE HubInv
  OBVIOUS
<1> USE DEF HubInit
<1>1. HubShape
  BY EmptySeq DEF HubShape, NoMeta, Counts, Waiting, RoundStates
<1>2. Behind(view) /\ Behind(durable)
  BY DEF Behind
<1>3. InRound
  BY EmptySeq DEF InRound, Waiting
<1>4. HubKnown
  BY DEF HubKnown, Attained, NoMeta, Waiting
<1> QED BY <1>1, <1>2, <1>3, <1>4 DEF HubInv, HubCore

LEMMA BatchesBegin ==
  ASSUME HubInv, BeginRound
  PROVE  HubCore'
<1>1. /\ HubShape /\ Behind(view) /\ Behind(durable) /\ InRound /\ round.pc = "wait"
      /\ UNCHANGED <<clock, startOf, view, durable, received, outrun>>
  BY DEF HubInv, HubCore, BeginRound
<1>2. PICK batch \in Batches : round' = [Waiting EXCEPT !.pc = "send", !.batch = batch]
  BY DEF BeginRound
<1> DEFINE n == IF Cardinality(Due) < RoundLimit THEN Cardinality(Due) ELSE RoundLimit
<1>3. IsFiniteSet(Due)
  BY HubAssumption, FS_Subset DEF Due
<1>4. n \in Nat
  BY <1>3, HubConstants, FS_CardinalityType
<1>5. /\ batch \in [1..n -> Due]
      /\ \A i, j \in 1..n : i < j => startOf[batch[i]] <= startOf[batch[j]]
      /\ \A e \in Due \ ToSet(batch), i \in 1..n : startOf[batch[i]] <= startOf[e]
  BY DEF Batches
<1> HIDE DEF n
<1>6. batch \in Seq(Alarms) /\ Len(batch) = n
  <2>1. \A i \in 1..n : batch[i] \in Alarms
    BY <1>5 DEF Due
  <2>2. DOMAIN batch = 1..n /\ batch = [i \in 1..n |-> batch[i]]
    BY <1>5
  <2>3. batch \in [1..n -> Alarms]
    BY <2>1, <2>2
  <2> QED BY <1>4, <2>2, <2>3, LenProperties, SeqDef
<1>7. /\ round'.pc = "send" /\ round'.batch = batch /\ round'.decided = 0
      /\ round'.undecided = 0 /\ round' \in RoundStates
  BY <1>2, <1>6 DEF Waiting, RoundStates
<1>8. \A b \in ToSet(batch) : b \in Due /\ \E i \in 1..n : b = batch[i]
  BY <1>5 DEF ToSet
<1>9. HubShape'
  BY <1>1, <1>7 DEF HubShape
<1>10. Behind(view)' /\ Behind(durable)'
  BY <1>1 DEF Behind, Through
<1>11. ASSUME NEW e \in Alarms \ outrun, startOf[e] # 0, ~Through(e, view),
             e \notin ToSet(batch)
       PROVE  Reached(startOf[e])'
  <2>1. startOf[e] \in Nat /\ startOf[e] <= clock /\ view.cursor \in Nat /\ clock \in Nat
    BY <1>1 DEF HubShape, Counts
  <2>2. ~(startOf[e] + ResendWindow <= view.cursor)
    BY <1>1, <1>11 DEF Behind
  <2>3. e \in Due
    BY <1>11, <2>1, <2>2, HubConstants DEF Due, Since
  <2>4. \A b \in ToSet(batch) : startOf[b] \in Nat /\ startOf[b] <= startOf[e]
    BY <1>1, <1>5, <1>8, <1>11, <2>3 DEF HubShape, Due
  <2> QED BY <1>1, <1>7, <2>1, <2>4, HubConstants DEF Reached
<1>12. InRound'
  <2>1. \A i \in 1..n : startOf[batch[i]] # 0 /\ 0 <= startOf[batch[i]]
    BY <1>1, <1>5 DEF HubShape, Due
  <2> QED BY <1>1, <1>5, <1>6, <1>7, <1>11, <2>1 DEF InRound, Through
<1> QED BY <1>9, <1>10, <1>12 DEF HubCore

LEMMA SendsOn ==
  ASSUME HubInv, NEW accepted \in SUBSET Outlets, SendNext(accepted)
  PROVE  HubCore'
<1> DEFINE batch == round.batch
           e == Head(batch)
           rest == Tail(batch)
           settled == [round EXCEPT !.batch = rest, !.decided = startOf[e]]
<1>1. /\ HubShape /\ Behind(view) /\ Behind(durable) /\ InRound
      /\ round.pc = "send" /\ batch # <<>>
      /\ UNCHANGED <<clock, startOf, durable, outrun>>
  BY DEF HubInv, HubCore, SendNext
<1>2. /\ batch \in Seq(Alarms) /\ round \in RoundStates
      /\ clock \in Nat /\ startOf \in [Alarms -> Nat] /\ view \in Counts
  BY <1>1 DEF HubShape, RoundStates
<1>3. /\ e = batch[1] /\ e \in Alarms /\ e \in ToSet(batch) /\ rest \in Seq(Alarms)
      /\ ToSet(batch) = {e} \cup ToSet(rest) /\ Len(rest) = Len(batch) - 1
      /\ \A i \in 1..Len(rest) : rest[i] = batch[i + 1]
      /\ Len(batch) \in Nat \ {0}
  BY <1>1, <1>2, HeadTailProperties, LineFacts
<1>4. /\ startOf[e] # 0 /\ startOf[e] \in Nat /\ startOf[e] <= clock
      /\ round.decided <= startOf[e]
  <2>1. 1 \in 1..Len(batch)
    BY <1>3
  <2> QED BY <1>1, <1>2, <1>3, <2>1 DEF InRound, HubShape
<1>5. \A i \in 1..Len(rest) :
        /\ startOf[rest[i]] # 0 /\ startOf[e] <= startOf[rest[i]]
        /\ \A j \in 1..Len(rest) : i < j => startOf[rest[i]] <= startOf[rest[j]]
  <2>1. \A i \in 1..Len(rest) : i + 1 \in 1..Len(batch) /\ 1 < i + 1
    BY <1>3
  <2>2. \A i, j \in 1..Len(rest) : i < j => i + 1 < j + 1
    BY <1>3
  <2>3. 1 \in 1..Len(batch)
    BY <1>3
  <2> QED BY <1>1, <1>3, <2>1, <2>2, <2>3 DEF InRound
<1>6. \A b \in ToSet(rest) : b \in Alarms /\ startOf[b] \in Nat /\ startOf[e] <= startOf[b]
  <2>1. \A b \in ToSet(rest) : \E i \in 1..Len(rest) : b = rest[i]
    BY <1>3, LenProperties DEF ToSet
  <2>2. ToSet(rest) \subseteq Alarms
    BY <1>3, LineFacts
  <2> QED BY <1>2, <1>5, <2>1, <2>2
<1> HIDE DEF e, rest
\* What is given up or has arrived is behind; the round goes on with the rest.
<1>7. ASSUME round' = settled, view' \in Counts, view'.cursor = view.cursor,
             received' \in [Outlets -> SUBSET Alarms],
             \A o \in Outlets : received[o] \subseteq received'[o],
             \A d \in Alarms \ {e} : view'.fails[d] = view.fails[d],
             (\A o \in Outlets : e \in received'[o]) \/ view'.fails[e] >= MaxTries
      PROVE  HubCore'
  <2>1. /\ round'.pc = "send" /\ round'.batch = rest /\ round'.decided = startOf[e]
        /\ round'.undecided = round.undecided /\ round' \in RoundStates
    BY <1>1, <1>2, <1>3, <1>4, <1>7 DEF RoundStates
  <2>2. HubShape'
    BY <1>1, <1>4, <1>7, <2>1 DEF HubShape
  <2>3. Behind(view)'
    BY <1>1, <1>7, StillBehind DEF HubShape, Behind, Through
  <2>4. Behind(durable)'
    BY <1>1, <1>7, StillBehind DEF HubShape, Behind, Through
  <2>5. ASSUME NEW d \in Alarms \ outrun, startOf[d] # 0, ~Through(d, view)',
               d \notin ToSet(rest)
        PROVE  Reached(startOf[d])'
    <3>1. d # e /\ ~Through(d, view)
      BY <1>7, <2>5 DEF Through
    <3>2. Reached(startOf[d]) /\ startOf[d] \in Nat
      BY <1>1, <1>2, <1>3, <2>5, <3>1 DEF InRound
    <3> QED BY <1>1, <1>3, <2>1, <3>2 DEF Reached
  <2>6. InRound'
    BY <1>1, <1>5, <2>1, <2>5 DEF InRound
  <2> QED BY <2>2, <2>3, <2>4, <2>6 DEF HubCore
<1>8. CASE view.fails[e] >= MaxTries
  <2>1. round' = settled /\ UNCHANGED <<view, received>>
    BY <1>8 DEF SendNext, e, rest
  <2> QED BY <1>1, <1>2, <1>7, <1>8, <2>1 DEF HubShape
<1>9. ASSUME ~(view.fails[e] >= MaxTries) PROVE HubCore'
  <2>1. received' = [o \in Outlets |-> IF o \in accepted THEN received[o] \cup {e}
                                       ELSE received[o]]
    BY <1>9 DEF SendNext, e, rest
  <2>2. /\ received' \in [Outlets -> SUBSET Alarms]
        /\ \A o \in Outlets : received[o] \subseteq received'[o]
        /\ \A o \in accepted : e \in received'[o]
    BY <1>1, <1>3, <2>1 DEF HubShape
  <2>3. CASE accepted = Outlets
    <3>1. round' = settled /\ view' = [view EXCEPT !.fails[e] = 0]
      BY <1>9, <2>3 DEF SendNext, e, rest
    <3>2. /\ view' \in Counts /\ view'.cursor = view.cursor
          /\ \A d \in Alarms \ {e} : view'.fails[d] = view.fails[d]
      BY <1>2, <3>1 DEF Counts
    <3> QED BY <1>7, <2>2, <2>3, <3>1, <3>2
  <2>4. CASE accepted # Outlets
    <3>1. /\ round' = [round EXCEPT !.batch = <<>>, !.undecided = startOf[e]]
          /\ view' = [view EXCEPT !.fails[e] = @ + 1]
      BY <1>9, <2>4 DEF SendNext, e, rest
    <3>2. /\ view' \in Counts /\ view'.cursor = view.cursor
          /\ \A d \in Alarms : view'.fails[d] \in Nat /\ view'.fails[d] >= view.fails[d]
      <4>1. /\ view.fails \in [Alarms -> Nat] /\ view' \in Counts
            /\ view'.fails = [view.fails EXCEPT ![e] = @ + 1] /\ view'.cursor = view.cursor
        <5>1. view = [cursor |-> view.cursor, fails |-> view.fails]
              /\ view.cursor \in Nat /\ view.fails \in [Alarms -> Nat]
          BY <1>2 DEF Counts
        <5>2. view' = [cursor |-> view.cursor, fails |-> [view.fails EXCEPT ![e] = @ + 1]]
          BY <3>1, <5>1
        <5>3. [view.fails EXCEPT ![e] = @ + 1] \in [Alarms -> Nat]
          BY <1>3, <5>1
        <5> QED BY <5>1, <5>2, <5>3 DEF Counts
      <4> QED BY <1>3, <4>1
    <3>3. \A d \in Alarms : view.fails[d] \in Nat
      BY <1>2 DEF Counts
    <3>4. \A d \in Alarms : view.fails[d] >= MaxTries => view'.fails[d] >= MaxTries
      BY <3>2, <3>3, HubConstants
    <3>5. /\ round'.pc = "send" /\ round'.batch = <<>> /\ round'.decided = round.decided
          /\ round'.undecided = startOf[e] /\ round' \in RoundStates
      BY <1>1, <1>2, <1>4, <3>1, EmptySeq DEF RoundStates
    <3>6. HubShape'
      BY <1>1, <1>4, <2>2, <3>2, <3>5 DEF HubShape
    <3>7. Behind(view)'
      BY <1>1, <2>2, <3>2, <3>4, StillBehind DEF HubShape, Behind, Through, Counts
    <3>8. Behind(durable)'
      BY <1>1, <2>2, StillBehind DEF HubShape, Behind, Through
    <3>9. ASSUME NEW d \in Alarms \ outrun, startOf[d] # 0, ~Through(d, view)'
          PROVE  Reached(startOf[d])'
      <4>1. ~Through(d, view) /\ startOf[d] \in Nat /\ round.decided \in Nat
        BY <1>2, <2>2, <3>4, <3>9 DEF Through, RoundStates
      <4>2. ToSet(<<>>) = {}
        BY DEF ToSet
      <4>3. CASE d \in ToSet(batch)
        <5>1. startOf[e] <= startOf[d]
          BY <1>3, <1>4, <1>6, <4>3
        <5> QED BY <1>1, <1>4, <3>5, <4>1, <4>2, <5>1, HubConstants DEF Reached
      <4>4. CASE d \notin ToSet(batch)
        <5>1. Reached(startOf[d])
          BY <1>1, <3>9, <4>1, <4>4 DEF InRound
        <5>2. startOf[e] < startOf[d] + ResendWindow
          BY <1>3, <5>1 DEF Reached
        <5> QED BY <1>1, <1>4, <3>5, <4>1, <4>2, <5>1, <5>2, HubConstants DEF Reached
      <4> QED BY <4>3, <4>4
    <3>10. Len(<<>>) = 0
      BY EmptySeq
    <3>11. InRound'
      BY <1>1, <3>5, <3>9, <3>10 DEF InRound
    <3> QED BY <3>6, <3>7, <3>8, <3>11 DEF HubCore
  <2> QED BY <2>3, <2>4
<1> QED BY <1>8, <1>9

\* A round that is at rest.
LEMMA AtRestInRound ==
  ASSUME round' = Waiting
  PROVE  InRound' /\ round' \in RoundStates /\ round'.decided = 0 /\ round'.undecided = 0
  BY EmptySeq DEF InRound, Waiting, RoundStates

LEMMA HubCoreSteps ==
  ASSUME HubInv, HubNext
  PROVE  HubCore'
<1>1. /\ HubShape /\ Behind(view) /\ Behind(durable) /\ InRound
      /\ clock \in Nat /\ startOf \in [Alarms -> Nat] /\ round \in RoundStates
      /\ view \in Counts /\ durable \in Counts
  BY DEF HubInv, HubCore, HubShape
<1>2. ASSUME CommitTries PROVE HubCore'
  <2>1. /\ round.pc = "send" /\ round.batch = <<>> /\ round' = [round EXCEPT !.pc = "cursor"]
        /\ durable' = view /\ UNCHANGED <<clock, startOf, view, received, outrun>>
    BY <1>2 DEF CommitTries
  <2>2. /\ round'.pc = "cursor" /\ round'.batch = <<>> /\ round'.decided = round.decided
        /\ round'.undecided = round.undecided /\ round' \in RoundStates
    BY <1>1, <2>1 DEF RoundStates
  <2>3. HubShape'
    BY <1>1, <2>1, <2>2 DEF HubShape
  <2>4. Behind(view)' /\ Behind(durable)'
    BY <1>1, <2>1 DEF Behind, Through
  <2>5. InRound'
    BY <1>1, <2>1, <2>2 DEF InRound, Reached, Through
  <2> QED BY <2>3, <2>4, <2>5 DEF HubCore
<1>3. ASSUME AdvanceCursor PROVE HubCore'
  <2>1. /\ round.pc = "cursor" /\ round' = Waiting /\ durable' = view'
        /\ UNCHANGED <<clock, startOf, received, outrun>>
    BY <1>3 DEF AdvanceCursor
  <2>2. Target \in Nat /\ Target <= clock
    BY <1>1 DEF Target, HubShape, RoundStates
  <2>3. /\ view' \in Counts /\ view'.fails = view.fails /\ view'.cursor <= clock
        /\ view'.cursor \in {Target, view.cursor}
    BY <1>1, <1>3, <2>2 DEF AdvanceCursor, Counts, HubShape
  <2>4. HubShape'
    BY <1>1, <2>1, <2>3, AtRestInRound DEF HubShape
  <2>5. ASSUME NEW e \in Alarms \ outrun, startOf[e] # 0,
               startOf[e] + ResendWindow <= view'.cursor, ~Through(e, view)
        PROVE  FALSE
    <3>1. ~(startOf[e] + ResendWindow <= view.cursor)
      BY <1>1, <2>5 DEF Behind
    <3>2. startOf[e] + ResendWindow <= Target /\ startOf[e] \in Nat
      BY <1>1, <2>3, <2>5, <3>1
    <3>3. ToSet(round.batch) = {}
      BY <1>1, <2>1 DEF InRound, ToSet
    <3>4. Reached(startOf[e])
      BY <1>1, <2>1, <2>5, <3>3 DEF InRound
    <3>5. round.decided < startOf[e] + ResendWindow
          /\ round.undecided <= startOf[e] + ResendWindow
      BY <3>4 DEF Reached
    <3> QED BY <1>1, <3>2, <3>5, HubConstants DEF Target, RoundStates
  <2>6. Behind(view)' /\ Behind(durable)'
    BY <2>1, <2>3, <2>5 DEF Behind, Through
  <2> QED BY <2>1, <2>4, <2>6, AtRestInRound DEF HubCore
<1>4. ASSUME RoundFails PROVE HubCore'
  <2>1. round' = Waiting /\ UNCHANGED <<clock, startOf, view, durable, received, outrun>>
    BY <1>4 DEF RoundFails
  <2>2. HubShape'
    BY <1>1, <2>1, AtRestInRound DEF HubShape
  <2>3. Behind(view)' /\ Behind(durable)'
    BY <1>1, <2>1 DEF Behind, Through
  <2> QED BY <2>1, <2>2, <2>3, AtRestInRound DEF HubCore
<1>5. ASSUME HubRestarts PROVE HubCore'
  <2>1. round' = Waiting /\ view' = durable /\ UNCHANGED <<clock, startOf, durable, received, outrun>>
    BY <1>5 DEF HubRestarts
  <2>2. HubShape'
    BY <1>1, <2>1, AtRestInRound DEF HubShape
  <2>3. Behind(view)' /\ Behind(durable)'
    BY <1>1, <2>1 DEF Behind, Through
  <2> QED BY <2>1, <2>2, <2>3, AtRestInRound DEF HubCore
<1>6. ASSUME Tick PROVE HubCore'
  <2>1. clock' = clock + 1 /\ UNCHANGED <<startOf, view, durable, round, received, outrun>>
    BY <1>6 DEF Tick
  <2>2. HubShape'
    BY <1>1, <2>1 DEF HubShape, Counts, RoundStates
  <2>3. Behind(view)' /\ Behind(durable)' /\ InRound'
    BY <1>1, <2>1 DEF Behind, Through, InRound, Reached
  <2> QED BY <2>2, <2>3 DEF HubCore
<1>7. ASSUME NEW e \in Alarms, NEW t \in 1..MaxClock, StoreAlarm(e, t) PROVE HubCore'
  <2>1. /\ startOf[e] = 0 /\ t \in 1..clock
        /\ startOf' = [startOf EXCEPT ![e] = t]
        /\ outrun' = IF Outruns(t) THEN outrun \cup {e} ELSE outrun
        /\ UNCHANGED <<clock, view, durable, round, received>>
    BY <1>7 DEF StoreAlarm
  <2>2. /\ t \in Nat /\ t # 0 /\ t <= clock
        /\ startOf' \in [Alarms -> Nat] /\ startOf'[e] = t
        /\ \A d \in Alarms \ {e} : startOf'[d] = startOf[d]
        /\ outrun \subseteq outrun' /\ outrun' \subseteq outrun \cup {e}
    BY <1>1, <2>1
  <2>3. HubShape'
    BY <1>1, <2>1, <2>2 DEF HubShape
  <2>4. ASSUME e \notin outrun'
        PROVE  /\ \A f \in Alarms : startOf[f] < t + ResendWindow
               /\ \A c \in Nat : Attained(c) => c < t + ResendWindow
    <3>1. ~Outruns(t)
      BY <2>1, <2>4
    <3>2. \A f \in Alarms : startOf[f] \in Nat /\ startOf[f] < t + ResendWindow
      BY <1>1, <2>2, <3>1, HubConstants DEF Outruns
    <3>3. ASSUME NEW c \in Nat, Attained(c) PROVE c < t + ResendWindow
      <4>1. CASE c = 0
        BY <2>2, <4>1, HubConstants
      <4>2. CASE c # 0
        <5>1. PICK f \in Alarms : c <= startOf[f]
          BY <3>3, <4>2 DEF Attained
        <5> QED BY <2>2, <3>2, <5>1, HubConstants
      <4> QED BY <4>1, <4>2
    <3> QED BY <3>2, <3>3
  <2>5. ASSUME e \notin outrun'
        PROVE  /\ view.cursor < t + ResendWindow /\ durable.cursor < t + ResendWindow
               /\ round.decided < t + ResendWindow /\ round.undecided <= t + ResendWindow
    <3>1. /\ view.cursor \in Nat /\ durable.cursor \in Nat
          /\ round.decided \in Nat /\ round.undecided \in Nat
      BY <1>1 DEF Counts, RoundStates
    <3>2. /\ Attained(view.cursor) /\ Attained(durable.cursor)
          /\ Attained(round.decided) /\ Attained(round.undecided)
      BY DEF HubInv, HubKnown
    <3>3. /\ view.cursor < t + ResendWindow /\ durable.cursor < t + ResendWindow
          /\ round.decided < t + ResendWindow /\ round.undecided < t + ResendWindow
      BY <2>4, <2>5, <3>1, <3>2
    <3> QED BY <2>2, <3>1, <3>3, HubConstants
  <2>6. Behind(view)' /\ Behind(durable)'
    <3> SUFFICES ASSUME NEW meta \in {view, durable}, NEW d \in Alarms \ outrun',
                        startOf'[d] # 0, startOf'[d] + ResendWindow <= meta.cursor
                 PROVE  Through(d, meta)
      BY <2>1 DEF Behind, Through
    <3>1. d # e
      BY <1>1, <2>2, <2>5, HubConstants DEF Counts
    <3>2. d \in Alarms \ outrun /\ startOf'[d] = startOf[d]
      BY <2>2, <3>1
    <3> QED BY <1>1, <3>2 DEF Behind
  <2>7. /\ round.batch \in Seq(Alarms)
        /\ \A i \in 1..Len(round.batch) :
            /\ round.batch[i] \in Alarms \ {e} /\ startOf[round.batch[i]] <= clock
    BY <1>1, <2>1, ElementOfSeq DEF InRound, RoundStates, HubShape
  <2>8. \A b \in ToSet(round.batch) : b \in Alarms \ {e}
    BY <2>7, LenProperties DEF ToSet
  <2>9. \A b \in ToSet(round.batch) : startOf[b] \in Nat /\ startOf'[b] = startOf[b]
    BY <1>1, <2>2, <2>8
  <2>10. ASSUME NEW d \in Alarms \ outrun', startOf'[d] # 0, ~Through(d, view),
                d \notin ToSet(round.batch), round.pc # "wait"
         PROVE  Reached(startOf[d])'
    <3>1. CASE d = e
      <4>1. \A b \in ToSet(round.batch) : startOf'[b] < t + ResendWindow
        BY <2>4, <2>8, <2>9, <3>1
      <4> QED BY <2>1, <2>2, <2>5, <3>1, <4>1 DEF Reached
    <3>2. CASE d # e
      <4>1. Reached(startOf[d]) /\ startOf'[d] = startOf[d]
        BY <1>1, <2>2, <2>10, <3>2 DEF InRound
      <4> QED BY <2>1, <2>9, <4>1 DEF Reached
    <3> QED BY <3>1, <3>2
  <2>11. InRound'
    <3>1. \A i \in 1..Len(round.batch) : startOf'[round.batch[i]] = startOf[round.batch[i]]
      BY <2>2, <2>7
    <3>2. /\ round.pc = "wait" => round = Waiting
          /\ round.pc = "cursor" => round.batch = <<>>
          /\ \A i \in 1..Len(round.batch) :
              /\ startOf'[round.batch[i]] # 0 /\ round.decided <= startOf'[round.batch[i]]
              /\ \A j \in 1..Len(round.batch) : i < j =>
                    startOf'[round.batch[i]] <= startOf'[round.batch[j]]
      BY <1>1, <3>1 DEF InRound
    <3>3. round.pc # "wait" => \A d \in Alarms \ outrun' : startOf'[d] # 0 =>
            Through(d, view) \/ d \in ToSet(round.batch) \/ Reached(startOf[d])'
      BY <2>10
    <3> QED BY <2>1, <3>2, <3>3 DEF InRound, Through
  <2> QED BY <2>3, <2>6, <2>11 DEF HubCore
<1> QED BY <1>2, <1>3, <1>4, <1>5, <1>6, <1>7, BatchesBegin, SendsOn DEF HubNext

\* The cursor moves to where a round got, and a round gets to where an event begins.
LEMMA HubKnows == ASSUME HubInv, HubNext PROVE HubKnown'
<1>1. /\ HubShape /\ InRound /\ HubKnown /\ round \in RoundStates
      /\ view \in Counts /\ durable \in Counts /\ startOf \in [Alarms -> Nat]
  BY DEF HubInv, HubCore, HubShape
<1>2. CASE UNCHANGED <<startOf, view, durable>> /\ round'.decided \in {0, round.decided}
           /\ round'.undecided \in {0, round.undecided}
  BY <1>1, <1>2 DEF HubKnown, Attained
<1>3. CASE BeginRound \/ RoundFails
  <2>1. /\ UNCHANGED <<startOf, view, durable>>
        /\ round'.decided = 0 /\ round'.undecided = 0
    <3>1. CASE BeginRound
      <4>1. PICK batch \in Batches : round' = [Waiting EXCEPT !.pc = "send", !.batch = batch]
        BY <3>1 DEF BeginRound
      <4> QED BY <3>1, <4>1 DEF BeginRound, Waiting
    <3>2. CASE RoundFails
      BY <3>2 DEF RoundFails, Waiting
    <3> QED BY <1>3, <3>1, <3>2
  <2> QED BY <1>2, <2>1
<1>4. CASE CommitTries
  <2>1. /\ startOf' = startOf /\ view' = view /\ durable' = view
        /\ round'.decided = round.decided /\ round'.undecided = round.undecided
    BY <1>1, <1>4 DEF CommitTries, RoundStates
  <2> QED BY <1>1, <2>1 DEF HubKnown, Attained
<1>5. CASE AdvanceCursor
  <2>1. Attained(Target)
    <3>1. round.decided \in Nat /\ round.undecided \in Nat
      BY <1>1 DEF RoundStates
    <3>2. CASE round.undecided # 0
      <4>1. PICK f \in Alarms : round.undecided <= startOf[f]
        BY <1>1, <3>2 DEF HubKnown, Attained
      <4>2. Target <= startOf[f]
        BY <1>1, <3>1, <3>2, <4>1 DEF Target
      <4> QED BY <4>2 DEF Attained
    <3>3. CASE round.undecided = 0
      BY <1>1, <3>3 DEF Target, HubKnown
    <3> QED BY <3>2, <3>3
  <2>2. /\ startOf' = startOf /\ durable' = view' /\ view'.cursor \in {Target, view.cursor}
        /\ round'.decided = 0 /\ round'.undecided = 0
    BY <1>1, <1>5 DEF AdvanceCursor, Counts, Waiting
  <2> QED BY <1>1, <2>1, <2>2 DEF HubKnown, Attained
<1>6. CASE HubRestarts
  <2>1. /\ startOf' = startOf /\ view' = durable /\ durable' = durable
        /\ round'.decided = 0 /\ round'.undecided = 0
    BY <1>6 DEF HubRestarts, Waiting
  <2> QED BY <1>1, <2>1 DEF HubKnown, Attained
<1>7. CASE Tick
  BY <1>2, <1>7 DEF Tick
<1>8. ASSUME NEW accepted \in SUBSET Outlets, SendNext(accepted) PROVE HubKnown'
  <2> DEFINE e == Head(round.batch)
  <2>1. e \in Alarms
    BY <1>1, <1>8, HeadTailProperties DEF SendNext, RoundStates
  <2>2. /\ startOf' = startOf /\ durable' = durable /\ view'.cursor = view.cursor
    BY <1>1, <1>8 DEF SendNext, Counts
  <2>3. /\ round'.decided \in {round.decided, startOf[e]}
        /\ round'.undecided \in {round.undecided, startOf[e]}
    BY <1>1, <1>8 DEF SendNext, RoundStates
  <2>4. Attained(startOf[e])
    BY <1>1, <2>1 DEF Attained
  <2> HIDE DEF e
  <2> QED BY <1>1, <2>2, <2>3, <2>4 DEF HubKnown, Attained
<1>9. ASSUME NEW e \in Alarms, NEW t \in 1..MaxClock, StoreAlarm(e, t) PROVE HubKnown'
  <2>1. /\ startOf[e] = 0 /\ startOf' = [startOf EXCEPT ![e] = t]
        /\ UNCHANGED <<view, durable, round>>
    BY <1>9 DEF StoreAlarm
  <2>2. ASSUME NEW c \in Nat, Attained(c) PROVE c # 0 => \E f \in Alarms : c <= startOf'[f]
    <3> SUFFICES ASSUME c # 0 PROVE \E f \in Alarms : c <= startOf'[f]
      OBVIOUS
    <3>1. PICK f \in Alarms : c <= startOf[f]
      BY <2>2 DEF Attained
    <3>2. f # e /\ startOf'[f] = startOf[f]
      BY <1>1, <2>1, <3>1
    <3> QED BY <3>1, <3>2
  <2>3. /\ view.cursor \in Nat /\ durable.cursor \in Nat
        /\ round.decided \in Nat /\ round.undecided \in Nat
    BY <1>1 DEF Counts, RoundStates
  <2> QED BY <1>1, <2>1, <2>2, <2>3 DEF HubKnown, Attained
<1> QED BY <1>3, <1>4, <1>5, <1>6, <1>7, <1>8, <1>9 DEF HubNext

LEMMA HubSteps == ASSUME HubInv, HubNext PROVE HubInv'
  BY HubCoreSteps, HubKnows DEF HubInv

LEMMA HubRests == ASSUME HubInv, UNCHANGED hubvars PROVE HubInv'
  BY DEF HubInv, HubCore, HubKnown, Attained, HubShape, Behind, Through, InRound, Reached, hubvars

LEMMA HubTells == ASSUME HubInv PROVE HubHonest
<1>1. HubShape /\ Behind(view)
  BY DEF HubInv, HubCore
<1> SUFFICES ASSUME NEW e \in Alarms \ outrun, startOf[e] # 0, startOf[e] <= Since
             PROVE  Through(e, view)
  BY DEF HubHonest, Through
<1>2. startOf[e] \in Nat /\ view.cursor \in Nat
  BY <1>1 DEF HubShape, Counts
<1>3. startOf[e] + ResendWindow <= view.cursor
  BY <1>2, HubConstants DEF Since
<1> QED BY <1>1, <1>3 DEF Behind
-------------------------------------------------------------------------------
(* SemanticUpdater: descriptions of events that are still open. *)

Notes == [st : {"none", "retry", "failed", "noEvidence", "published", "backoff"}, tries : Nat,
          digest : Nat]
Described == [digest : Nat, shown : Nat]
UpStates == [pc : {"scan", "evaluate", "drain", "read", "model", "publish", "ended"},
             rows : Seq(OpenEvents), next : OpenEvents \cup {0}, e : OpenEvents \cup {0}, bytes : Nat]
UpShape ==
    /\ assetOf \in [OpenEvents -> Nat] /\ fileOf \in [OpenEvents -> Nat]
    /\ updates \in [OpenEvents -> Seq(Described)]
    /\ note \in [OpenEvents -> Notes] /\ shownAs \subseteq OpenEvents
    /\ waiting \in Seq(OpenEvents) /\ up \in UpStates
    /\ up.pc \in {"read", "model", "publish"} <=> up.e # 0
\* No two descriptions of an event are of the same bytes.
AllDiffer(s) == \A i, j \in 1..Len(s) : s[i].digest = s[j].digest => i = j
\* What was read for the model was not described before, and nobody else describes.
DescribedApart ==
    /\ \A e \in OpenEvents : AllDiffer(updates[e])
    /\ up.pc \in {"model", "publish"} => ~LedgerHit(up.e, up.bytes)
    /\ asked = FALSE
QueueOnce ==
    /\ \A i, j \in 1..Len(waiting) : waiting[i] = waiting[j] => i = j
    /\ up.e \notin ToSet(waiting) /\ Len(waiting) <= WaitingMax
UpdaterInv == UpShape /\ DescribedApart /\ QueueOnce /\ StateIsTrue

LEMMA UpdaterConstants ==
  /\ OpenEvents \subseteq Nat \ {0} /\ Digests \subseteq Nat \ {0} /\ IsFiniteSet(OpenEvents)
  /\ WaitingMax \in Nat \ {0} /\ RetryMax \in Nat /\ ScanBatch \in Nat \ {0}
  BY UpdaterAssumption

\* The records are true: the end of trying follows all tries.
TruthfulNotes(n) == /\ n \in [OpenEvents -> Notes]
                    /\ \A e \in OpenEvents : n[e].st = "failed" => n[e].tries > RetryMax

LEMMA NotesStayTrue ==
  ASSUME TruthfulNotes(note), NEW e \in OpenEvents, NEW d \in Nat
  PROVE  /\ \A st \in {"noEvidence", "published", "backoff"} :
              Noted(e, st, d) => TruthfulNotes(note')
         /\ FailNote(e, d) => TruthfulNotes(note')
         /\ TruthfulNotes([note EXCEPT ![e] = NoNote])
<1>1. note[e] \in Notes /\ note[e].tries \in Nat /\ note[e].digest \in Nat
  BY DEF TruthfulNotes, Notes
<1>2. ASSUME NEW r \in Notes, r.st = "failed" => r.tries > RetryMax
      PROVE  TruthfulNotes([note EXCEPT ![e] = r])
  BY <1>2 DEF TruthfulNotes
<1>3. ASSUME NEW st \in {"noEvidence", "published", "backoff"}, Noted(e, st, d)
      PROVE  TruthfulNotes(note')
  <2> DEFINE r == [st |-> st, tries |-> note[e].tries,
                   digest |-> IF d = 0 THEN note[e].digest ELSE d]
  <2>1. r \in Notes /\ r.st # "failed"
    BY <1>1 DEF Notes
  <2>2. note' = [note EXCEPT ![e] = r]
    BY <1>3 DEF Noted
  <2> HIDE DEF r
  <2> QED BY <1>2, <2>1, <2>2
<1>4. ASSUME FailNote(e, d) PROVE TruthfulNotes(note')
  <2> DEFINE n == note[e].tries + 1
             r == [st |-> IF n > RetryMax THEN "failed" ELSE "retry", tries |-> n,
                   digest |-> IF d = 0 THEN note[e].digest ELSE d]
  <2>1. n \in Nat
    BY <1>1
  <2>2. note' = [note EXCEPT ![e] = r]
    BY <1>4 DEF FailNote
  <2> HIDE DEF n
  <2>3. r \in Notes /\ (r.st = "failed" => r.tries > RetryMax)
    BY <1>1, <2>1 DEF Notes
  <2> HIDE DEF r
  <2> QED BY <1>2, <2>2, <2>3
<1>5. NoNote \in Notes /\ NoNote.st # "failed"
  BY DEF NoNote, Notes
<1> QED BY <1>2, <1>3, <1>4, <1>5

\* What every step but a publication has to show.
LEMMA UpdaterFrame ==
  ASSUME UpdaterInv, updates' = updates, asked' = FALSE,
         assetOf' \in [OpenEvents -> Nat], fileOf' \in [OpenEvents -> Nat],
         TruthfulNotes(note'),
         shownAs' \subseteq OpenEvents, \A e \in shownAs' : updates[e] # <<>>,
         waiting' \in Seq(OpenEvents), Once(waiting'), Len(waiting') <= WaitingMax,
         up' \in UpStates, up'.pc \in {"read", "model", "publish"} <=> up'.e # 0,
         up'.e \notin ToSet(waiting'),
         up'.pc \in {"model", "publish"} => ~LedgerHit(up'.e, up'.bytes)
  PROVE  UpdaterInv'
<1>1. UpShape'
  BY DEF UpdaterInv, UpShape, TruthfulNotes
<1>2. DescribedApart'
  BY DEF UpdaterInv, DescribedApart, AllDiffer, LedgerHit
<1>3. QueueOnce'
  BY DEF QueueOnce, Once
<1>4. StateIsTrue'
  BY DEF StateIsTrue, TruthfulNotes
<1> QED BY <1>1, <1>2, <1>3, <1>4 DEF UpdaterInv

LEMMA UpdaterFacts ==
  ASSUME UpdaterInv
  PROVE  /\ asked = FALSE /\ assetOf \in [OpenEvents -> Nat] /\ fileOf \in [OpenEvents -> Nat]
         /\ updates \in [OpenEvents -> Seq(Described)]
         /\ TruthfulNotes(note)
         /\ shownAs \subseteq OpenEvents /\ \A e \in shownAs : updates[e] # <<>>
         /\ waiting \in Seq(OpenEvents) /\ Once(waiting) /\ Len(waiting) <= WaitingMax
         /\ up \in UpStates /\ (up.pc \in {"read", "model", "publish"} <=> up.e # 0)
         /\ up.e \notin ToSet(waiting)
         /\ up.pc \in {"model", "publish"} => ~LedgerHit(up.e, up.bytes)
  BY DEF UpdaterInv, UpShape, DescribedApart, QueueOnce, StateIsTrue, TruthfulNotes, Once

\* The thread between two events: nothing is served.
LEMMA AtScan ==
  /\ Scanning \in UpStates /\ Scanning.pc = "scan" /\ Scanning.e = 0
  /\ \A pc \in {"drain", "ended"} : LET u == [Scanning EXCEPT !.pc = pc]
                                   IN  u \in UpStates /\ u.pc = pc /\ u.e = 0
  BY EmptySeq DEF Scanning, UpStates

LEMMA NobodyIsZero == ASSUME NEW s \in Seq(OpenEvents) PROVE 0 \notin ToSet(s)
  BY LineFacts, UpdaterConstants

LEMMA HitIsDescribed ==
  ASSUME NEW e, NEW d, LedgerHit(e, d) PROVE updates[e] # <<>>
  BY DEF LedgerHit, ToSet

LEMMA UpdaterBegins == UpdaterInit => UpdaterInv
<1> SUFFICES ASSUME UpdaterInit PROVE UpdaterInv
  OBVIOUS
<1> USE DEF UpdaterInit
<1>1. Len(<<>>) = 0 /\ ToSet(<<>>) = {}
  BY DEF ToSet
<1>2. UpShape
  BY EmptySeq, AtScan DEF UpShape, NoNote, Notes
<1>3. DescribedApart
  BY <1>1, AtScan DEF DescribedApart, AllDiffer
<1>4. QueueOnce
  BY <1>1, UpdaterConstants DEF QueueOnce
<1>5. StateIsTrue
  BY DEF StateIsTrue, NoNote
<1> QED BY <1>2, <1>3, <1>4, <1>5 DEF UpdaterInv

LEMMA RowsAreEvents ==
  ASSUME NEW open \in SUBSET OpenEvents, NEW scanned \in BatchOf(open)
  PROVE  scanned \in Seq(OpenEvents)
<1> DEFINE n == IF Cardinality(open) < ScanBatch THEN Cardinality(open) ELSE ScanBatch
<1>1. n \in Nat
  BY UpdaterConstants, FS_Subset, FS_CardinalityType
<1>2. scanned \in [1..n -> open]
  BY DEF BatchOf
<1> HIDE DEF n
<1> QED BY <1>1, <1>2, SeqDef

LEMMA UpdaterSearches ==
  ASSUME UpdaterInv, BeginScan \/ EndScan \/ ScanRaises \/ TakeItem \/ UpdaterRestarts
  PROVE  UpdaterInv'
<1>1. CASE BeginScan
  <2>1. PICK scanned \in BatchOf({e \in OpenEvents \ closed : e > place}) :
          up' = [Scanning EXCEPT !.pc = "evaluate", !.rows = scanned,
                                 !.next = IF Len(scanned) >= ScanBatch THEN Last(scanned) ELSE 0]
    BY <1>1 DEF BeginScan
  <2>2. UNCHANGED <<tables, memoryOf, asked>>
    BY <1>1 DEF BeginScan
  <2>3. scanned \in Seq(OpenEvents)
    BY RowsAreEvents
  <2>4. up' \in UpStates /\ up'.pc = "evaluate" /\ up'.e = 0
    <3> DEFINE next == IF Len(scanned) >= ScanBatch THEN Last(scanned) ELSE 0
    <3>1. next \in OpenEvents \cup {0}
      <4>1. CASE Len(scanned) >= ScanBatch
        <5>1. Len(scanned) \in Nat /\ Len(scanned) >= 1
          BY <2>3, <4>1, UpdaterConstants, LenProperties
        <5>2. scanned[Len(scanned)] \in OpenEvents
          BY <2>3, <5>1, ElementOfSeq
        <5> QED BY <4>1, <5>2 DEF Last
      <4> QED BY <4>1
    <3>2. up' = [Scanning EXCEPT !.pc = "evaluate", !.rows = scanned, !.next = next]
      BY <2>1
    <3> HIDE DEF next
    <3> QED BY <2>3, <3>1, <3>2 DEF Scanning, UpStates
  <2> QED BY <2>2, <2>4, UpdaterFacts, UpdaterFrame, NobodyIsZero DEF tables, memoryOf
<1>2. CASE EndScan
  <2>1. up.pc = "evaluate" /\ up' = [up EXCEPT !.pc = "drain"]
        /\ UNCHANGED <<assetOf, fileOf, updates, memoryOf, asked>>
    BY <1>2 DEF EndScan
  <2>2. up' \in UpStates /\ up'.pc = "drain" /\ up'.e = up.e
    BY <2>1, UpdaterFacts DEF UpStates
  <2> QED BY <2>1, <2>2, UpdaterFacts, UpdaterFrame DEF memoryOf
<1>3. CASE TakeItem
  <2>1. up.pc = "drain" /\ UNCHANGED <<tables, note, shownAs, asked>>
    BY <1>3 DEF TakeItem
  <2>2. CASE waiting = <<>>
    <3>1. up' = Scanning /\ waiting' = waiting
      BY <1>3, <2>2 DEF TakeItem
    <3> QED BY <2>1, <3>1, UpdaterFacts, UpdaterFrame, NobodyIsZero, AtScan DEF tables
  <2>3. CASE waiting # <<>>
    <3>1. up' = [Scanning EXCEPT !.pc = "read", !.e = Head(waiting)]
          /\ waiting' = Tail(waiting)
      BY <1>3, <2>3 DEF TakeItem
    <3>2. /\ Head(waiting) \in OpenEvents /\ waiting' \in Seq(OpenEvents)
          /\ Once(waiting') /\ Head(waiting) \notin ToSet(waiting')
      BY <2>3, <3>1, UpdaterFacts, LineFacts, OnceFacts
    <3>3. Len(waiting') <= WaitingMax
      BY <2>3, <3>1, UpdaterFacts, UpdaterConstants, HeadTailProperties
    <3>4. up' \in UpStates /\ up'.pc = "read" /\ up'.e = Head(waiting) /\ up'.e # 0
      BY <3>1, <3>2, AtScan, UpdaterConstants DEF UpStates
    <3> QED BY <2>1, <3>2, <3>3, <3>4, UpdaterFacts, UpdaterFrame DEF tables
  <2> QED BY <2>2, <2>3
<1>4. CASE UpdaterRestarts
  <2>1. /\ note' = [e \in OpenEvents |-> NoNote] /\ shownAs' = {} /\ waiting' = <<>>
        /\ up' = Scanning /\ UNCHANGED <<tables, asked>>
    BY <1>4 DEF UpdaterRestarts, Forgotten
  <2>2. TruthfulNotes(note')
    BY <2>1 DEF TruthfulNotes, NoNote, Notes
  <2>3. waiting' \in Seq(OpenEvents) /\ Once(waiting') /\ Len(waiting') <= WaitingMax
        /\ ToSet(waiting') = {}
    BY <2>1, EmptySeq, UpdaterConstants DEF Once, ToSet
  <2> QED BY <2>1, <2>2, <2>3, UpdaterFacts, UpdaterFrame, AtScan DEF tables
<1>5. CASE ScanRaises
  <2>1. up' = [Scanning EXCEPT !.pc = "ended"] /\ UNCHANGED <<tables, memoryOf, asked>>
    BY <1>5 DEF ScanRaises
  <2>2. up' \in UpStates /\ up'.pc = "ended" /\ up'.e = 0
    BY <2>1, AtScan
  <2> QED BY <2>1, <2>2, UpdaterFacts, UpdaterFrame, NobodyIsZero DEF tables, memoryOf
<1> QED BY <1>1, <1>2, <1>3, <1>4, <1>5

LEMMA UpdaterEvaluates ==
  ASSUME UpdaterInv, EvaluateNext
  PROVE  UpdaterInv'
<1> DEFINE e == Head(up.rows)
           d == fileOf[e]
<1>1. /\ up.pc = "evaluate" /\ up.rows # <<>> /\ up' = [up EXCEPT !.rows = Tail(@)]
      /\ UNCHANGED <<assetOf, fileOf, updates, asked>>
      /\ \/ EvaluateEvent(e) /\ e \notin ToSet(waiting)
         \/ UNCHANGED memoryOf
  BY DEF EvaluateNext, tables
<1>2. up.rows \in Seq(OpenEvents) /\ up \in UpStates /\ up.e = 0
  BY <1>1, UpdaterFacts DEF UpStates
<1>3. e \in OpenEvents /\ Tail(up.rows) \in Seq(OpenEvents)
  BY <1>1, <1>2, LineFacts, UpdaterConstants
<1>4. d \in Nat
  BY <1>3, UpdaterFacts
<1>5. up' \in UpStates /\ up'.pc = "evaluate" /\ up'.e = 0
  BY <1>1, <1>2, <1>3 DEF UpStates
<1> HIDE DEF e, d
<1>6. ASSUME TruthfulNotes(note'), shownAs' \subseteq OpenEvents,
             \A x \in shownAs' : updates[x] # <<>>,
             waiting' \in Seq(OpenEvents), Once(waiting'), Len(waiting') <= WaitingMax
      PROVE  UpdaterInv'
  BY <1>1, <1>5, <1>6, UpdaterFacts, UpdaterFrame, NobodyIsZero
<1>7. CASE UNCHANGED memoryOf
  BY <1>6, <1>7, UpdaterFacts DEF memoryOf
<1>8. CASE EvaluateEvent(e) /\ e \notin ToSet(waiting)
  <2> DEFINE exhausted == note[e].st = "failed" /\ note[e].digest = d
  <2>1. CASE assetOf[e] = 0 \/ d = 0
    <3>1. Noted(e, "noEvidence", 0) /\ UNCHANGED <<shownAs, waiting>>
      BY <1>8, <2>1 DEF EvaluateEvent, d
    <3>2. TruthfulNotes(note')
      BY <1>3, <3>1, UpdaterFacts, NotesStayTrue
    <3> QED BY <1>6, <3>1, <3>2, UpdaterFacts
  <2>2. CASE ~(assetOf[e] = 0 \/ d = 0) /\ exhausted
    BY <1>7, <1>8, <2>2 DEF EvaluateEvent, d
  <2>3. CASE ~(assetOf[e] = 0 \/ d = 0) /\ ~exhausted /\ LedgerHit(e, d)
    <3>1. Noted(e, "published", d) /\ shownAs' = shownAs \cup {e} /\ waiting' = waiting
      BY <1>8, <2>3 DEF EvaluateEvent, d
    <3>2. TruthfulNotes(note')
      BY <1>3, <1>4, <3>1, UpdaterFacts, NotesStayTrue
    <3>3. updates[e] # <<>>
      BY <2>3, HitIsDescribed
    <3> QED BY <1>3, <1>6, <3>1, <3>2, <3>3, UpdaterFacts
  <2>4. CASE ~(assetOf[e] = 0 \/ d = 0) /\ ~exhausted /\ ~LedgerHit(e, d)
    <3>1. CASE Len(waiting) >= WaitingMax
      <4>1. Noted(e, "backoff", d) /\ UNCHANGED <<shownAs, waiting>>
        BY <1>8, <2>4, <3>1 DEF EvaluateEvent, d
      <4>2. TruthfulNotes(note')
        BY <1>3, <1>4, <4>1, UpdaterFacts, NotesStayTrue
      <4> QED BY <1>6, <4>1, <4>2, UpdaterFacts
    <3>2. CASE ~(Len(waiting) >= WaitingMax)
      <4>1. /\ note' = IF note[e].st = "retry" THEN note ELSE [note EXCEPT ![e] = NoNote]
            /\ waiting' = Append(waiting, e) /\ shownAs' = shownAs
        BY <1>8, <2>4, <3>2 DEF EvaluateEvent, d
      <4>2. TruthfulNotes(note')
        BY <1>3, <1>4, <4>1, UpdaterFacts, NotesStayTrue
      <4>3. waiting' \in Seq(OpenEvents) /\ Once(waiting')
        BY <1>3, <1>8, <4>1, UpdaterFacts, AppendFacts, OnceFacts
      <4>4. Len(waiting') = Len(waiting) + 1 /\ Len(waiting) \in Nat
        BY <1>3, <4>1, UpdaterFacts, AppendProperties, LenProperties
      <4>5. Len(waiting') <= WaitingMax
        BY <3>2, <4>4, UpdaterConstants
      <4> QED BY <1>6, <4>1, <4>2, <4>3, <4>5, UpdaterFacts
    <3> QED BY <3>1, <3>2
  <2> QED BY <2>1, <2>2, <2>3, <2>4
<1> QED BY <1>1, <1>7, <1>8

LEMMA UpdaterServes ==
  ASSUME UpdaterInv, ReadEvidence \/ ModelFails \/ Understood \/ ProcessingFails
  PROVE  UpdaterInv'
<1>1. /\ up.pc \in {"read", "model", "publish"} /\ up \in UpStates /\ up.e \in OpenEvents
      /\ up.e # 0 /\ waiting' = waiting /\ updates' = updates
      /\ UNCHANGED <<assetOf, fileOf>>
  BY UpdaterFacts DEF ReadEvidence, ModelFails, Understood, ProcessingFails, tables, memoryOf,
     UpStates
<1>2. up.bytes \in Nat /\ fileOf[up.e] \in Nat
  BY <1>1, UpdaterFacts DEF UpStates
<1>3. ASSUME BackToQueue, asked' = FALSE, TruthfulNotes(note'),
             \/ shownAs' = shownAs
             \/ shownAs' = shownAs \cup {up.e} /\ updates[up.e] # <<>>
      PROVE  UpdaterInv'
  <2>1. up' \in UpStates /\ up'.pc = "drain" /\ up'.e = 0
    BY <1>3, AtScan DEF BackToQueue
  <2> QED BY <1>1, <1>3, <2>1, UpdaterFacts, UpdaterFrame, NobodyIsZero
<1>4. ASSUME asked' = FALSE, note' = note, shownAs' = shownAs, up' \in UpStates,
             up'.pc \in {"model", "publish"}, up'.e = up.e, ~LedgerHit(up'.e, up'.bytes)
      PROVE  UpdaterInv'
  BY <1>1, <1>4, UpdaterFacts, UpdaterFrame
<1>5. CASE ReadEvidence
  <2> DEFINE e == up.e
             d == fileOf[e]
  <2>1. asked' = FALSE /\ d \in Nat /\ e \in OpenEvents
    BY <1>1, <1>2, <1>5, UpdaterFacts DEF ReadEvidence
  <2>2. CASE assetOf[e] = 0
    <3>1. Noted(e, "noEvidence", 0) /\ BackToQueue /\ shownAs' = shownAs
      BY <1>5, <2>2 DEF ReadEvidence
    <3> QED BY <1>3, <2>1, <3>1, UpdaterFacts, NotesStayTrue
  <2>3. CASE assetOf[e] # 0 /\ d # assetOf[e]
    <3>1. FailNote(e, 0) /\ BackToQueue /\ shownAs' = shownAs
      BY <1>5, <2>3 DEF ReadEvidence
    <3> QED BY <1>3, <2>1, <3>1, UpdaterFacts, NotesStayTrue
  <2>4. CASE assetOf[e] # 0 /\ d = assetOf[e] /\ LedgerHit(e, d)
    <3>1. Noted(e, "published", d) /\ BackToQueue /\ shownAs' = shownAs \cup {e}
      BY <1>5, <2>4 DEF ReadEvidence
    <3>2. TruthfulNotes(note')
      BY <2>1, <3>1, UpdaterFacts, NotesStayTrue
    <3> QED BY <1>3, <2>1, <2>4, <3>1, <3>2, HitIsDescribed
  <2>5. CASE assetOf[e] # 0 /\ d = assetOf[e] /\ ~LedgerHit(e, d)
    <3>1. up' = [up EXCEPT !.pc = "model", !.bytes = d] /\ UNCHANGED <<note, shownAs>>
      BY <1>5, <2>5 DEF ReadEvidence
    <3>2. up' \in UpStates /\ up'.pc = "model" /\ up'.e = e /\ up'.bytes = d
      BY <1>1, <2>1, <3>1 DEF UpStates
    <3> QED BY <1>4, <2>1, <2>5, <3>1, <3>2
  <2> QED BY <2>2, <2>3, <2>4, <2>5
<1>6. CASE ModelFails
  <2>1. up.pc = "model" /\ FailNote(up.e, up.bytes) /\ BackToQueue /\ shownAs' = shownAs
        /\ asked' = (asked \/ LedgerHit(up.e, up.bytes))
    BY <1>6 DEF ModelFails
  <2>2. asked' = FALSE
    BY <2>1, UpdaterFacts
  <2> QED BY <1>1, <1>2, <1>3, <2>1, <2>2, UpdaterFacts, NotesStayTrue
<1>7. CASE Understood
  <2>1. up.pc = "model" /\ up' = [up EXCEPT !.pc = "publish"] /\ UNCHANGED memoryOf
        /\ asked' = (asked \/ LedgerHit(up.e, up.bytes))
    BY <1>7 DEF Understood
  <2>2. asked' = FALSE
    BY <2>1, UpdaterFacts
  <2>3. up' \in UpStates /\ up'.pc = "publish" /\ up'.e = up.e /\ up'.bytes = up.bytes
    BY <1>1, <2>1 DEF UpStates
  <2> QED BY <1>4, <2>1, <2>2, <2>3, UpdaterFacts DEF memoryOf
<1>8. CASE ProcessingFails
  <2>1. FailNote(up.e, 0) /\ BackToQueue /\ shownAs' = shownAs /\ asked' = asked
    BY <1>8 DEF ProcessingFails
  <2> QED BY <1>1, <1>3, <2>1, UpdaterFacts, NotesStayTrue
<1> QED BY <1>5, <1>6, <1>7, <1>8

LEMMA UpdaterPublishes ==
  ASSUME UpdaterInv, PublishDescription
  PROVE  UpdaterInv'
<1> DEFINE e == up.e
           new == [digest |-> up.bytes, shown |-> up.bytes]
<1>1. /\ up.pc = "publish" /\ BackToQueue /\ shownAs' = shownAs \cup {e}
      /\ UNCHANGED <<assetOf, fileOf, waiting, asked>>
  BY DEF PublishDescription
<1>2. /\ e \in OpenEvents /\ up.bytes \in Nat /\ new \in Described
      /\ ~LedgerHit(e, up.bytes) /\ updates \in [OpenEvents -> Seq(Described)]
      /\ updates[e] \in Seq(Described)
  BY <1>1, UpdaterFacts DEF UpStates, Described
<1>3. /\ updates' = [updates EXCEPT ![e] = Append(@, new)]
      /\ note' = [note EXCEPT ![e] = NoNote]
  BY <1>2 DEF PublishDescription
<1>4. TruthfulNotes(note')
  BY <1>2, <1>3, UpdaterFacts, NotesStayTrue
<1> DEFINE was == updates[e]
           is == Append(was, new)
<1>5. /\ is \in Seq(Described) /\ Len(is) = Len(was) + 1 /\ Len(was) \in Nat
      /\ \A i \in 1..Len(was) : is[i] = was[i]
      /\ is[Len(was) + 1] = new
  BY <1>2, AppendProperties, LenProperties
<1>6. updates' \in [OpenEvents -> Seq(Described)] /\ updates'[e] = is
      /\ \A x \in OpenEvents \ {e} : updates'[x] = updates[x]
  BY <1>2, <1>3, <1>5
<1>7. \A i \in 1..Len(was) : was[i].digest # up.bytes
  <2>1. \A i \in 1..Len(was) : was[i] \in ToSet(was)
    BY <1>2, LineFacts
  <2> QED BY <1>2, <2>1 DEF LedgerHit
<1>8. AllDiffer(was)
  BY <1>2 DEF UpdaterInv, DescribedApart
<1> HIDE DEF was, is
<1>9. new.digest = up.bytes
  OBVIOUS
<1> HIDE DEF new
<1>10. AllDiffer(is)
  <2>1. \A i \in 1..Len(was) + 1 : i \in 1..Len(was) \/ i = Len(was) + 1
    BY <1>5
  <2> SUFFICES ASSUME NEW i \in 1..Len(was) + 1, NEW j \in 1..Len(was) + 1,
                      is[i].digest = is[j].digest
               PROVE  i = j
    BY <1>5 DEF AllDiffer
  <2>2. CASE i \in 1..Len(was) /\ j \in 1..Len(was)
    BY <1>5, <1>8, <2>2 DEF AllDiffer
  <2>3. CASE i = Len(was) + 1 /\ j \in 1..Len(was)
    BY <1>5, <1>7, <1>9, <2>3
  <2>4. CASE j = Len(was) + 1 /\ i \in 1..Len(was)
    BY <1>5, <1>7, <1>9, <2>4
  <2> QED BY <2>1, <2>2, <2>3, <2>4
<1>11. updates'[e] # <<>>
  <2>1. Len(is) # 0
    BY <1>5
  <2> QED BY <1>6, <2>1
<1>12. up' \in UpStates /\ up'.pc = "drain" /\ up'.e = 0
  BY <1>1, AtScan DEF BackToQueue
<1>13. UpShape'
  BY <1>1, <1>2, <1>4, <1>6, <1>12, UpdaterFacts DEF UpShape, TruthfulNotes
<1>14. DescribedApart'
  <2>1. \A x \in OpenEvents : AllDiffer(updates'[x])
    BY <1>6, <1>8, <1>10 DEF UpdaterInv, DescribedApart
  <2> QED BY <1>1, <1>12, <2>1, UpdaterFacts DEF DescribedApart, AllDiffer
<1>15. QueueOnce'
  BY <1>1, <1>12, UpdaterFacts, NobodyIsZero DEF QueueOnce, Once
<1>16. StateIsTrue'
  BY <1>1, <1>2, <1>4, <1>6, <1>11, UpdaterFacts DEF StateIsTrue, TruthfulNotes
<1> QED BY <1>13, <1>14, <1>15, <1>16 DEF UpdaterInv

LEMMA UpdaterSteps ==
  ASSUME UpdaterInv, UpdaterNext
  PROVE  UpdaterInv'
<1>1. CASE \E e \in OpenEvents : EventEnds(e) \/ FileRecorded(e)
  <2>1. /\ UNCHANGED <<updates, memoryOf, up, asked, fileOf>>
        /\ assetOf' \in [OpenEvents -> Nat]
    BY <1>1, UpdaterFacts DEF EventEnds, FileRecorded
  <2> QED BY <2>1, UpdaterFacts, UpdaterFrame DEF memoryOf
<1>2. CASE \E e \in OpenEvents, d \in Digests \cup {0} : FileChanges(e, d)
  <2>1. /\ UNCHANGED <<updates, memoryOf, up, asked, assetOf>>
        /\ fileOf' \in [OpenEvents -> Nat]
    BY <1>2, UpdaterFacts, UpdaterConstants DEF FileChanges
  <2> QED BY <2>1, UpdaterFacts, UpdaterFrame DEF memoryOf
<1> QED BY <1>1, <1>2, UpdaterSearches, UpdaterEvaluates, UpdaterServes, UpdaterPublishes
        DEF UpdaterNext

LEMMA UpdaterRests == ASSUME UpdaterInv, UNCHANGED updatervars PROVE UpdaterInv'
  BY UpdaterFacts, UpdaterFrame DEF updatervars, tables, memoryOf

LEMMA UpdaterTells == ASSUME UpdaterInv PROVE UpdatesHonest
<1>1. UpdaterInv
  OBVIOUS
<1>2. \A e \in OpenEvents : IsInjective(updates[e])
  <2> SUFFICES ASSUME NEW e \in OpenEvents PROVE IsInjective(updates[e])
    OBVIOUS
  <2> DEFINE s == updates[e]
  <2>1. s \in Seq(Described) /\ AllDiffer(s)
    BY <1>1 DEF UpdaterInv, UpShape, DescribedApart
  <2>2. DOMAIN s = 1..Len(s)
    BY <2>1, LenProperties
  <2> HIDE DEF s
  <2>3. IsInjective(s)
    BY <2>1, <2>2 DEF AllDiffer, IsInjective
  <2> QED BY <2>3 DEF s
<1>3. IsInjective(waiting)
  <2>1. DOMAIN waiting = 1..Len(waiting)
    BY UpdaterFacts, LenProperties
  <2> QED BY <2>1, UpdaterFacts DEF Once, IsInjective
<1> QED BY <1>2, <1>3, UpdaterFacts DEF UpdatesHonest, DescribedOnce, ServedOnce, UpdaterInv
-------------------------------------------------------------------------------
(* Both together. *)

\* Whatever fails, comes late or is restarted: an alarm that no round will read again has
\* arrived everywhere, was given up after all its tries, or was stored after an alarm that
\* began a whole window later; an event is described from the same bytes once, is served
\* by one hand at a time, and is said to be described or given up only when it is. For any
\* alarms, outlets, events and limits, and alarms that are stored as late as may be.
THEOREM NoticesStayHonest == NoticesSpec => []NoticesHonest
<1> DEFINE NoticesInv == HubInv /\ UpdaterInv
<1>1. NoticesInit => NoticesInv
  BY HubBegins, UpdaterBegins DEF NoticesInit
<1>2. ASSUME NoticesInv, [NoticesNext]_<<hubvars, updatervars>> PROVE NoticesInv'
  <2>1. CASE HubNext /\ UNCHANGED updatervars
    BY <1>2, <2>1, HubSteps, UpdaterRests
  <2>2. CASE UpdaterNext /\ UNCHANGED hubvars
    BY <1>2, <2>2, UpdaterSteps, HubRests
  <2>3. CASE UNCHANGED <<hubvars, updatervars>>
    BY <1>2, <2>3, UpdaterRests, HubRests
  <2> QED BY <1>2, <2>1, <2>2, <2>3 DEF NoticesNext
<1>3. NoticesInv => NoticesHonest
  BY HubTells, UpdaterTells DEF NoticesHonest
<1> HIDE DEF NoticesInv
<1> QED BY <1>1, <1>2, <1>3, PTL DEF NoticesSpec
-------------------------------------------------------------------------------
(* CropWorker: whatever expires, is closed, comes back late or dies, what  *)
(* was answered of a crop agrees with the lines of the index.              *)

CropStates == {"new", "refused", "reserved", "pending", "lost"} \cup CropEnds
CropRecords == [st : CropStates, authorized : BOOLEAN]
CropLines == [task : Crops, good : BOOLEAN]

\* Types, without the memory of ended tasks.
CropsOK ==
    /\ crops \in [Crops -> CropRecords] /\ cropQueue \in Seq(Crops) /\ index \subseteq CropLines
    /\ keeper \in [pc : {"idle", "save", "authorize", "append", "ended"}, at : Crops \cup {0},
                   good : BOOLEAN]
    /\ keeper.pc \in {"save", "authorize", "append"} => keeper.at \in Crops

CropLinesOf(i) == {n \in index : n.task = i}

\* What a crop's answer says of its lines, more than the property: there is none before
\* the end.
CropTold(i) ==
    /\ crops[i].st = "saved" => CropLinesOf(i) = {[task |-> i, good |-> TRUE]}
    /\ crops[i].st \in {"new", "refused", "reserved", "pending", "dropped"} => CropLinesOf(i) = {}
    /\ (\E n \in CropLinesOf(i) : n.good) => crops[i].st \in {"saved", "uncertain", "lost"}

\* The crop that is about to be written can no longer be given up by anybody.
WriteHeld == keeper.pc = "append" => crops[keeper.at].st = "pending" /\ crops[keeper.at].authorized = TRUE

CropsUnderWay == CropsIn({"reserved", "pending"})
CropsBounded == Cardinality(CropsUnderWay) <= CropQueueMax + 1

CropInv == CropsOK /\ WriteHeld /\ CropsBounded /\ \A i \in Crops : CropTold(i)

\* It says more than the property.
LEMMA CropInvHonest == ASSUME CropInv PROVE CropHonest
  BY DEF CropInv, CropTold, CropLinesOf, CropsBounded, CropsUnderWay, CropHonest

\* Nothing was submitted yet.
LEMMA CropBegins == ASSUME CropInit PROVE CropInv
<1>1. CropsUnderWay = {}
  BY DEF CropInit, CropsUnderWay, CropsIn
<1>2. CropsBounded
  BY <1>1, FS_EmptySet, CropAssumption DEF CropsBounded
<1> QED
  BY <1>2 DEF CropInit, CropInv, CropsOK, CropRecords, CropStates, WriteHeld, CropTold, CropLinesOf, Resting

\* The crops under way stay within the bound while none is added.
LEMMA NoCropAdded ==
  ASSUME CropsBounded, crops \in [Crops -> CropRecords], CropsUnderWay' \subseteq CropsUnderWay
  PROVE  CropsBounded'
<1>1. IsFiniteSet(CropsUnderWay)
  BY FS_Subset, CropAssumption DEF CropsUnderWay, CropsIn
<1>2. Cardinality(CropsUnderWay') <= Cardinality(CropsUnderWay) /\ IsFiniteSet(CropsUnderWay')
  BY <1>1, FS_Subset
<1> QED
  BY <1>1, <1>2, FS_CardinalityType, CropAssumption DEF CropsBounded

\* A step that writes no line keeps the answers, if it only changes crops without lines.
LEMMA NoLineYet ==
  ASSUME CropInv, CropsOK', CropsBounded', index' = index,
         keeper'.pc = "append" => keeper' = keeper /\ crops'[keeper.at] = crops[keeper.at],
         \A i \in Crops : \/ crops'[i].st = crops[i].st
                          \/ crops[i].st \in {"new", "reserved", "pending"} /\ crops'[i].st # "saved"
  PROVE  CropInv'
<1>1. ASSUME NEW i \in Crops PROVE CropTold(i)'
  <2>1. CropLinesOf(i)' = CropLinesOf(i)
    BY DEF CropLinesOf
  <2> QED
    BY <2>1 DEF CropInv, CropTold
<1>2. WriteHeld'
  BY DEF CropInv, WriteHeld
<1> QED
  BY <1>1, <1>2 DEF CropInv

\* The submission: a crop is reserved while there is a place, refused, registered.
LEMMA SubmitCropKeeps ==
  ASSUME CropInv, NEW i \in Crops, SubmitCrop(i) \/ RefuseCrop(i) \/ RegisterCrop(i)
  PROVE  CropInv'
<1>1. /\ UNCHANGED <<keeper, index>> /\ crops[i].st \in {"new", "reserved"}
      /\ cropQueue' = cropQueue \/ cropQueue' = Append(cropQueue, i)
  BY DEF SubmitCrop, RefuseCrop, RegisterCrop
<1>2. PICK st \in {"refused", "reserved", "pending", "dropped"} : Becomes(i, st)
  BY DEF SubmitCrop, RefuseCrop, RegisterCrop
<1>3. /\ crops'[i].st = st /\ crops'[i].authorized = crops[i].authorized
      /\ \A j \in Crops : j # i => crops'[j] = crops[j]
      /\ crops' \in [Crops -> CropRecords]
  BY <1>2 DEF Becomes, CropInv, CropsOK, CropRecords, CropStates, CropEnds
<1>4. CropsOK'
  BY <1>1, <1>3 DEF CropInv, CropsOK
<1>5. CropsBounded'
  <2>1. CASE SubmitCrop(i)
    <3>1. IsFiniteSet(CropsUnderWay) /\ Cardinality(CropsUnderWay) \in Nat
      BY FS_Subset, FS_CardinalityType, CropAssumption DEF CropsUnderWay, CropsIn
    <3>2. CropsUnderWay' \subseteq CropsUnderWay
          \/ (CropsUnderWay' = CropsUnderWay \cup {i} /\ Cardinality(CropsUnderWay) < CropQueueMax + 1)
      <4>1. \A j \in Crops : j # i => (j \in CropsUnderWay' <=> j \in CropsUnderWay)
        BY <1>3 DEF CropsUnderWay, CropsIn
      <4>2. CropsUnderWay \subseteq Crops /\ CropsUnderWay' \subseteq Crops
        BY DEF CropsUnderWay, CropsIn
      <4>3. CASE Cardinality(CropsUnderWay) >= CropQueueMax + 1
        <5>1. crops'[i].st = "refused"
          BY <1>3, <2>1, <4>3 DEF SubmitCrop, Becomes, CropsUnderWay, CropInv, CropsOK, CropRecords
        <5>2. i \notin CropsUnderWay'
          BY <5>1 DEF CropsUnderWay, CropsIn
        <5> QED BY <4>1, <4>2, <5>2
      <4>4. CASE Cardinality(CropsUnderWay) < CropQueueMax + 1
        BY <4>1, <4>2, <4>4
      <4> QED BY <3>1, <4>3, <4>4, CropAssumption
    <3>3. CASE CropsUnderWay' \subseteq CropsUnderWay
      BY <1>3, <3>3, NoCropAdded DEF CropInv, CropsOK
    <3>4. CASE CropsUnderWay' = CropsUnderWay \cup {i} /\ Cardinality(CropsUnderWay) < CropQueueMax + 1
      <4>1. Cardinality(CropsUnderWay') = IF i \in CropsUnderWay THEN Cardinality(CropsUnderWay)
                                     ELSE Cardinality(CropsUnderWay) + 1
        BY <3>1, <3>4, FS_AddElement
      <4> QED BY <3>1, <3>4, <4>1, CropAssumption DEF CropsBounded
    <3> QED BY <3>2, <3>3, <3>4
  <2>2. CASE RefuseCrop(i) \/ RegisterCrop(i)
    <3>1. crops[i].st = "reserved"
      BY <2>2 DEF RefuseCrop, RegisterCrop
    <3>2. CropsUnderWay' \subseteq CropsUnderWay
      BY <1>3, <3>1 DEF CropsUnderWay, CropsIn
    <3> QED BY <3>2, NoCropAdded DEF CropInv, CropsOK
  <2> QED BY <2>1, <2>2
<1>6. keeper'.pc = "append" => keeper' = keeper /\ crops'[keeper.at] = crops[keeper.at]
  BY <1>1, <1>3 DEF CropInv, CropsOK, WriteHeld
<1> QED
  BY <1>1, <1>2, <1>3, <1>4, <1>5, <1>6, NoLineYet

\* What is given up was pending, and not in the hands of the worker that may write it.
LEMMA GivingUpCropKeeps ==
  ASSUME CropInv, NEW S \in SUBSET Crops, EndsCrops(S, "dropped"),
         UNCHANGED <<cropQueue, keeper, index>>, keeper.pc = "append" => keeper.at \notin S
  PROVE  CropInv'
<1>1. /\ crops' \in [Crops -> CropRecords]
      /\ \A i \in Crops : \/ crops'[i] = crops[i]
                          \/ i \in S /\ crops[i].st = "pending" /\ crops'[i].st = "dropped"
  BY DEF EndsCrops, Ending, CropInv, CropsOK, CropRecords, CropStates, CropEnds
<1>2. CropsOK'
  BY <1>1 DEF CropInv, CropsOK
<1>3. CropsUnderWay' \subseteq CropsUnderWay
  BY <1>1 DEF CropsUnderWay, CropsIn
<1>4. CropsBounded'
  BY <1>3, NoCropAdded DEF CropInv, CropsOK
<1>5. keeper'.pc = "append" => keeper' = keeper /\ crops'[keeper.at] = crops[keeper.at]
  BY <1>1 DEF CropInv, CropsOK
<1> QED
  BY <1>1, <1>2, <1>4, <1>5, NoLineYet

\* The worker up to the line, and close(), which only asks it to end.
LEMMA CropWorkerKeeps ==
  ASSUME CropInv, WorkerEnd \/ TakeCrop \/ SaveCrop \/ AuthorizeCrop \/ CloseCrops
  PROVE  CropInv'
<1>1. CASE WorkerEnd \/ TakeCrop \/ SaveCrop \/ CloseCrops
  <2>1. UNCHANGED <<crops, index>> /\ keeper'.pc = "append" => keeper' = keeper
    BY <1>1 DEF WorkerEnd, TakeCrop, SaveCrop, CloseCrops, CropInv, CropsOK
  <2>2. cropQueue' \in Seq(Crops) /\ (cropQueue # <<>> => Head(cropQueue) \in Crops)
    <3>1. cropQueue \in Seq(Crops)
      BY DEF CropInv, CropsOK
    <3>2. cropQueue # <<>> => Head(cropQueue) \in Crops /\ Tail(cropQueue) \in Seq(Crops)
      BY <3>1, HeadTailProperties
    <3>3. CASE TakeCrop
      BY <3>2, <3>3 DEF TakeCrop
    <3>4. CASE WorkerEnd \/ SaveCrop \/ CloseCrops
      BY <3>1, <3>2, <3>4 DEF WorkerEnd, SaveCrop, CloseCrops
    <3> QED BY <1>1, <3>3, <3>4
  <2>3. CropsOK'
    BY <1>1, <2>2 DEF WorkerEnd, TakeCrop, SaveCrop, CloseCrops, CropInv, CropsOK
  <2>4. UNCHANGED <<crops, index>>
    BY <1>1 DEF WorkerEnd, TakeCrop, SaveCrop, CloseCrops
  <2>5. CropsBounded'
    BY <2>4 DEF CropInv, CropsBounded, CropsUnderWay, CropsIn
  <2> QED
    BY <2>1, <2>3, <2>4, <2>5, NoLineYet
<1>2. CASE AuthorizeCrop
  <2>1. CASE crops[keeper.at].st = "pending"
    <3>1. /\ keeper' = [keeper EXCEPT !.pc = "append"] /\ keeper.at \in Crops
          /\ Authorizes(keeper.at) /\ UNCHANGED <<cropQueue, index>>
      BY <1>2, <2>1 DEF AuthorizeCrop, CropInv, CropsOK
    <3>2. /\ crops' \in [Crops -> CropRecords] /\ crops'[keeper.at].authorized = TRUE
          /\ \A i \in Crops : crops'[i].st = crops[i].st
      BY <3>1 DEF Authorizes, CropInv, CropsOK, CropRecords
    <3>3. CropsOK' /\ WriteHeld'
      BY <2>1, <3>1, <3>2 DEF CropInv, CropsOK, WriteHeld
    <3>4. CropsUnderWay' \subseteq CropsUnderWay
      BY <3>2 DEF CropsUnderWay, CropsIn
    <3>5. CropsBounded'
      BY <3>4, NoCropAdded DEF CropInv, CropsOK
    <3>6. \A i \in Crops : CropTold(i)'
      BY <3>1, <3>2 DEF CropInv, CropTold, CropLinesOf
    <3> QED BY <3>3, <3>5, <3>6 DEF CropInv
  <2>2. CASE crops[keeper.at].st # "pending"
    <3>1. keeper' = Resting /\ UNCHANGED <<crops, cropQueue, index>>
      BY <1>2, <2>2 DEF AuthorizeCrop
    <3>2. CropsOK' /\ CropsBounded' /\ keeper'.pc # "append"
      BY <3>1 DEF CropInv, CropsOK, Resting, CropsBounded, CropsUnderWay, CropsIn
    <3> QED BY <3>1, <3>2, NoLineYet
  <2> QED BY <2>1, <2>2
<1> QED BY <1>1, <1>2

\* The line and the end of the crop.
LEMMA AppendCropKeeps == ASSUME CropInv, AppendCrop PROVE CropInv'
<1> DEFINE i == keeper.at
<1>1. i \in Crops /\ crops[i].st = "pending" /\ CropLinesOf(i) = {} /\ Line \in CropLines
  BY DEF AppendCrop, CropInv, CropsOK, WriteHeld, CropTold, Line, CropLines
<1>2. /\ UNCHANGED cropQueue /\ keeper' = Resting /\ index' \in {index, index \cup {Line}}
      /\ \E end \in {"saved", "failed", "uncertain"} :
           /\ EndsCrops({i}, end)
           /\ end = "saved" => keeper.good = TRUE /\ index' = index \cup {Line}
           /\ end = "failed" => keeper.good # TRUE \/ index' = index
  BY DEF AppendCrop, CropFinish, CropInv, CropsOK
<1>3. PICK end \in {"saved", "failed", "uncertain"} :
        /\ EndsCrops({i}, end)
        /\ end = "saved" => keeper.good = TRUE /\ index' = index \cup {Line}
        /\ end = "failed" => keeper.good # TRUE \/ index' = index
  BY <1>2
<1>4. /\ crops' \in [Crops -> CropRecords] /\ crops'[i].st = end
      /\ \A j \in Crops : j # i => crops'[j] = crops[j]
  BY <1>1, <1>3 DEF EndsCrops, Ending, CropInv, CropsOK, CropRecords, CropStates, CropEnds
<1>5. CropsOK' /\ WriteHeld'
  BY <1>1, <1>2, <1>4, CropAssumption DEF CropInv, CropsOK, WriteHeld, Resting
<1>6. CropsUnderWay' \subseteq CropsUnderWay
  BY <1>4 DEF CropsUnderWay, CropsIn
<1>7. CropsBounded'
  BY <1>6, NoCropAdded DEF CropInv, CropsOK
<1>8. ASSUME NEW j \in Crops PROVE CropTold(j)'
  <2>1. Line.task = i /\ Line.good = keeper.good
    BY DEF Line
  <2>2. CASE j # i
    <3>1. CropLinesOf(j)' = CropLinesOf(j)
      BY <1>2, <2>1, <2>2 DEF CropLinesOf
    <3> QED BY <1>4, <2>2, <3>1 DEF CropInv, CropTold
  <2>3. CASE j = i
    <3> DEFINE after == {n \in index' : n.task = i}
    <3>1. index' = index => after = {}
      BY <1>1 DEF CropLinesOf
    <3>2. index' = index \cup {Line} => after = {Line}
      BY <1>1, <2>1 DEF CropLinesOf
    <3>3. end = "saved" => after = {[task |-> i, good |-> TRUE]}
      BY <1>3, <3>2 DEF Line
    <3>4. (\E n \in after : n.good) => end # "failed"
      <4>1. keeper.good \in BOOLEAN
        BY DEF CropInv, CropsOK
      <4> QED BY <1>2, <1>3, <2>1, <3>1, <3>2, <4>1
    <3> HIDE DEF after
    <3>5. crops'[i].st = "saved" => after = {[task |-> i, good |-> TRUE]}
      BY <1>4, <3>3
    <3>6. (\E n \in after : n.good) => crops'[i].st \in {"saved", "uncertain", "lost"}
      BY <1>3, <1>4, <3>4
    <3>7. CropLinesOf(j)' = after
      BY <2>3 DEF CropLinesOf, after
    <3> QED BY <1>3, <1>4, <2>3, <3>5, <3>6, <3>7 DEF CropTold
  <2> QED BY <2>2, <2>3
<1> QED BY <1>5, <1>7, <1>8 DEF CropInv

\* What was under way is lost with the process; a line may have been on its way.
LEMMA CropCrashKeeps == ASSUME CropInv, CropCrash PROVE CropInv'
<1>1. /\ keeper' = Resting /\ cropQueue' = <<>>
      /\ crops' = [i \in Crops |-> IF crops[i].st \in {"reserved", "pending"}
                                   THEN [crops[i] EXCEPT !.st = "lost"] ELSE crops[i]]
      /\ index' \in IF keeper.pc = "append" THEN {index, index \cup {Line}} ELSE {index}
  BY DEF CropCrash
<1>2. /\ crops' \in [Crops -> CropRecords]
      /\ \A i \in Crops : IF crops[i].st \in {"reserved", "pending"} THEN crops'[i].st = "lost"
                          ELSE crops'[i] = crops[i]
  BY <1>1 DEF CropInv, CropsOK, CropRecords, CropStates
<1>3. keeper.pc = "append" => /\ keeper.at \in Crops /\ crops[keeper.at].st = "pending"
                              /\ Line \in CropLines /\ Line.task = keeper.at
  BY DEF CropInv, CropsOK, WriteHeld, Line, CropLines
<1>4. CropsOK' /\ WriteHeld'
  BY <1>1, <1>2, <1>3 DEF CropInv, CropsOK, WriteHeld, Resting
<1>5. CropsUnderWay' \subseteq CropsUnderWay
  BY <1>2 DEF CropsUnderWay, CropsIn
<1>6. CropsBounded'
  BY <1>5, NoCropAdded DEF CropInv, CropsOK
<1>7. ASSUME NEW i \in Crops PROVE CropTold(i)'
  <2>1. index' = index \/ (keeper.pc = "append" /\ index' = index \cup {Line})
    BY <1>1
  <2>2. CropLinesOf(i)' = CropLinesOf(i) \/ crops[i].st = "pending"
    BY <1>3, <2>1 DEF CropLinesOf
  <2> QED BY <1>2, <2>2 DEF CropInv, CropTold
<1> QED BY <1>4, <1>6, <1>7 DEF CropInv
-------------------------------------------------------------------------------
\* Every step is one of these.
LEMMA CropSteps == ASSUME CropInv, [CropNext]_cropvars PROVE CropInv'
<1>1. CASE UNCHANGED cropvars
  BY <1>1 DEF cropvars, CropInv, CropsOK, WriteHeld, CropsBounded, CropsUnderWay, CropsIn, CropTold, CropLinesOf
<1>2. ASSUME NEW i \in Crops, ExpireCrop(i) PROVE CropInv'
  <2>1. EndsCrops({i}, "dropped") /\ UNCHANGED <<cropQueue, keeper, index>> /\ keeper.at # i
    BY <1>2 DEF ExpireCrop, CropFinish
  <2> QED BY <2>1, GivingUpCropKeeps
<1>3. CASE DropCrops
  <2> DEFINE S == {i \in Crops : ~crops[i].authorized}
  <2>1. EndsCrops(S, "dropped") /\ UNCHANGED <<cropQueue, keeper, index>>
    BY <1>3 DEF DropCrops, CropFinish
  <2>2. keeper.pc = "append" => keeper.at \notin S
    BY DEF CropInv, WriteHeld
  <2> QED BY <2>1, <2>2, GivingUpCropKeeps
<1> QED
  BY <1>1, <1>2, <1>3, SubmitCropKeeps, CropWorkerKeeps, AppendCropKeeps, CropCrashKeeps DEF CropNext

\* What the worker answered of a crop agrees with its lines in the index: saved has its one
\* line, given up has none and gets none, a good line is of no other end; and never more is
\* under way than the queue and the worker hold (_authorize_commit_locked, _finish_locked).
THEOREM CropsAreHonest == CropSpec => []CropHonest
<1>1. CropInit => CropInv
  BY CropBegins
<1>2. CropInv /\ [CropNext]_cropvars => CropInv'
  BY CropSteps
<1>3. CropInv => CropHonest
  BY CropInvHonest
<1> QED BY <1>1, <1>2, <1>3, PTL DEF CropSpec
-------------------------------------------------------------------------------
(* L3Budget: the tasks a window may cost, with two packages in a window. *)

BudgetTasks == [w : BudgetWins, plan : Nat, index : Nat \ {0}, frames : 1..PerTask]

\* A page accounts for some tasks, and fits the budget.
Accounts(b, T) ==
    /\ IsFiniteSet(T) /\ b.tasks = Cardinality(T) /\ b.frames = FramesOf(T)
    /\ b.tasks <= MaxTasks /\ b.frames <= MaxFrames
\* The share of each task is noted under its index, and no other.
NotesShares(b, T) ==
    /\ DOMAIN b.byIndex = {t.index : t \in T}
    /\ \A t \in T : b.byIndex[t.index] = t.frames
    /\ \A t, u \in T : t.index = u.index => t = u
\* A window before its first plan, and one between its two plans whose page is still
\* there; what is known of any window is that its tasks fit.
BudgetInv ==
    /\ plans \in [BudgetWins -> Nat] /\ DOMAIN page = BudgetWins /\ spent \subseteq BudgetTasks
    /\ \A w \in BudgetWins :
        /\ IsFiniteSet(Mine(w)) /\ \A t \in Mine(w) : t.plan <= plans[w]
        /\ plans[w] <= WindowPackages
        /\ plans[w] = 0 => page[w] = NoPage /\ Mine(w) = {}
        /\ plans[w] = 1 /\ page[w].open => Accounts(page[w], Mine(w)) /\ NotesShares(page[w], Mine(w))
        /\ Cardinality(Mine(w)) <= MaxTasks /\ FramesOf(Mine(w)) <= MaxFrames

\* What a set of tasks costs is a number, also when one is added.
LEMMA FramesCounted == ASSUME NEW T, IsFiniteSet(T) PROVE FramesOf(T) \in Nat
<1>1. IsFiniteSet(1..PerTask)
  BY BudgetAssumption, FS_Interval
<1> QED BY <1>1, FS_Product, FS_Subset, FS_CardinalityType DEF FramesOf
LEMMA FramesAdd ==
  ASSUME NEW T, IsFiniteSet(T), NEW t, t \notin T, t.frames \in 0..PerTask
  PROVE  /\ FramesOf(T) \in Nat
         /\ FramesOf(T \cup {t}) = FramesOf(T) + t.frames
<1> DEFINE A == {f \in T \X (1..PerTask) : f[2] <= f[1].frames}
           B == {f \in {t} \X (1..PerTask) : f[2] <= f[1].frames}
           g == [i \in 1..t.frames |-> <<t, i>>]
<1>1. PerTask \in Nat /\ t.frames \in Nat /\ t.frames <= PerTask
  BY BudgetAssumption
<1>2. IsFiniteSet(1..PerTask) /\ IsFiniteSet(1..t.frames) /\ Cardinality(1..t.frames) = t.frames
  <2>1. IsFiniteSet(1..PerTask)
    BY <1>1, FS_Interval
  <2>2. ASSUME NEW n \in Nat PROVE IsFiniteSet(1..n) /\ Cardinality(1..n) = n
    <3>1. IsFiniteSet(1..n) /\ Cardinality(1..n) = IF 1 > n THEN 0 ELSE n - 1 + 1
      BY FS_Interval
    <3> QED BY <3>1
  <2> QED BY <1>1, <2>1, <2>2
<1>3. IsFiniteSet(A) /\ Cardinality(A) \in Nat
  BY <1>2, FS_Product, FS_Subset, FS_CardinalityType
<1>4. g \in Bijection(1..t.frames, B)
  <2>1. \A i \in 1..t.frames : g[i] \in B
    BY <1>1
  <2>2. \A i, j \in 1..t.frames : g[i] = g[j] => i = j
    OBVIOUS
  <2>3. \A f \in B : \E i \in 1..t.frames : g[i] = f
    BY <1>1
  <2> QED BY <2>1, <2>2, <2>3 DEF Bijection, Injection, Surjection, IsInjective
<1>5. IsFiniteSet(B) /\ Cardinality(B) = t.frames
  BY <1>2, <1>4, FS_Bijection DEF ExistsBijection
<1>6. A \cap B = {}
  OBVIOUS
<1>7. {f \in (T \cup {t}) \X (1..PerTask) : f[2] <= f[1].frames} = A \cup B
  OBVIOUS
<1> HIDE DEF A, B
<1>8. Cardinality(A \cup B) = Cardinality(A) + Cardinality(B)
  BY <1>1, <1>3, <1>5, <1>6, FS_Union, FS_EmptySet
<1> QED BY <1>1, <1>3, <1>5, <1>7, <1>8 DEF FramesOf, A

\* And when one is given back.
LEMMA FramesLess ==
  ASSUME NEW T, IsFiniteSet(T), NEW t \in T, t.frames \in 0..PerTask
  PROVE  /\ FramesOf(T \ {t}) \in Nat /\ FramesOf(T) = FramesOf(T \ {t}) + t.frames
         /\ IsFiniteSet(T \ {t}) /\ Cardinality(T \ {t}) = Cardinality(T) - 1
         /\ Cardinality(T) \in Nat \ {0}
<1>1. IsFiniteSet(T \ {t}) /\ Cardinality(T \ {t}) = Cardinality(T) - 1
  BY FS_RemoveElement
<1>2. (T \ {t}) \cup {t} = T /\ t \notin T \ {t}
  OBVIOUS
<1>3. Cardinality(T) \in Nat /\ Cardinality(T \ {t}) \in Nat
  BY <1>1, FS_CardinalityType
<1> QED BY <1>1, <1>2, <1>3, FramesAdd

LEMMA FramesOfNone == FramesOf({}) = 0
<1>1. {f \in {} \X (1..PerTask) : f[2] <= f[1].frames} = {}
  OBVIOUS
<1> QED BY <1>1, FS_EmptySet DEF FramesOf

LEMMA MinOfThree ==
  ASSUME NEW a \in Int, NEW b \in Int, NEW c \in Int
  PROVE  /\ Min({a, b, c}) \in {a, b, c}
         /\ Min({a, b, c}) <= a /\ Min({a, b, c}) <= b /\ Min({a, b, c}) <= c
<1>1. \E x \in {a, b, c} : \A y \in {a, b, c} : x <= y
  <2>1. CASE a <= b /\ a <= c
    BY <2>1
  <2>2. CASE b <= a /\ b <= c
    BY <2>2
  <2>3. CASE c <= a /\ c <= b
    BY <2>3
  <2> QED BY <2>1, <2>2, <2>3
<1> QED BY <1>1 DEF Min

\* What a branch is granted fits what is left.
LEMMA GrantFits ==
  ASSUME NEW need \in 0..PerTask, NEW b, b.tasks \in Nat, b.frames \in 0..MaxFrames
  PROVE  /\ Granted(need, b) \in 0..PerTask /\ b.frames + Granted(need, b) <= MaxFrames
         /\ Granted(need, b) # 0 => b.tasks < MaxTasks
<1> DEFINE most == Min({need, PerTask, MaxFrames - b.frames})
           floor == Max({1, Min({Floor, MaxTasks})})
<1>1. /\ need \in Nat /\ PerTask \in Nat /\ MaxTasks \in Nat /\ MaxFrames \in Nat
      /\ b.frames \in Nat /\ b.frames <= MaxFrames
  BY BudgetAssumption
<1>2. most \in {need, PerTask, MaxFrames - b.frames} /\ most <= need /\ most <= PerTask
      /\ most <= MaxFrames - b.frames
  <2>1. need \in Int /\ PerTask \in Int /\ MaxFrames - b.frames \in Int
    BY <1>1
  <2> QED BY <2>1, MinOfThree
<1>3. most \in Nat
  BY <1>1, <1>2
<1> HIDE DEF most, floor
<1>4. Granted(need, b) = IF b.tasks >= MaxTasks \/ (most < MinFrames /\ b.tasks >= floor)
                         THEN 0 ELSE most
  BY DEF Granted, most, floor
<1> QED BY <1>1, <1>2, <1>3, <1>4

-------------------------------------------------------------------------------
\* Where a plan begins: the page of its window, opened.
Opened(b) == [b EXCEPT !.open = TRUE]

\* A plan has steps, whatever the number of its rows: no number is the first without.
AreSteps(g, branches, b, n) ==
    g = [i \in 0..n |-> IF i = 0 THEN Opened(b) ELSE Planned(branches, i, g[i - 1])]
HasSteps(branches, b, n) == \E g : AreSteps(g, branches, b, n)
LEMMA PlanHasSteps ==
  ASSUME NEW branches, NEW b
  PROVE  \A n \in Nat : HasSteps(branches, b, n)
<1> DEFINE bad == {n \in Nat : ~HasSteps(branches, b, n)}
<1>1. ASSUME bad # {} PROVE FALSE
  <2>1. bad \subseteq Nat
    OBVIOUS
  <2> HIDE DEF bad
  <2>2. PICK n \in Nat : n \in bad /\ \A m \in bad : n <= m
    BY <1>1, <2>1, LeastNumber
  <2>3. CASE n = 0
    <3> DEFINE g == [i \in 0..0 |-> Opened(b)]
    <3>1. AreSteps(g, branches, b, 0)
      BY DEF AreSteps
    <3> QED BY <2>2, <2>3, <3>1 DEF bad, HasSteps
  <2>4. CASE n # 0
    <3>1. n - 1 \in Nat /\ n - 1 \notin bad
      BY <2>2, <2>4
    <3>2. PICK h : AreSteps(h, branches, b, n - 1)
      BY <3>1 DEF bad, HasSteps
    <3> DEFINE g == [i \in 0..n |-> IF i = n THEN Planned(branches, n, h[n - 1]) ELSE h[i]]
    <3>3. \A i \in 0..n : g[i] = IF i = 0 THEN Opened(b)
                                ELSE Planned(branches, i, g[i - 1])
      <4> TAKE i \in 0..n
      <4>1. CASE i = n
        BY <2>4, <3>1, <4>1
      <4>2. CASE i # n
        <5>1. i \in 0..(n - 1)
          BY <2>2, <4>2
        <5>2. h[i] = IF i = 0 THEN Opened(b) ELSE Planned(branches, i, h[i - 1])
          BY <3>2, <5>1 DEF AreSteps
        <5>3. g[i] = h[i] /\ (i # 0 => g[i - 1] = h[i - 1])
          BY <3>1, <5>1, <4>2
        <5> QED BY <5>2, <5>3
      <4> QED BY <4>1, <4>2
    <3>4. AreSteps(g, branches, b, n)
      <4> HIDE DEF g
      <4>1. g = [i \in 0..n |-> g[i]]
        BY DEF g
      <4> QED BY <3>3, <4>1 DEF AreSteps
    <3> QED BY <2>2, <3>4 DEF bad, HasSteps
  <2> QED BY <2>3, <2>4
<1> QED BY <1>1

\* The steps of a plan are what their definition says.
LEMMA PlanSteps ==
  ASSUME NEW branches, NEW b, Len(branches) \in Nat
  PROVE  PlannedPage(branches, b) =
            [i \in 0..Len(branches) |-> IF i = 0 THEN Opened(b)
                                    ELSE Planned(branches, i, PlannedPage(branches, b)[i - 1])]
<1>1. PICK g : AreSteps(g, branches, b, Len(branches))
  BY PlanHasSteps DEF HasSteps
<1>2. PlannedPage(branches, b) =
        CHOOSE f : f = [i \in 0..Len(branches) |-> IF i = 0 THEN Opened(b)
                                               ELSE Planned(branches, i, f[i - 1])]
  BY DEF PlannedPage, Opened
<1> QED BY <1>1, <1>2 DEF AreSteps

\* A step follows from the one before it.
LEMMA PlanStep ==
  ASSUME NEW branches, NEW b, Len(branches) \in Nat, NEW i \in 1..Len(branches)
  PROVE  PlannedPage(branches, b)[i] = Planned(branches, i, PlannedPage(branches, b)[i - 1])
<1> DEFINE step == PlannedPage(branches, b)
<1>1. step = [j \in 0..Len(branches) |-> IF j = 0 THEN Opened(b)
                                     ELSE Planned(branches, j, step[j - 1])]
  BY PlanSteps
<1> HIDE DEF step
<1>2. i \in 0..Len(branches) /\ i # 0
  OBVIOUS
<1>3. step[i] = Planned(branches, i, step[i - 1])
  BY <1>1, <1>2
<1> QED BY <1>3 DEF step

LEMMA PlanStart ==
  ASSUME NEW branches, NEW b, Len(branches) \in Nat
  PROVE  PlannedPage(branches, b)[0] = Opened(b)
<1> DEFINE step == PlannedPage(branches, b)
<1>1. step = [j \in 0..Len(branches) |-> IF j = 0 THEN Opened(b)
                                     ELSE Planned(branches, j, step[j - 1])]
  BY PlanSteps
<1> HIDE DEF step
<1>2. step[0] = Opened(b)
  BY <1>1
<1> QED BY <1>2 DEF step

\* One row of a plan, from an exact page: the row comes to nothing, or to one task more.
LEMMA PlannedRow ==
  ASSUME NEW branches \in Rows, NEW i \in 1..Len(branches), NEW b, NEW T, Accounts(b, T),
         \A t \in T : t.frames \in 0..PerTask
  PROVE  LET next == Planned(branches, i, b)
             got == next.frames - b.frames
         IN  \/ next = b
             \/ /\ got \in 1..PerTask /\ next.tasks = b.tasks + 1 /\ next.tasks > b.tasks
                /\ next.tasks <= MaxTasks /\ next.frames <= MaxFrames
                /\ next = Reserve(b, i, got)
<1> DEFINE got == Granted(branches[i].frames, b)
<1>1. branches[i].frames \in 0..PerTask
  <2> DEFINE S == [content : Contents, frames : 0..PerTask]
  <2>1. \A r \in S : r.frames \in 0..PerTask
    OBVIOUS
  <2>2. branches \in UNION {[1..n -> S] : n \in 1..MaxRows}
    BY DEF Rows
  <2> HIDE DEF S
  <2>3. PICK n \in 1..MaxRows : branches \in [1..n -> S]
    BY <2>2
  <2>4. n \in Nat
    BY <2>3, BudgetAssumption
  <2>5. branches \in Seq(S)
    BY <2>3, <2>4
  <2>6. branches[i] \in S
    BY <2>5
  <2> QED BY <2>1, <2>6
<1>2. b.tasks \in Nat /\ b.frames \in 0..MaxFrames
  BY FramesCounted, FS_CardinalityType, BudgetAssumption DEF Accounts
<1>3. /\ got \in 0..PerTask /\ b.frames + got <= MaxFrames
      /\ got # 0 => b.tasks < MaxTasks
  BY <1>1, <1>2, GrantFits
<1> HIDE DEF got
<1>4. CASE IsMerged(branches, i) \/ got = 0
  BY <1>4 DEF Planned, got
<1>5. CASE ~IsMerged(branches, i) /\ got # 0
  <2>1. Planned(branches, i, b) = Reserve(b, i, got)
    BY <1>5 DEF Planned, got
  <2>2. /\ Reserve(b, i, got).tasks = b.tasks + 1
        /\ Reserve(b, i, got).frames = b.frames + got
    BY DEF Reserve
  <2> QED BY <1>2, <1>3, <1>5, <2>1, <2>2, BudgetAssumption
<1> QED BY <1>4, <1>5

\* What a plan adds to a window, up to a row of the package.
TaskOf(w, step, n, i) ==
    [w |-> w, plan |-> n + 1, index |-> i, frames |-> step[i].frames - step[i - 1].frames]
Kept(step, i) == {j \in 1..i : step[j].tasks > step[j - 1].tasks}
Brought(w, step, n, i) == {TaskOf(w, step, n, j) : j \in Kept(step, i)}
PlanFits(w, branches, b, n, i) ==
    LET step == PlannedPage(branches, b)
        new == Brought(w, step, n, i)
    IN  /\ new \subseteq BudgetTasks /\ \A t \in new : t.index \in 1..i
        /\ step[i].open /\ Accounts(step[i], Mine(w) \cup new)
        /\ n = 0 => NotesShares(step[i], new)

LEMMA PlanRowFits ==
  ASSUME BudgetInv, NEW w \in BudgetWins, NEW branches \in Rows, NEW i \in 1..Len(branches), Len(branches) \in Nat,
         PlanFits(w, branches, page[w], plans[w], i - 1)
  PROVE  PlanFits(w, branches, page[w], plans[w], i)
<1> DEFINE step == PlannedPage(branches, page[w])
           n == plans[w]
           b == step[i - 1]
           next == Planned(branches, i, b)
           old == Brought(w, step, n, i - 1)
           T == Mine(w) \cup old
           t == TaskOf(w, step, n, i)
<1>1. step[i] = next
  BY PlanStep
<1>2. /\ old \subseteq BudgetTasks /\ \A u \in old : u.index \in 1..(i - 1)
      /\ b.open /\ Accounts(b, T)
      /\ n = 0 => NotesShares(b, old)
  BY DEF PlanFits
<1>3. Mine(w) \subseteq BudgetTasks /\ n \in Nat /\ \A u \in Mine(w) : u.plan <= n
  BY DEF BudgetInv, Mine
<1>4. \A u \in T : u.frames \in 0..PerTask
  BY <1>2, <1>3 DEF BudgetTasks
<1>5. Kept(step, i) = IF step[i].tasks > b.tasks THEN Kept(step, i - 1) \cup {i}
                      ELSE Kept(step, i - 1)
  <2> HIDE DEF step
  <2> QED BY DEF Kept
<1>6. Brought(w, step, n, i) = IF step[i].tasks > b.tasks THEN old \cup {t} ELSE old
  <2> HIDE DEF step
  <2> QED BY <1>5 DEF Brought
<1>7. i \in Nat \ {0} /\ b.tasks \in Nat /\ b.frames \in Nat /\ IsFiniteSet(T)
  BY <1>2, FramesCounted, FS_CardinalityType DEF Accounts
<1>8. \/ next = b
      \/ /\ next.frames - b.frames \in 1..PerTask
         /\ next.tasks = b.tasks + 1 /\ next.tasks > b.tasks
         /\ next.tasks <= MaxTasks /\ next.frames <= MaxFrames
         /\ next = Reserve(b, i, next.frames - b.frames)
  BY <1>2, <1>4, PlannedRow
<1>9. PlanFits(w, branches, page[w], n, i) <=>
        LET new == Brought(w, step, n, i)
        IN  /\ new \subseteq BudgetTasks /\ \A u \in new : u.index \in 1..i
            /\ step[i].open /\ Accounts(step[i], Mine(w) \cup new)
            /\ n = 0 => NotesShares(step[i], new)
  BY DEF PlanFits
<1> HIDE DEF step
<1>10. CASE next = b
  <2>1. Brought(w, step, n, i) = old
    BY <1>1, <1>6, <1>7, <1>10
  <2> QED BY <1>1, <1>2, <1>7, <1>9, <1>10, <2>1
<1>11. CASE next # b
  <2> DEFINE got == next.frames - b.frames
  <2>1. t = [w |-> w, plan |-> n + 1, index |-> i, frames |-> got]
    BY <1>1 DEF TaskOf
  <2>2. got \in 1..PerTask /\ next = Reserve(b, i, got)
        /\ next.tasks = b.tasks + 1 /\ next.tasks <= MaxTasks /\ next.frames <= MaxFrames
    BY <1>8, <1>11
  <2>3. next.open /\ next.frames = b.frames + got
        /\ next.byIndex = [k \in DOMAIN b.byIndex \cup {i} |-> IF k = i THEN got ELSE b.byIndex[k]]
    BY <2>2 DEF Reserve
  <2> HIDE DEF got, next
  <2>4. t \in BudgetTasks /\ t.index = i /\ t.frames = got /\ t.plan = n + 1
    BY <1>3, <1>7, <2>1, <2>2 DEF BudgetTasks
  <2> HIDE DEF t
  <2>5. Brought(w, step, n, i) = old \cup {t}
    BY <1>1, <1>6, <1>7, <2>2
  <2>6. t \notin T
    BY <1>2, <1>3, <1>7, <2>4 DEF BudgetTasks
  <2>7. Mine(w) \cup (old \cup {t}) = T \cup {t}
    OBVIOUS
  <2> HIDE DEF T
  <2>8. t.frames \in 0..PerTask
    BY <2>2, <2>4, BudgetAssumption
  <2>9. FramesOf(T \cup {t}) = FramesOf(T) + t.frames
    BY <1>7, <2>6, <2>8, FramesAdd
  <2>10. IsFiniteSet(T \cup {t}) /\ Cardinality(T \cup {t}) = Cardinality(T) + 1
    BY <1>7, <2>6, FS_AddElement
  <2>11. Accounts(next, T \cup {t})
    BY <1>2, <2>2, <2>3, <2>4, <2>9, <2>10 DEF Accounts
  <2>12. ASSUME n = 0 PROVE NotesShares(next, old \cup {t})
    <3>1. NotesShares(b, old)
      BY <1>2, <2>12
    <3>2. \A u \in old : u.index # i
      BY <1>2, <1>7
    <3> HIDE DEF b, old
    <3>3. DOMAIN next.byIndex = {u.index : u \in old \cup {t}}
      BY <3>1, <2>3, <2>4 DEF NotesShares
    <3>4. \A u \in old \cup {t} : next.byIndex[u.index] = u.frames
      BY <3>1, <3>2, <2>3, <2>4 DEF NotesShares
    <3> QED BY <3>1, <3>2, <3>3, <3>4, <2>4 DEF NotesShares
  <2>13. \A u \in old \cup {t} : u.index \in 1..i
    BY <1>2, <1>7, <2>4
  <2> QED BY <1>1, <1>2, <1>9, <2>3, <2>4, <2>5, <2>7, <2>11, <2>12, <2>13
<1> QED BY <1>10, <1>11

\* A plan of a window that has none, or one whose page is still there, fits.
LEMMA PlanIsFitting ==
  ASSUME BudgetInv, NEW w \in BudgetWins, NEW branches \in Rows, Len(branches) \in Nat,
         plans[w] < 2, plans[w] = 0 \/ page[w].open
  PROVE  PlanFits(w, branches, page[w], plans[w], Len(branches))
<1> DEFINE b == page[w]
           n == plans[w]
           bad == {i \in Nat : i <= Len(branches) /\ ~PlanFits(w, branches, b, n, i)}
<1>1. PlanFits(w, branches, b, n, 0)
  <2> DEFINE step == PlannedPage(branches, b)
             new == Brought(w, step, n, 0)
  <2>1. step[0] = [b EXCEPT !.open = TRUE]
    BY PlanStart DEF Opened
  <2>2. new = {}
    <3> HIDE DEF step
    <3> QED BY DEF Brought, Kept
  <2>3. CASE n = 0
    <3>1. b = NoPage /\ Mine(w) = {}
      BY <2>3 DEF BudgetInv
    <3>2. step[0].open /\ step[0].tasks = 0 /\ step[0].frames = 0 /\ step[0].byIndex = <<>>
      BY <2>1, <3>1 DEF NoPage
    <3>3. Accounts(step[0], {})
      BY <3>2, FramesOfNone, FS_EmptySet, BudgetAssumption DEF Accounts
    <3>4. NotesShares(step[0], {})
      BY <3>2 DEF NotesShares
    <3> HIDE DEF step, new
    <3> QED BY <2>2, <3>1, <3>2, <3>3, <3>4 DEF PlanFits, step, new
  <2>4. CASE n # 0
    <3>1. n = 1 /\ b.open
      BY <2>4 DEF BudgetInv
    <3>2. Accounts(b, Mine(w))
      BY <3>1 DEF BudgetInv
    <3>3. step[0].open /\ step[0].tasks = b.tasks /\ step[0].frames = b.frames
      BY <2>1, <3>1
    <3>4. Accounts(step[0], Mine(w) \cup {})
      BY <3>2, <3>3 DEF Accounts
    <3> HIDE DEF step, new
    <3> QED BY <2>2, <2>4, <3>3, <3>4 DEF PlanFits, step, new
  <2> QED BY <2>3, <2>4
<1>2. bad = {}
  <2> SUFFICES ASSUME bad # {} PROVE FALSE
    OBVIOUS
  <2>1. PICK i \in bad : \A m \in bad : i <= m
    BY LeastNumber
  <2>2. i # 0 /\ i \in 1..Len(branches) /\ i - 1 \in Nat /\ i - 1 \notin bad
    BY <1>1, <2>1
  <2>3. PlanFits(w, branches, b, n, i - 1)
    BY <2>2
  <2>4. PlanFits(w, branches, b, n, i)
    BY <2>2, <2>3, PlanRowFits
  <2> QED BY <2>1, <2>4
<1> QED BY <1>2

LEMMA RowsHaveLength == ASSUME NEW branches \in Rows PROVE Len(branches) \in Nat
<1> DEFINE S == [content : Contents, frames : 0..PerTask]
<1>1. branches \in UNION {[1..n -> S] : n \in 1..MaxRows}
  BY DEF Rows
<1> HIDE DEF S
<1>2. PICK n \in 1..MaxRows : branches \in [1..n -> S]
  BY <1>1
<1>3. n \in Nat
  BY <1>2, BudgetAssumption
<1>4. branches \in Seq(S)
  BY <1>2, <1>3
<1> QED BY <1>4

\* What a step does to other windows.
WindowFits(w) ==
    /\ IsFiniteSet(Mine(w)) /\ \A t \in Mine(w) : t.plan <= plans[w]
    /\ plans[w] <= WindowPackages
    /\ plans[w] = 0 => page[w] = NoPage /\ Mine(w) = {}
    /\ plans[w] = 1 /\ page[w].open => Accounts(page[w], Mine(w)) /\ NotesShares(page[w], Mine(w))
    /\ Cardinality(Mine(w)) <= MaxTasks /\ FramesOf(Mine(w)) <= MaxFrames

LEMMA FitsElsewhere ==
  ASSUME NEW w, WindowFits(w), Mine(w)' = Mine(w), page'[w] = page[w], plans'[w] = plans[w]
  PROVE  WindowFits(w)'
BY DEF WindowFits, Accounts, NotesShares, FramesOf

LEMMA PlanKeeps ==
  ASSUME BudgetInv, WindowPackages \in 0..2, NEW w \in BudgetWins, NEW branches \in Rows,
         PlanPackage(w, branches)
  PROVE  BudgetInv'
<1> DEFINE n == plans[w]
           step == PlannedPage(branches, page[w])
           new == Brought(w, step, n, Len(branches))
<1>1. /\ n \in Nat /\ n < WindowPackages /\ n < 2
      /\ plans'[w] = n + 1 /\ \A v \in BudgetWins \ {w} : plans'[v] = plans[v]
      /\ plans' \in [BudgetWins -> Nat]
  BY DEF BudgetInv, PlanPackage
<1>2. \A v \in BudgetWins : WindowFits(v)
  BY DEF BudgetInv, WindowFits
<1>3. CASE w \in ToSet(forgotten)
  <2>1. page' = page /\ spent' = spent
    BY <1>3 DEF PlanPackage
  <2>2. \A v \in BudgetWins : Mine(v)' = Mine(v)
    BY <2>1 DEF Mine
  <2>3. ASSUME NEW v \in BudgetWins PROVE WindowFits(v)'
    <3>1. CASE v # w
      BY <1>1, <1>2, <2>1, <2>2, <3>1, FitsElsewhere
    <3>2. CASE v = w
      <4>1. WindowFits(w)
        BY <1>2
      <4>2. Mine(w)' = Mine(w) /\ page'[w] = page[w]
        BY <2>1, <2>2
      <4>3. n + 1 = 1 => ~page[w].open
        BY <1>1, <4>1 DEF WindowFits, NoPage
      <4>4. FramesOf(Mine(w))' = FramesOf(Mine(w)')
        BY DEF FramesOf
      <4>5. plans'[w] # 0 /\ ~(plans'[w] = 1 /\ page'[w].open)
        BY <1>1, <4>2, <4>3
      <4>6. \A t \in Mine(w) : t.plan <= n /\ t.plan \in Nat
        BY <4>1 DEF WindowFits, Mine, BudgetInv, BudgetTasks
      <4>7. /\ IsFiniteSet(Mine(w)') /\ \A t \in Mine(w)' : t.plan <= plans'[w]
            /\ plans'[w] <= WindowPackages
            /\ Cardinality(Mine(w)') <= MaxTasks /\ FramesOf(Mine(w)') <= MaxFrames
        BY <1>1, <4>1, <4>2, <4>6 DEF WindowFits
      <4> QED BY <3>2, <4>4, <4>5, <4>7 DEF WindowFits
    <3> QED BY <3>1, <3>2
  <2> QED BY <1>1, <2>1, <2>3 DEF BudgetInv, WindowFits
<1>4. CASE w \notin ToSet(forgotten)
  <2>1. Len(branches) \in Nat
    BY RowsHaveLength
  <2>2. PlanFits(w, branches, page[w], n, Len(branches))
    BY <1>1, <1>4, <2>1, PlanIsFitting DEF PlanPackage
  <2>3. /\ new \subseteq BudgetTasks /\ Accounts(step[Len(branches)], Mine(w) \cup new)
        /\ n = 0 => NotesShares(step[Len(branches)], new)
    BY <2>2 DEF PlanFits
  <2>4. page' = [page EXCEPT ![w] = step[Len(branches)]] /\ spent' = spent \cup new
    BY <1>4 DEF PlanPackage, Brought, TaskOf, Kept
  <2>5. \A t \in new : t.w = w /\ t.plan = n + 1
    <3> HIDE DEF step
    <3> QED BY DEF Brought, TaskOf
  <2> HIDE DEF new, step
  <2>6. Mine(w)' = Mine(w) \cup new /\ \A v \in BudgetWins \ {w} : Mine(v)' = Mine(v)
    BY <2>4, <2>5 DEF Mine
  <2>7. /\ DOMAIN page' = BudgetWins /\ page'[w] = step[Len(branches)]
        /\ \A v \in BudgetWins \ {w} : page'[v] = page[v]
    BY <2>4 DEF BudgetInv
  <2>8. WindowFits(w)'
    <3>1. WindowFits(w)
      BY <1>2
    <3>2. \A t \in Mine(w)' : t.plan <= n + 1
      <4>1. \A t \in Mine(w) : t.plan <= n /\ t.plan \in Nat
        BY <3>1 DEF WindowFits, Mine, BudgetInv, BudgetTasks
      <4> QED BY <1>1, <2>5, <2>6, <4>1
    <3>3. Accounts(page'[w], Mine(w)') /\ (n = 0 => NotesShares(page'[w], Mine(w)'))
      BY <2>3, <2>6, <2>7, <3>1 DEF WindowFits
    <3>4. IsFiniteSet(Mine(w)') /\ Cardinality(Mine(w)') <= MaxTasks
          /\ FramesOf(Mine(w)') <= MaxFrames
      BY <3>3 DEF Accounts
    <3>5. Accounts(page[w], Mine(w))' <=> Accounts(page'[w], Mine(w)')
      BY DEF Accounts, FramesOf
    <3>6. NotesShares(page[w], Mine(w))' <=> NotesShares(page'[w], Mine(w)')
      BY DEF NotesShares
    <3>7. FramesOf(Mine(w))' = FramesOf(Mine(w)')
      BY DEF FramesOf
    <3> QED BY <1>1, <3>2, <3>3, <3>4, <3>5, <3>6, <3>7 DEF WindowFits
  <2>9. ASSUME NEW v \in BudgetWins \ {w} PROVE WindowFits(v)'
    BY <1>1, <1>2, <2>6, <2>7, FitsElsewhere
  <2>10. spent' \subseteq BudgetTasks
    BY <2>3, <2>4 DEF BudgetInv
  <2> QED BY <1>1, <2>7, <2>8, <2>9, <2>10 DEF BudgetInv, WindowFits
<1> QED BY <1>3, <1>4

LEMMA GivenBackKeeps ==
  ASSUME BudgetInv, NEW t \in spent, ReleaseTask(t)
  PROVE  BudgetInv'
<1> DEFINE w == t.w
           b == page[w]
<1>1. /\ t \in BudgetTasks /\ w \in BudgetWins /\ t \in Mine(w) /\ t.frames \in 0..PerTask
      /\ t.frames \in Nat
  BY BudgetAssumption DEF BudgetInv, BudgetTasks, Mine
<1>2. \A v \in BudgetWins : WindowFits(v)
  BY DEF BudgetInv, WindowFits
<1>3. spent' = spent \ {t} /\ plans' = plans /\ DOMAIN page' = BudgetWins
      /\ \A v \in BudgetWins \ {w} : page'[v] = page[v]
  BY DEF ReleaseTask, bvars, BudgetInv
<1>4. Mine(w)' = Mine(w) \ {t} /\ \A v \in BudgetWins \ {w} : Mine(v)' = Mine(v)
  BY <1>3 DEF Mine
<1>5. ASSUME NEW v \in BudgetWins \ {w} PROVE WindowFits(v)'
  BY <1>2, <1>3, <1>4, FitsElsewhere
<1>6. WindowFits(w)
  BY <1>1, <1>2
<1>7. /\ FramesOf(Mine(w) \ {t}) \in Nat
      /\ FramesOf(Mine(w)) = FramesOf(Mine(w) \ {t}) + t.frames
      /\ IsFiniteSet(Mine(w) \ {t}) /\ Cardinality(Mine(w)) \in Nat \ {0}
      /\ Cardinality(Mine(w) \ {t}) = Cardinality(Mine(w)) - 1
  BY <1>1, <1>6, FramesLess DEF WindowFits
<1>8. ASSUME plans[w] = 1, page'[w].open
      PROVE  Accounts(page'[w], Mine(w) \ {t}) /\ NotesShares(page'[w], Mine(w) \ {t})
  <2>1. b.open
    BY <1>1, <1>8 DEF ReleaseTask, BudgetInv
  <2>2. Accounts(b, Mine(w)) /\ NotesShares(b, Mine(w))
    BY <1>6, <1>8, <2>1 DEF WindowFits
  <2>3. t.index \in DOMAIN b.byIndex /\ b.byIndex[t.index] = t.frames
    BY <1>1, <2>2 DEF NotesShares
  <2>4. /\ b.tasks = Cardinality(Mine(w)) /\ b.frames = FramesOf(Mine(w))
        /\ b.tasks <= MaxTasks /\ b.frames <= MaxFrames
    BY <2>2 DEF Accounts
  <2>5. b.tasks # 0 /\ b.frames >= t.frames
    BY <1>1, <1>7, <2>4
  <2>6. page'[w] = [b EXCEPT !.tasks = IF @ = 0 THEN 0 ELSE @ - 1,
                             !.frames = IF @ < b.byIndex[t.index] THEN 0
                                        ELSE @ - b.byIndex[t.index],
                             !.byIndex = [k \in DOMAIN @ \ {t.index} |-> @[k]]]
    BY <1>1, <2>1, <2>3 DEF ReleaseTask, BudgetInv
  <2>7. page'[w].tasks = b.tasks - 1 /\ page'[w].frames = b.frames - t.frames
    BY <1>1, <1>7, <2>3, <2>4, <2>5, <2>6
  <2>8. page'[w].byIndex = [k \in DOMAIN b.byIndex \ {t.index} |-> b.byIndex[k]]
    BY <2>6
  <2>9. Accounts(page'[w], Mine(w) \ {t})
    BY <1>1, <1>7, <2>4, <2>7, BudgetAssumption DEF Accounts
  <2>10. NotesShares(page'[w], Mine(w) \ {t})
    BY <1>1, <2>2, <2>8 DEF NotesShares
  <2> QED BY <2>9, <2>10
<1>9. WindowFits(w)'
  <2>1. /\ IsFiniteSet(Mine(w)') /\ \A u \in Mine(w)' : u.plan <= plans'[w]
        /\ plans'[w] <= WindowPackages /\ plans[w] # 0
        /\ Cardinality(Mine(w)') <= MaxTasks /\ FramesOf(Mine(w)') <= MaxFrames
    BY <1>1, <1>3, <1>4, <1>6, <1>7, BudgetAssumption DEF WindowFits
  <2>2. plans'[w] = 1 /\ page'[w].open =>
            Accounts(page'[w], Mine(w)') /\ NotesShares(page'[w], Mine(w)')
    BY <1>3, <1>4, <1>8
  <2>3. Accounts(page[w], Mine(w))' <=> Accounts(page'[w], Mine(w)')
    BY DEF Accounts, FramesOf
  <2>4. NotesShares(page[w], Mine(w))' <=> NotesShares(page'[w], Mine(w)')
    BY DEF NotesShares
  <2>5. FramesOf(Mine(w))' = FramesOf(Mine(w)')
    BY DEF FramesOf
  <2> QED BY <1>3, <2>1, <2>2, <2>3, <2>4, <2>5 DEF WindowFits
<1> QED BY <1>1, <1>3, <1>5, <1>9 DEF BudgetInv, WindowFits

\* The tasks of a window that cost the model fit in its budget, tasks and frames, for any
\* windows, limits and branches, however tasks are given back between the plans of a
\* window, as long as there are two of them at most: what the first gave back was its own
\* share, and after the second nothing is sold. With more this does not hold (see the
\* README).
THEOREM TwoPackagesFit ==
  ASSUME WindowPackages \in 0..2
  PROVE  BudgetSpec => []NeverOversold
<1>1. BInit => BudgetInv
  <2> SUFFICES ASSUME BInit PROVE BudgetInv
    OBVIOUS
  <2>1. \A w \in BudgetWins : Mine(w) = {}
    BY DEF BInit, Mine
  <2>2. Cardinality({}) = 0 /\ IsFiniteSet({})
    BY FS_EmptySet
  <2>3. \A w \in BudgetWins : plans[w] = 0 /\ page[w] = NoPage
    BY DEF BInit
  <2>4. ASSUME NEW w \in BudgetWins PROVE WindowFits(w)
    BY <2>1, <2>2, <2>3, FramesOfNone, BudgetAssumption DEF WindowFits
  <2>5. plans \in [BudgetWins -> Nat] /\ DOMAIN page = BudgetWins /\ spent \subseteq BudgetTasks
    BY DEF BInit
  <2> QED BY <2>4, <2>5 DEF BudgetInv, WindowFits
<1>2. BudgetInv /\ [BNext]_bvars => BudgetInv'
  <2> SUFFICES ASSUME BudgetInv, [BNext]_bvars PROVE BudgetInv'
    OBVIOUS
  <2>1. ASSUME NEW w \in BudgetWins, ForgetPage(w) PROVE BudgetInv'
    <3>1. plans' = plans /\ spent' = spent /\ DOMAIN page' = BudgetWins /\ page'[w] = NoPage
          /\ page[w].open /\ \A v \in BudgetWins \ {w} : page'[v] = page[v]
      BY <2>1 DEF ForgetPage, BudgetInv
    <3>2. \A v \in BudgetWins : Mine(v)' = Mine(v)
      BY <3>1 DEF Mine
    <3>3. \A v \in BudgetWins : WindowFits(v)
      BY DEF BudgetInv, WindowFits
    <3>4. ASSUME NEW v \in BudgetWins \ {w} PROVE WindowFits(v)'
      BY <3>1, <3>2, <3>3, FitsElsewhere
    <3>5. WindowFits(w)'
      <4>1. WindowFits(w) /\ ~NoPage.open
        BY <3>3 DEF NoPage
      <4> QED BY <3>1, <3>2, <4>1 DEF WindowFits, FramesOf
    <3> QED BY <3>1, <3>4, <3>5 DEF BudgetInv, WindowFits
  <2>2. ASSUME NEW w \in BudgetWins, NEW branches \in Rows, PlanPackage(w, branches) PROVE BudgetInv'
    BY <2>2, PlanKeeps
  <2>3. ASSUME NEW t \in spent, ReleaseTask(t) PROVE BudgetInv'
    BY <2>3, GivenBackKeeps
  <2>4. ASSUME UNCHANGED bvars PROVE BudgetInv'
    <3>1. page' = page /\ plans' = plans /\ spent' = spent
      BY <2>4 DEF bvars
    <3>2. ASSUME NEW w \in BudgetWins PROVE WindowFits(w)'
      <4>1. WindowFits(w) /\ Mine(w)' = Mine(w)
        BY <3>1 DEF BudgetInv, WindowFits, Mine
      <4> QED BY <3>1, <4>1, FitsElsewhere
    <3> QED BY <3>1, <3>2 DEF BudgetInv, WindowFits
  <2> QED BY <2>1, <2>2, <2>3, <2>4 DEF BNext
<1>3. BudgetInv => NeverOversold
  BY DEF BudgetInv, NeverOversold
<1> QED BY <1>1, <1>2, <1>3, PTL DEF BudgetSpec
-------------------------------------------------------------------------------
(* MaterialsStore: the packages, the ledger of their frames and the leases. *)

Packages == [cam : PkgCams \cup {0}, era : Nat, shot : Nat, prev : Pkgs \cup {0}, cur : Pkgs,
             nxt : Pkgs \cup {0}, st : {"gone", "waiting", "consumable", "fallback"},
             why : {"none", "timeout", "verdict"}, res : {"none"} \cup Verdicts]
LeaseStates == {"none", "leased", "expired"}

\* What a package says of itself and of the frames it shows, with "n" packages made
\* and the leases "l".
Linked(m, p, q, gap) ==
    q # 0 => m[q].cam = m[p].cam /\ m[q].era = m[p].era /\ 0 < gap /\ gap <= NearGap
PackageFits(m, n, l, p) ==
    /\ m[p].cur = p /\ m[p].prev <= n /\ m[p].nxt <= n
    /\ m[p].st # "gone" => p <= n /\ m[p].cam \in PkgCams
    /\ m[p].st = "gone" => m[p].prev = 0 /\ m[p].nxt = 0
    /\ m[p].st = "consumable" => m[p].res = "ok"
    /\ m[p].st \in {"waiting", "fallback"} => m[p].res # "ok"
    /\ l[p] # "none" => m[p].st \in {"consumable", "fallback"}
    /\ Linked(m, p, m[p].prev, m[p].shot - m[m[p].prev].shot)
    /\ Linked(m, p, m[p].nxt, m[m[p].nxt].shot - m[p].shot)
WellMade(m, n, l) == m \in [Pkgs -> Packages] /\ \A p \in Pkgs : PackageFits(m, n, l, p)

\* The packages in the store, all and of a camera.
Stock(m, l) == {p \in Pkgs : m[p].st # "gone" /\ l[p] = "none"}
Ring(m, l, c) == {p \in Pkgs : m[p].st # "gone" /\ l[p] = "none" /\ m[p].cam = c}

\* An account is exact for some packages of those as they are.
PkgAccounts == [refs : [Pkgs -> Nat], bytes : Int]
Exact(m, b, S) ==
    /\ b \in PkgAccounts /\ \A f \in Pkgs : b.refs[f] = Shown(m, S, f)
    /\ b.bytes = Cardinality({f \in Pkgs : b.refs[f] > 0})

LEMMA PkgsFinite == IsFiniteSet(Pkgs) /\ Pkgs \subseteq Nat \ {0}
  BY MaterialsAssumption, FS_Interval DEF Pkgs

LEMMA ViewsFinite == IsFiniteSet(Views) /\ Cardinality(Views) = 3
<1>1. IsFiniteSet({"prev"}) /\ Cardinality({"prev"}) = 1
  BY FS_Singleton
<1>2. IsFiniteSet({"prev"} \cup {"cur"}) /\ Cardinality({"prev"} \cup {"cur"}) = 2
  BY <1>1, FS_AddElement
<1>3. IsFiniteSet({"prev"} \cup {"cur"} \cup {"nxt"})
      /\ Cardinality({"prev"} \cup {"cur"} \cup {"nxt"}) = 3
  BY <1>2, FS_AddElement
<1>4. Views = {"prev"} \cup {"cur"} \cup {"nxt"}
  BY DEF Views
<1> QED BY <1>3, <1>4

LEMMA ShownFinite ==
  ASSUME NEW m, NEW S \in SUBSET Pkgs, NEW f
  PROVE  IsFiniteSet(ShownAt(m, S, f)) /\ Shown(m, S, f) \in Nat
<1>1. IsFiniteSet(ShownAt(m, S, f))
  BY PkgsFinite, ViewsFinite, FS_Subset, FS_Product DEF ShownAt
<1> QED BY <1>1, FS_CardinalityType DEF Shown

LEMMA ShownNone ==
  ASSUME NEW m, NEW S \in SUBSET Pkgs, NEW f
  PROVE  Shown(m, S, f) = 0 <=> \A p \in S, s \in Views : m[p][s] # f
<1>1. ASSUME NEW p \in S, NEW s \in Views, m[p][s] = f PROVE ShownAt(m, S, f) # {}
  <2>1. <<p, s>> \in ShownAt(m, S, f)
    BY <1>1 DEF ShownAt
  <2> QED BY <2>1
<1>2. ASSUME \A p \in S, s \in Views : m[p][s] # f PROVE ShownAt(m, S, f) = {}
  BY <1>2 DEF ShownAt
<1> QED BY <1>1, <1>2, ShownFinite, FS_EmptySet DEF Shown

LEMMA ShownSplit ==
  ASSUME NEW m, NEW T \in SUBSET Pkgs, NEW S \in SUBSET T, NEW f
  PROVE  /\ Shown(m, T, f) = Shown(m, S, f) + Shown(m, T \ S, f)
         /\ Shown(m, S, f) \in Nat /\ Shown(m, T \ S, f) \in Nat
<1>1. S \in SUBSET Pkgs /\ T \ S \in SUBSET Pkgs
  OBVIOUS
<1>2. IsFiniteSet(ShownAt(m, S, f)) /\ IsFiniteSet(ShownAt(m, T \ S, f))
      /\ Shown(m, S, f) \in Nat /\ Shown(m, T \ S, f) \in Nat
  BY <1>1, ShownFinite
<1>3. /\ ShownAt(m, S, f) \cap ShownAt(m, T \ S, f) = {}
      /\ ShownAt(m, T, f) = ShownAt(m, S, f) \cup ShownAt(m, T \ S, f)
  BY DEF ShownAt
<1>4. Cardinality(ShownAt(m, T, f)) = Cardinality(ShownAt(m, S, f)) + Cardinality(ShownAt(m, T \ S, f))
  <2> DEFINE A == ShownAt(m, S, f)
             B == ShownAt(m, T \ S, f)
  <2>1. IsFiniteSet(A) /\ IsFiniteSet(B) /\ A \cap B = {} /\ ShownAt(m, T, f) = A \cup B
    BY <1>2, <1>3
  <2> HIDE DEF A, B
  <2>2. Cardinality(A \cup B) = Cardinality(A) + Cardinality(B) - Cardinality(A \cap B)
        /\ Cardinality(A) \in Nat /\ Cardinality(B) \in Nat
    BY <2>1, FS_Union, FS_CardinalityType
  <2>3. Cardinality(A \cap B) = 0
    BY <2>1, FS_EmptySet
  <2>4. Cardinality(ShownAt(m, T, f)) = Cardinality(A) + Cardinality(B)
    BY <2>1, <2>2, <2>3
  <2> QED BY <2>4 DEF A, B
<1> QED BY <1>2, <1>4 DEF Shown

LEMMA ShownSame ==
  ASSUME NEW m, NEW k, NEW S, NEW f, \A p \in S, s \in Views : m[p][s] = k[p][s]
  PROVE  Shown(m, S, f) = Shown(k, S, f)
<1>1. ShownAt(m, S, f) = ShownAt(k, S, f)
  BY DEF ShownAt
<1> QED BY <1>1 DEF Shown

LEMMA ExactSame ==
  ASSUME NEW m, NEW k, NEW S, NEW b, \A p \in S, s \in Views : m[p][s] = k[p][s], Exact(m, b, S)
  PROVE  Exact(k, b, S)
<1>1. \A f \in Pkgs : Shown(m, S, f) = Shown(k, S, f)
  BY ShownSame
<1> QED BY <1>1 DEF Exact

\* What leaves the store is taken from its account.
LEMMA UnrefExact ==
  ASSUME NEW m, NEW b, NEW T \in SUBSET Pkgs, NEW S \in SUBSET T, Exact(m, b, T)
  PROVE  /\ Exact(m, Unref(m, b, S), T \ S)
         /\ Unref(m, b, S).bytes <= b.bytes
<1> DEFINE left == [f \in Pkgs |-> IF Shown(m, S, f) >= b.refs[f] THEN 0
                                   ELSE b.refs[f] - Shown(m, S, f)]
           all == {f \in Pkgs : b.refs[f] > 0}
           freed == {f \in Pkgs : b.refs[f] > 0 /\ left[f] = 0}
<1>1. \A f \in Pkgs : /\ left[f] = Shown(m, T \ S, f) /\ left[f] \in Nat /\ left[f] <= b.refs[f]
                      /\ b.refs[f] \in Nat
  <2> TAKE f \in Pkgs
  <2>1. /\ Shown(m, T, f) = Shown(m, S, f) + Shown(m, T \ S, f)
        /\ Shown(m, S, f) \in Nat /\ Shown(m, T \ S, f) \in Nat
    BY ShownSplit
  <2>2. b.refs[f] = Shown(m, T, f)
    BY DEF Exact
  <2> QED BY <2>1, <2>2
<1>2. Unref(m, b, S) = [refs |-> left, bytes |-> b.bytes - Cardinality(freed)]
  BY DEF Unref
<1>3. left \in [Pkgs -> Nat]
  BY <1>1
<1> HIDE DEF left
<1>4. {f \in Pkgs : left[f] > 0} = all \ freed /\ all \cap freed = freed
  BY <1>1
<1>5. IsFiniteSet(all) /\ IsFiniteSet(freed) /\ Cardinality(freed) \in Nat
      /\ Cardinality(all) \in Nat
  BY PkgsFinite, FS_Subset, FS_CardinalityType
<1> HIDE DEF all, freed
<1>6. Cardinality(all \ freed) = Cardinality(all) - Cardinality(freed)
  BY <1>4, <1>5, FS_Difference
<1>7. b.bytes = Cardinality(all)
  BY DEF Exact, all
<1> DEFINE u == Unref(m, b, S)
<1>8. u.refs = left /\ u.bytes = b.bytes - Cardinality(freed)
      /\ u = [refs |-> u.refs, bytes |-> u.bytes]
  BY <1>2
<1>9. u.bytes = Cardinality(all \ freed) /\ u.bytes \in Int /\ u.bytes <= b.bytes
  BY <1>5, <1>6, <1>7, <1>8
<1> HIDE DEF u
<1>10. Exact(m, u, T \ S)
  <2>1. u \in PkgAccounts
    BY <1>3, <1>8, <1>9 DEF PkgAccounts
  <2>2. \A f \in Pkgs : u.refs[f] = Shown(m, T \ S, f)
    BY <1>1, <1>8
  <2>3. {f \in Pkgs : u.refs[f] > 0} = all \ freed
    BY <1>4, <1>8
  <2> QED BY <1>9, <2>1, <2>2, <2>3 DEF Exact
<1> QED BY <1>9, <1>10 DEF u

\* Leases are counted by camera, for packages "m" and leases "l".
LeasesOf(m, l, c, st) == {p \in Pkgs : m[p].cam = c /\ l[p] = st}
LeasesCounted(m, l, counts) ==
    \A c \in PkgCams :
        /\ counts[c].leased = Cardinality(LeasesOf(m, l, c, "leased"))
        /\ counts[c].expired = Cardinality(LeasesOf(m, l, c, "expired"))
        /\ Cardinality(LeasesOf(m, l, c, "leased")) + Cardinality(LeasesOf(m, l, c, "expired"))
                <= LeaseSlots
CountsOK(counts) == counts \in [PkgCams -> [leased : Int, expired : Int]]
\* The copies consumers keep alive are paid for; one without a lease is of a package gone.
CopiesPaid(m, l) ==
    /\ billed = Cardinality(LiveArrays) + dead /\ billed <= LeaseCap
    /\ \A p \in Pkgs : alive[p] > 0 /\ l[p] = "none" => m[p].st = "gone"
MatShape ==
    /\ packs \in 0..MaxPkgs /\ dead \in Nat /\ billed \in Int /\ storeOpen \in BOOLEAN
    /\ lease \in [Pkgs -> LeaseStates] /\ alive \in [Pkgs -> 0..3] /\ CountsOK(leaseCount)
    /\ \A p \in Pkgs : alive[p] > 0 => p <= packs
MatInv ==
    /\ MatShape /\ WellMade(pkg, packs, lease)
    /\ Exact(pkg, account, Stock(pkg, lease)) /\ account.bytes <= StoreCap
    /\ ~storeOpen => Stock(pkg, lease) = {}
    /\ \A c \in PkgCams : Cardinality(Ring(pkg, lease, c)) <= PerCamMax
    /\ LeasesCounted(pkg, lease, leaseCount) /\ CopiesPaid(pkg, lease)

\* Packages keep what they are about, whoever leaves.
SameFrames(m, k) ==
    \A p \in Pkgs : m[p].cam = k[p].cam /\ m[p].era = k[p].era /\ m[p].shot = k[p].shot
                    /\ m[p].cur = k[p].cur

LEMMA DroppedFits ==
  ASSUME NEW m, NEW n, NEW l, WellMade(m, n, l), n \in Nat, NEW out \in SUBSET Stock(m, l)
  PROVE  LET k == Cleared(m, out)
         IN  /\ WellMade(k, n, l) /\ Stock(k, l) = Stock(m, l) \ out /\ SameFrames(k, m)
             /\ \A p \in Pkgs \ out : k[p] = m[p]
             /\ \A c \in PkgCams : Ring(k, l, c) = Ring(m, l, c) \ out
<1> DEFINE k == Cleared(m, out)
<1>1. m \in [Pkgs -> Packages] /\ out \subseteq Pkgs /\ \A p \in Pkgs : m[p] \in Packages
  BY DEF WellMade, Stock
<1>2. \A p \in Pkgs : k[p] = IF p \in out THEN Dropped(m[p]) ELSE m[p]
  BY DEF Cleared
<1>3. DOMAIN k = Pkgs /\ k = [p \in Pkgs |-> k[p]]
  BY DEF Cleared
<1> HIDE DEF k
<1>4. ASSUME NEW e \in Packages
      PROVE  /\ Dropped(e) \in Packages /\ Dropped(e).cam = e.cam /\ Dropped(e).era = e.era
             /\ Dropped(e).shot = e.shot /\ Dropped(e).cur = e.cur /\ Dropped(e).st = "gone"
             /\ Dropped(e).prev = 0 /\ Dropped(e).nxt = 0 /\ Dropped(e).res = "none"
  BY DEF Dropped, Packages
<1>5. k \in [Pkgs -> Packages]
  BY <1>1, <1>2, <1>3, <1>4
<1>6. SameFrames(k, m)
  BY <1>1, <1>2, <1>4 DEF SameFrames
<1>7. ASSUME NEW p \in Pkgs PROVE PackageFits(k, n, l, p)
  <2>1. PackageFits(m, n, l, p)
    BY DEF WellMade
  <2>2. CASE p \in out
    <3>1. l[p] = "none" /\ m[p].cur = p
      BY <2>1, <2>2 DEF Stock, PackageFits
    <3> QED BY <1>1, <1>2, <1>4, <2>2, <3>1 DEF PackageFits, Linked
  <2>3. CASE p \notin out
    <3>1. k[p] = m[p]
      BY <1>2, <2>3
    <3>2. \A q \in Pkgs : k[q].cam = m[q].cam /\ k[q].era = m[q].era /\ k[q].shot = m[q].shot
      BY <1>6 DEF SameFrames
    <3>3. m[p].prev \in Pkgs \cup {0} /\ m[p].nxt \in Pkgs \cup {0}
      BY <1>1 DEF Packages
    <3>4. Linked(k, p, k[p].prev, k[p].shot - k[k[p].prev].shot)
          /\ Linked(k, p, k[p].nxt, k[k[p].nxt].shot - k[p].shot)
      BY <2>1, <3>1, <3>2, <3>3 DEF PackageFits, Linked
    <3> QED BY <2>1, <3>1, <3>4 DEF PackageFits
  <2> QED BY <2>2, <2>3
<1>8. WellMade(k, n, l)
  BY <1>5, <1>7 DEF WellMade
<1>9. Stock(k, l) = Stock(m, l) \ out /\ \A c \in PkgCams : Ring(k, l, c) = Ring(m, l, c) \ out
  BY <1>1, <1>2, <1>4 DEF Stock, Ring
<1> QED BY <1>2, <1>6, <1>8, <1>9 DEF k


LEMMA StockIsHeld ==
  ASSUME NEW m
  PROVE  Held(m) = Stock(m, lease) /\ \A c : HeldBy(m, c) = Ring(m, lease, c)
  BY DEF Held, HeldBy, Stock, Ring

\* What the upkeep of a call makes of the packages.
LEMMA SweptFits ==
  ASSUME MatShape, WellMade(pkg, packs, lease), NEW x, NEW t
  PROVE  LET m == Swept(x, t)
             old == TooOld(x)
         IN  /\ WellMade(m, packs, lease) /\ SameFrames(m, pkg)
             /\ Stock(m, lease) = Stock(pkg, lease) \ old
             /\ old \subseteq Stock(pkg, lease)
             /\ \A p \in Pkgs \ old : \A s \in Views : m[p][s] = pkg[p][s]
             /\ \A p \in Pkgs : lease[p] # "none" => m[p] = pkg[p]
             /\ \A p \in Pkgs : pkg[p].st = "gone" => m[p].st = "gone"
             /\ \A c \in PkgCams : Ring(m, lease, c) = Ring(pkg, lease, c) \ old
<1> DEFINE old == TooOld(x)
           k == Cleared(pkg, old)
           m == Swept(x, t)
<1>1. old \subseteq Stock(pkg, lease) /\ packs \in Nat
  BY StockIsHeld, MaterialsAssumption DEF TooOld, MatShape
<1>2. /\ WellMade(k, packs, lease) /\ Stock(k, lease) = Stock(pkg, lease) \ old
      /\ SameFrames(k, pkg) /\ \A p \in Pkgs \ old : k[p] = pkg[p]
      /\ \A c \in PkgCams : Ring(k, lease, c) = Ring(pkg, lease, c) \ old
  BY <1>1, DroppedFits
<1>3. \A p \in Pkgs : k[p] = IF p \in old THEN Dropped(pkg[p]) ELSE pkg[p]
  BY DEF Cleared
<1>4. \A p \in Pkgs : m[p] = IF p \in old THEN Dropped(pkg[p])
                             ELSE IF pkg[p].st = "waiting" /\ p <= t
                             THEN [pkg[p] EXCEPT !.st = "fallback", !.why = "timeout"]
                             ELSE pkg[p]
  BY DEF Swept
<1>5. m = [p \in Pkgs |-> m[p]]
  BY DEF Swept
<1> HIDE DEF m, k, old
<1>6. \A p \in Pkgs : m[p] = IF p \notin old /\ k[p].st = "waiting" /\ p <= t
                             THEN [k[p] EXCEPT !.st = "fallback", !.why = "timeout"]
                             ELSE k[p]
  BY <1>3, <1>4
<1>7. \A p \in Pkgs : pkg[p] \in Packages /\ k[p] \in Packages
  BY <1>2 DEF WellMade
<1>8. \A p \in Pkgs :
        /\ m[p] \in Packages /\ m[p].cam = k[p].cam /\ m[p].era = k[p].era
        /\ m[p].shot = k[p].shot /\ m[p].cur = k[p].cur /\ m[p].prev = k[p].prev
        /\ m[p].nxt = k[p].nxt /\ m[p].res = k[p].res
        /\ m[p].st = k[p].st \/ (k[p].st = "waiting" /\ m[p].st = "fallback")
  <2> TAKE p \in Pkgs
  <2> DEFINE e == k[p]
             late == [e EXCEPT !.st = "fallback", !.why = "timeout"]
  <2>1. late \in Packages /\ late.cam = e.cam /\ late.era = e.era /\ late.shot = e.shot
        /\ late.cur = e.cur /\ late.prev = e.prev /\ late.nxt = e.nxt /\ late.res = e.res
        /\ late.st = "fallback" /\ e \in Packages
    <3>1. e \in Packages
      BY <1>7
    <3> HIDE DEF e
    <3> QED BY <3>1 DEF Packages
  <2>2. m[p] = e \/ (e.st = "waiting" /\ m[p] = late)
    BY <1>6
  <2> HIDE DEF e, late
  <2>3. /\ m[p] \in Packages /\ m[p].cam = e.cam /\ m[p].era = e.era
        /\ m[p].shot = e.shot /\ m[p].cur = e.cur /\ m[p].prev = e.prev
        /\ m[p].nxt = e.nxt /\ m[p].res = e.res
        /\ m[p].st = e.st \/ (e.st = "waiting" /\ m[p].st = "fallback")
    BY <2>1, <2>2
  <2> QED BY <2>3 DEF e
<1>9. ASSUME NEW p \in Pkgs PROVE PackageFits(m, packs, lease, p)
  <2>1. PackageFits(k, packs, lease, p)
    BY <1>2 DEF WellMade
  <2>2. m[p].prev \in Pkgs \cup {0} /\ m[p].nxt \in Pkgs \cup {0}
    BY <1>8 DEF Packages
  <2>3. Linked(m, p, m[p].prev, m[p].shot - m[m[p].prev].shot)
        /\ Linked(m, p, m[p].nxt, m[m[p].nxt].shot - m[p].shot)
    BY <1>8, <2>1, <2>2 DEF PackageFits, Linked
  <2> QED BY <1>8, <2>1, <2>3 DEF PackageFits
<1>10. WellMade(m, packs, lease)
  BY <1>5, <1>8, <1>9 DEF WellMade
<1>11. SameFrames(m, pkg)
  BY <1>2, <1>8 DEF SameFrames
<1>12. Stock(m, lease) = Stock(k, lease) /\ \A c \in PkgCams : Ring(m, lease, c) = Ring(k, lease, c)
  BY <1>8 DEF Stock, Ring
<1>13. \A p \in Pkgs \ old : \A s \in Views : m[p][s] = pkg[p][s]
  BY <1>2, <1>8 DEF Views
<1>14. \A p \in Pkgs : lease[p] # "none" => m[p] = pkg[p]
  <2> SUFFICES ASSUME NEW p \in Pkgs, lease[p] # "none" PROVE m[p] = pkg[p]
    OBVIOUS
  <2>1. p \notin old /\ pkg[p].st # "waiting"
    BY <1>1 DEF WellMade, PackageFits, Stock
  <2> QED BY <1>4, <2>1
<1>15. \A p \in Pkgs : pkg[p].st = "gone" => m[p].st = "gone"
  BY <1>1, <1>4 DEF Stock
<1> QED BY <1>1, <1>2, <1>10, <1>11, <1>12, <1>13, <1>14, <1>15 DEF m, old


\* Packages that keep their frames and links, and lose no lease: what else may change.
LEMMA CopiesKept ==
  ASSUME NEW m, CopiesPaid(pkg, lease), \A p \in Pkgs : pkg[p].st = "gone" => m[p].st = "gone"
  PROVE  \A p \in Pkgs : alive[p] > 0 /\ lease[p] = "none" => m[p].st = "gone"
  BY DEF CopiesPaid

\* Leases found overdue.
LEMMA OverdueFits ==
  ASSUME MatShape, NEW m, NEW n, WellMade(m, n, lease), NEW late \in SUBSET Leased
  PROVE  LET l == Overdue(late)
         IN  /\ l \in [Pkgs -> LeaseStates] /\ WellMade(m, n, l)
             /\ \A p \in Pkgs : l[p] = "none" <=> lease[p] = "none"
             /\ Stock(m, l) = Stock(m, lease) /\ \A c : Ring(m, l, c) = Ring(m, lease, c)
<1> DEFINE l == Overdue(late)
<1>1. /\ l \in [Pkgs -> LeaseStates]
      /\ \A p \in Pkgs : l[p] = "none" <=> lease[p] = "none"
  BY DEF MatShape, Overdue, Leased, LeaseStates
<1> HIDE DEF l
<1>2. WellMade(m, n, l)
  BY <1>1 DEF WellMade, PackageFits
<1>3. Stock(m, l) = Stock(m, lease) /\ \A c : Ring(m, l, c) = Ring(m, lease, c)
  BY <1>1 DEF Stock, Ring
<1> QED BY <1>1, <1>2, <1>3 DEF l

LEMMA OverdueCounted ==
  ASSUME MatShape, WellMade(pkg, packs, lease), LeasesCounted(pkg, lease, leaseCount),
         NEW late \in SUBSET Leased
  PROVE  CountsOK(Recounted(late)) /\ LeasesCounted(pkg, Overdue(late), Recounted(late))
<1> DEFINE l == Overdue(late)
           counts == Recounted(late)
<1>1. ASSUME NEW c \in PkgCams
      PROVE  /\ counts[c] \in [leased : Int, expired : Int]
             /\ counts[c].leased = Cardinality(LeasesOf(pkg, l, c, "leased"))
             /\ counts[c].expired = Cardinality(LeasesOf(pkg, l, c, "expired"))
             /\ Cardinality(LeasesOf(pkg, l, c, "leased"))
                  + Cardinality(LeasesOf(pkg, l, c, "expired")) <= LeaseSlots
  <2> DEFINE A == LeasesOf(pkg, lease, c, "leased")
             B == LeasesOf(pkg, lease, c, "expired")
             L == {p \in late : pkg[p].cam = c}
  <2>1. L \subseteq A /\ B \cap L = {} /\ A \subseteq Pkgs /\ B \subseteq Pkgs
        /\ LeasesOf(pkg, l, c, "leased") = A \ L /\ LeasesOf(pkg, l, c, "expired") = B \cup L
    BY DEF LeasesOf, Overdue, Leased
  <2>2. IsFiniteSet(A) /\ IsFiniteSet(B) /\ IsFiniteSet(L)
    BY <2>1, PkgsFinite, FS_Subset
  <2>3. counts[c] = [leased |-> leaseCount[c].leased - Cardinality(L),
                     expired |-> leaseCount[c].expired + Cardinality(L)]
    BY DEF Recounted
  <2>4. /\ leaseCount[c].leased = Cardinality(A) /\ leaseCount[c].expired = Cardinality(B)
        /\ Cardinality(A) + Cardinality(B) <= LeaseSlots
    BY DEF LeasesCounted
  <2> HIDE DEF A, B, L, l, counts
  <2>5. A \cap L = L
    BY <2>1
  <2>6. Cardinality(A) \in Nat /\ Cardinality(B) \in Nat /\ Cardinality(L) \in Nat
    BY <2>2, FS_CardinalityType
  <2>7. Cardinality(A \ L) = Cardinality(A) - Cardinality(L)
    BY <2>2, <2>5, FS_Difference
  <2>8. Cardinality(B \cup L) = Cardinality(B) + Cardinality(L) - Cardinality(B \cap L)
    BY <2>2, FS_Union
  <2>9. Cardinality(B \cap L) = 0
    BY <2>1, FS_EmptySet
  <2>10. /\ Cardinality(A \ L) = leaseCount[c].leased - Cardinality(L)
         /\ Cardinality(B \cup L) = leaseCount[c].expired + Cardinality(L)
         /\ Cardinality(A \ L) + Cardinality(B \cup L) = Cardinality(A) + Cardinality(B)
         /\ leaseCount[c].leased \in Nat /\ leaseCount[c].expired \in Nat
    BY <2>4, <2>6, <2>7, <2>8, <2>9
  <2>11. /\ counts[c] \in [leased : Int, expired : Int]
         /\ counts[c].leased = leaseCount[c].leased - Cardinality(L)
         /\ counts[c].expired = leaseCount[c].expired + Cardinality(L)
    BY <2>3, <2>6, <2>10
  <2> QED BY <2>1, <2>4, <2>10, <2>11
<1>2. counts = [c \in PkgCams |-> counts[c]]
  BY DEF Recounted
<1> HIDE DEF l, counts
<1>3. CountsOK(counts)
  BY <1>1, <1>2 DEF CountsOK
<1>4. LeasesCounted(pkg, l, counts)
  BY <1>1 DEF LeasesCounted
<1> QED BY <1>3, <1>4 DEF l, counts

\* The leases of packages that are about the same frames are the same.
LEMMA CountedSame ==
  ASSUME NEW m, NEW l, NEW counts, LeasesCounted(pkg, l, counts), SameFrames(m, pkg)
  PROVE  LeasesCounted(m, l, counts)
<1>1. \A c, st : LeasesOf(m, l, c, st) = LeasesOf(pkg, l, c, st)
  BY DEF LeasesOf, SameFrames
<1> QED BY <1>1 DEF LeasesCounted

LEMMA RingFits ==
  ASSUME NEW m, NEW l, NEW c, NEW T, Cardinality(Ring(m, l, c)) <= PerCamMax,
         T \subseteq Ring(m, l, c)
  PROVE  Cardinality(T) <= PerCamMax
<1>1. IsFiniteSet(Ring(m, l, c))
  BY PkgsFinite, FS_Subset DEF Ring
<1>2. Cardinality(T) <= Cardinality(Ring(m, l, c)) /\ Cardinality(T) \in Nat
      /\ Cardinality(Ring(m, l, c)) \in Nat
  BY <1>1, FS_Subset, FS_CardinalityType
<1> QED BY <1>2, MaterialsAssumption

\* Each array of a copy that lives has its number; an empty copy has none.
LEMMA LiveThose == ASSUME NEW f \in [Pkgs -> 0..3]
  PROVE {x \in {p \in Pkgs : f[p] > 0} \X (1..3) : x[2] <= f[x[1]]}
            = {x \in Pkgs \X (1..3) : x[2] <= f[x[1]]}
<1>1. ASSUME NEW x \in Pkgs \X (1..3), x[2] <= f[x[1]] PROVE f[x[1]] > 0
  <2>1. x[1] \in Pkgs /\ x[2] \in 1..3
    OBVIOUS
  <2>2. f[x[1]] \in 0..3
    BY <2>1
  <2> QED BY <1>1, <2>1, <2>2
<1> QED BY <1>1

LEMMA LiveFinite == ASSUME NEW f \in [Pkgs -> 0..3]
  PROVE IsFiniteSet({x \in {p \in Pkgs : f[p] > 0} \X (1..3) : x[2] <= f[x[1]]})
<1>1. \A a, b \in Int : IsFiniteSet(a..b)
  BY FS_Interval
<1>2. IsFiniteSet(Pkgs \X (1..3))
  <2>0. 1 \in Int /\ 3 \in Int
    OBVIOUS
  <2>2. IsFiniteSet(1..3)
    BY <1>1, <2>0, Zenon
  <2>1. IsFiniteSet(1..3) /\ IsFiniteSet(Pkgs)
    BY <2>2, PkgsFinite, Zenon
  <2> QED BY <2>1, FS_Product
<1>3. IsFiniteSet({x \in Pkgs \X (1..3) : x[2] <= f[x[1]]})
  BY <1>2, FS_Subset
<1> QED BY <1>3, LiveThose

\* The state a call works from: what its upkeep made of the store.
StoreKept(m, b, l, counts) ==
    /\ WellMade(m, packs, l) /\ l \in [Pkgs -> LeaseStates] /\ CountsOK(counts)
    /\ Exact(m, b, Stock(m, l)) /\ b.bytes <= StoreCap
    /\ ~storeOpen => Stock(m, l) = {}
    /\ \A c \in PkgCams : Cardinality(Ring(m, l, c)) <= PerCamMax
    /\ LeasesCounted(m, l, counts) /\ SameFrames(m, pkg)
    /\ \A p \in Pkgs : alive[p] > 0 /\ l[p] = "none" => m[p].st = "gone"

LEMMA SweptKept ==
  ASSUME MatInv, NEW x, NEW t, NEW late \in SUBSET Leased
  PROVE  /\ StoreKept(Swept(x, t), SweptAccount(x), Overdue(late), Recounted(late))
         /\ \A p \in Pkgs : lease[p] # "none" => Swept(x, t)[p] = pkg[p]
<1> DEFINE m == Swept(x, t)
           old == TooOld(x)
           b == SweptAccount(x)
           l == Overdue(late)
<1>1. /\ MatShape /\ WellMade(pkg, packs, lease) /\ LeasesCounted(pkg, lease, leaseCount)
      /\ CopiesPaid(pkg, lease)
      /\ Exact(pkg, account, Stock(pkg, lease)) /\ account.bytes <= StoreCap
      /\ ~storeOpen => Stock(pkg, lease) = {}
      /\ \A c \in PkgCams : Cardinality(Ring(pkg, lease, c)) <= PerCamMax
  BY DEF MatInv
<1>2. /\ WellMade(m, packs, lease) /\ SameFrames(m, pkg)
      /\ Stock(m, lease) = Stock(pkg, lease) \ old
      /\ old \subseteq Stock(pkg, lease)
      /\ \A p \in Pkgs \ old : \A s \in Views : m[p][s] = pkg[p][s]
      /\ \A p \in Pkgs : lease[p] # "none" => m[p] = pkg[p]
      /\ \A p \in Pkgs : pkg[p].st = "gone" => m[p].st = "gone"
      /\ \A c \in PkgCams : Ring(m, lease, c) = Ring(pkg, lease, c) \ old
  BY <1>1, SweptFits
<1> HIDE DEF m
<1>3. /\ l \in [Pkgs -> LeaseStates] /\ WellMade(m, packs, l)
      /\ \A p \in Pkgs : l[p] = "none" <=> lease[p] = "none"
      /\ Stock(m, l) = Stock(m, lease) /\ \A c : Ring(m, l, c) = Ring(m, lease, c)
  BY <1>1, <1>2, OverdueFits
<1>4. CountsOK(Recounted(late)) /\ LeasesCounted(pkg, l, Recounted(late))
  BY <1>1, OverdueCounted
<1>5. LeasesCounted(m, l, Recounted(late))
  BY <1>2, <1>4, CountedSame
<1>6. b = Unref(pkg, account, old)
  BY DEF SweptAccount
<1> HIDE DEF l, old, b
<1>7. Stock(pkg, lease) \subseteq Pkgs
  BY DEF Stock
<1>8. Exact(pkg, b, Stock(pkg, lease) \ old) /\ b.bytes <= account.bytes
  BY <1>1, <1>2, <1>6, <1>7, UnrefExact
<1>9. Exact(m, b, Stock(m, l))
  <2>1. \A p \in Stock(m, l), s \in Views : pkg[p][s] = m[p][s]
    BY <1>2, <1>3, <1>7
  <2>2. Exact(pkg, b, Stock(m, l))
    BY <1>2, <1>3, <1>8
  <2> QED BY <2>1, <2>2, ExactSame
<1>10. b.bytes <= StoreCap
  BY <1>1, <1>8, <1>9, MaterialsAssumption DEF Exact, PkgAccounts
<1>11. ASSUME NEW c \in PkgCams PROVE Cardinality(Ring(m, l, c)) <= PerCamMax
  <2>1. Ring(m, l, c) \subseteq Ring(pkg, lease, c)
    BY <1>2, <1>3
  <2> QED BY <1>1, <2>1, RingFits
<1>12. \A p \in Pkgs : alive[p] > 0 /\ l[p] = "none" => m[p].st = "gone"
  BY <1>1, <1>2, <1>3 DEF CopiesPaid
<1>13. ~storeOpen => Stock(m, l) = {}
  BY <1>1, <1>2, <1>3
<1> QED BY <1>2, <1>3, <1>4, <1>5, <1>9, <1>10, <1>11, <1>12, <1>13 DEF StoreKept, m, l, b


\* What is billed once an end was noticed.
LEMMA DrainedPaid ==
  ASSUME MatShape, CopiesPaid(pkg, lease)
  PROVE  /\ Drained = Cardinality(LiveArrays) /\ Drained \in Nat /\ Drained <= LeaseCap
         /\ IsFiniteSet(LiveArrays)
<1>1. IsFiniteSet(LiveArrays) /\ Cardinality(LiveArrays) \in Nat
  BY LiveFinite, FS_CardinalityType DEF LiveArrays, MatShape
<1>2. billed = Cardinality(LiveArrays) + dead /\ billed <= LeaseCap /\ dead \in Nat
  BY DEF CopiesPaid, MatShape
<1> QED BY <1>1, <1>2, MaterialsAssumption DEF Drained

LEMMA MatInitial == MatInit => MatInv
<1> SUFFICES ASSUME MatInit PROVE MatInv
  OBVIOUS
<1>1. \A p \in Pkgs : pkg[p].cur = p /\ pkg[p].prev = 0 /\ pkg[p].nxt = 0 /\ pkg[p].st = "gone"
  BY DEF MatInit
<1>2. pkg \in [Pkgs -> Packages]
  BY DEF MatInit, Packages
<1>3. WellMade(pkg, packs, lease)
  <2>1. ASSUME NEW p \in Pkgs PROVE PackageFits(pkg, packs, lease, p)
    <3>1. lease[p] = "none" /\ packs = 0
      BY DEF MatInit
    <3> QED BY <1>1, <3>1 DEF PackageFits, Linked
  <2> QED BY <1>2, <2>1 DEF WellMade
<1>4. Stock(pkg, lease) = {} /\ \A c : Ring(pkg, lease, c) = {}
  BY <1>1 DEF Stock, Ring
<1>5. Exact(pkg, account, {})
  <2>1. account \in PkgAccounts /\ account.bytes = 0 /\ \A f \in Pkgs : account.refs[f] = 0
    BY DEF MatInit, PkgAccounts
  <2>2. \A f \in Pkgs : Shown(pkg, {}, f) = 0
    BY ShownNone
  <2>3. {f \in Pkgs : account.refs[f] > 0} = {}
    BY <2>1
  <2> QED BY <2>1, <2>2, <2>3, FS_EmptySet DEF Exact
<1>6. MatShape
  BY MaterialsAssumption DEF MatInit, MatShape, LeaseStates, CountsOK
<1>7. LiveArrays = {}
  BY DEF MatInit, LiveArrays
<1>8. CopiesPaid(pkg, lease)
  BY <1>7, FS_EmptySet, MaterialsAssumption DEF CopiesPaid, MatInit
<1>9. LeasesCounted(pkg, lease, leaseCount)
  <2>1. \A p \in Pkgs : lease[p] = "none"
    BY DEF MatInit
  <2>2. \A c \in PkgCams : LeasesOf(pkg, lease, c, "leased") = {}
                         /\ LeasesOf(pkg, lease, c, "expired") = {}
    BY <2>1 DEF LeasesOf
  <2>3. \A c \in PkgCams : leaseCount[c].leased = 0 /\ leaseCount[c].expired = 0
    BY DEF MatInit
  <2>4. Cardinality({}) = 0 /\ LeaseSlots \in Nat
    BY FS_EmptySet, MaterialsAssumption
  <2>5. ASSUME NEW c \in PkgCams
        PROVE  /\ Cardinality(LeasesOf(pkg, lease, c, "leased")) = 0
               /\ Cardinality(LeasesOf(pkg, lease, c, "expired")) = 0
    BY <2>2, <2>4
  <2> QED BY <2>3, <2>4, <2>5 DEF LeasesCounted
<1>10. account.bytes = 0
  BY DEF MatInit
<1> QED BY <1>3, <1>4, <1>5, <1>6, <1>8, <1>9, <1>10, FS_EmptySet, MaterialsAssumption DEF MatInv

\* A call that changes nothing more.
LEMMA UpkeepStep ==
  ASSUME MatInv, NEW x, NEW t, NEW late \in SUBSET Leased, Upkeep(x, t, late)
  PROVE  MatInv'
<1>1. StoreKept(pkg', account', lease', leaseCount')
  BY SweptKept DEF Upkeep
<1>2. MatShape /\ CopiesPaid(pkg, lease)
  BY DEF MatInv
<1>3. Drained = Cardinality(LiveArrays) /\ Drained \in Nat /\ Drained <= LeaseCap
  BY <1>2, DrainedPaid
<1>4. LiveArrays' = LiveArrays /\ packs' = packs /\ alive' = alive /\ storeOpen' = storeOpen
      /\ dead' = 0 /\ billed' = Drained
  BY DEF Upkeep, LiveArrays
<1>5. MatShape'
  BY <1>1, <1>2, <1>3, <1>4 DEF MatShape, StoreKept, CountsOK
<1>6. CopiesPaid(pkg, lease)'
  BY <1>1, <1>3, <1>4 DEF StoreKept, CopiesPaid
<1> QED BY <1>1, <1>4, <1>5, <1>6 DEF MatInv, StoreKept

\* What a consumer drops was not the store's any more.
LEMMA CollectStep ==
  ASSUME MatInv, NEW p \in Pkgs, Collect(p) PROVE MatInv'
<1>1. /\ MatShape /\ CopiesPaid(pkg, lease) /\ alive[p] > 0 /\ lease[p] = "none"
      /\ alive \in [Pkgs -> 0..3]
  BY DEF MatInv, Collect, MatShape
<1>2. /\ alive' = [alive EXCEPT ![p] = @ - 1] /\ dead' = dead + 1
      /\ UNCHANGED <<pkg, packs, account, lease, leaseCount, billed, storeOpen>>
  BY DEF Collect
<1>3. alive' \in [Pkgs -> 0..3] /\ \A q \in Pkgs : alive'[q] > 0 => alive[q] > 0
  BY <1>1, <1>2
<1>4. LiveArrays' = LiveArrays \ {<<p, alive[p]>>} /\ <<p, alive[p]>> \in LiveArrays
  <2>1. \A q \in Pkgs, i \in 1..3 : i <= alive'[q] <=> (i <= alive[q] /\ <<q, i>> # <<p, alive[p]>>)
    BY <1>1, <1>2
  <2>2. /\ LiveArrays = {x \in Pkgs \X (1..3) : x[2] <= alive[x[1]]}
        /\ LiveArrays' = {x \in Pkgs \X (1..3) : x[2] <= alive'[x[1]]}
    BY <1>1, <1>3, LiveThose DEF LiveArrays
  <2> QED BY <1>1, <2>1, <2>2
<1>5. IsFiniteSet(LiveArrays) /\ Cardinality(LiveArrays) \in Nat
  BY <1>1, LiveFinite, FS_CardinalityType DEF LiveArrays
<1>6. Cardinality(LiveArrays') = Cardinality(LiveArrays) - 1
  BY <1>4, <1>5, FS_RemoveElement
<1>7. CopiesPaid(pkg, lease)'
  <2>1. billed = Cardinality(LiveArrays) + dead /\ billed <= LeaseCap /\ dead \in Nat
        /\ \A q \in Pkgs : alive[q] > 0 /\ lease[q] = "none" => pkg[q].st = "gone"
    BY <1>1 DEF CopiesPaid, MatShape
  <2>2. billed' = Cardinality(LiveArrays') + dead' /\ billed' <= LeaseCap
    BY <1>2, <1>5, <1>6, <2>1
  <2> QED BY <1>2, <1>3, <2>1, <2>2 DEF CopiesPaid
<1>8. MatShape'
  BY <1>1, <1>2, <1>3 DEF MatShape
<1>9. /\ WellMade(pkg', packs', lease') /\ Exact(pkg', account', Stock(pkg', lease'))
      /\ account'.bytes <= StoreCap /\ (~storeOpen' => Stock(pkg', lease') = {})
      /\ \A c \in PkgCams : Cardinality(Ring(pkg', lease', c)) <= PerCamMax
      /\ LeasesCounted(pkg', lease', leaseCount')
  BY <1>2 DEF MatInv
<1> QED BY <1>7, <1>8, <1>9 DEF MatInv


\* The verdict of an attached result.
LEMMA AttachStep ==
  ASSUME MatInv, NEW k \in Captures, NEW v \in Verdicts, NEW x, NEW t, Attach(k, v, x, t)
  PROVE  MatInv'
<1> DEFINE m == Swept(x, t)
<1>1. {} \in SUBSET Leased /\ Overdue({}) = lease /\ Recounted({}) = leaseCount
  <2>1. Overdue({}) = lease
    BY DEF Overdue, MatInv, MatShape
  <2>2. \A c \in PkgCams : Recounted({})[c] = leaseCount[c]
    <3>1. \A c : {p \in {} : pkg[p].cam = c} = {}
      OBVIOUS
    <3>2. Cardinality({}) = 0
      BY FS_EmptySet
    <3> QED BY <3>1, <3>2 DEF Recounted, MatInv, MatShape, CountsOK
  <2>3. Recounted({}) = [c \in PkgCams |-> Recounted({})[c]]
    BY DEF Recounted
  <2> QED BY <2>1, <2>2, <2>3 DEF MatInv, MatShape, CountsOK
<1>2. StoreKept(m, SweptAccount(x), lease, leaseCount)
  BY <1>1, SweptKept
<1> HIDE DEF m
<1>3. PICK p \in Known(m, k) : pkg' = [m EXCEPT ![p] = Judged(@, v)] /\ ~VerdictGiven(m[p])
  BY DEF Attach, m
<1>4. account' = SweptAccount(x) /\ billed' = Drained /\ dead' = 0
      /\ UNCHANGED <<packs, lease, leaseCount, alive, storeOpen>>
  BY DEF Attach
<1>5. p \in Pkgs /\ m[p].st # "gone" /\ lease[p] = "none" /\ m \in [Pkgs -> Packages]
  BY <1>2 DEF Known, HeldBy, StoreKept, WellMade
<1>6. \A q \in Pkgs : pkg'[q] = IF q = p THEN Judged(m[q], v) ELSE m[q]
  BY <1>3, <1>5
<1>7. ASSUME NEW e \in Packages
      PROVE  /\ Judged(e, v) \in Packages /\ Judged(e, v).cam = e.cam
             /\ Judged(e, v).era = e.era
             /\ Judged(e, v).shot = e.shot /\ Judged(e, v).cur = e.cur
             /\ Judged(e, v).prev = e.prev /\ Judged(e, v).nxt = e.nxt
             /\ Judged(e, v).st \in {"consumable", "fallback"}
             /\ Judged(e, v).st = "consumable" => Judged(e, v).res = "ok"
             /\ Judged(e, v).st = "fallback" => Judged(e, v).res # "ok"
  <2>1. CASE v = "ok"
    <3>1. Judged(e, v) = [e EXCEPT !.st = "consumable", !.why = "none", !.res = v]
      BY <2>1 DEF Judged
    <3> QED BY <2>1, <3>1 DEF Packages, Verdicts
  <2>2. CASE v # "ok" /\ e.st = "fallback"
    <3>1. Judged(e, v) = [e EXCEPT !.res = v]
      BY <2>2 DEF Judged
    <3> QED BY <2>2, <3>1 DEF Packages, Verdicts
  <2>3. CASE v # "ok" /\ e.st # "fallback"
    <3>1. Judged(e, v) = [e EXCEPT !.st = "fallback", !.why = "verdict", !.res = v]
      BY <2>3 DEF Judged
    <3> QED BY <2>3, <3>1 DEF Packages, Verdicts
  <2> QED BY <2>1, <2>2, <2>3
<1>8. \A q \in Pkgs : /\ pkg'[q] \in Packages /\ pkg'[q].cam = m[q].cam
                      /\ pkg'[q].era = m[q].era
                      /\ pkg'[q].shot = m[q].shot /\ pkg'[q].cur = m[q].cur
                      /\ pkg'[q].prev = m[q].prev /\ pkg'[q].nxt = m[q].nxt
                      /\ pkg'[q].st = "gone" <=> m[q].st = "gone"
  BY <1>5, <1>6, <1>7
<1>9. WellMade(pkg', packs, lease)
  <2>1. ASSUME NEW q \in Pkgs PROVE PackageFits(pkg', packs, lease, q)
    <3>1. PackageFits(m, packs, lease, q)
      BY <1>2 DEF StoreKept, WellMade
    <3>2. pkg'[q].prev \in Pkgs \cup {0} /\ pkg'[q].nxt \in Pkgs \cup {0}
      BY <1>8 DEF Packages
    <3>3. Linked(pkg', q, pkg'[q].prev, pkg'[q].shot - pkg'[pkg'[q].prev].shot)
          /\ Linked(pkg', q, pkg'[q].nxt, pkg'[pkg'[q].nxt].shot - pkg'[q].shot)
      BY <1>8, <3>1, <3>2 DEF PackageFits, Linked
    <3>4. CASE q = p
      <4>1. pkg'[p].st \in {"consumable", "fallback"}
            /\ (pkg'[p].st = "consumable" => pkg'[p].res = "ok")
            /\ (pkg'[p].st = "fallback" => pkg'[p].res # "ok")
        BY <1>5, <1>6, <1>7
      <4> QED BY <1>5, <1>8, <3>1, <3>3, <3>4, <4>1 DEF PackageFits
    <3>5. CASE q # p
      <4>1. pkg'[q] = m[q]
        BY <1>6, <3>5
      <4> QED BY <3>1, <3>3, <4>1 DEF PackageFits
    <3> QED BY <3>4, <3>5
  <2>2. pkg' \in [Pkgs -> Packages]
    BY <1>3, <1>5, <1>8
  <2> QED BY <2>1, <2>2 DEF WellMade
<1>10. Stock(pkg', lease) = Stock(m, lease) /\ \A c : Ring(pkg', lease, c) = Ring(m, lease, c)
  BY <1>8 DEF Stock, Ring
<1>11. Exact(pkg', account', Stock(pkg', lease)) /\ account'.bytes <= StoreCap
  <2>1. \A q \in Stock(m, lease), s \in Views : m[q][s] = pkg'[q][s]
    BY <1>8 DEF Stock, Views
  <2> QED BY <1>2, <1>4, <1>10, <2>1, ExactSame DEF StoreKept
<1>12. SameFrames(pkg', pkg)
  BY <1>2, <1>8 DEF SameFrames, StoreKept
<1>13. MatShape /\ CopiesPaid(pkg, lease) /\ LeasesCounted(pkg, lease, leaseCount)
  BY DEF MatInv
<1>14. Drained = Cardinality(LiveArrays) /\ Drained \in Nat /\ Drained <= LeaseCap
  BY <1>13, DrainedPaid
<1>15. LiveArrays' = LiveArrays
  BY <1>4 DEF LiveArrays
<1>16. MatShape'
  BY <1>4, <1>13, <1>14 DEF MatShape
<1>17. CopiesPaid(pkg, lease)'
  BY <1>2, <1>4, <1>8, <1>14, <1>15 DEF StoreKept, CopiesPaid
<1>18. LeasesCounted(pkg', lease', leaseCount')
  BY <1>4, <1>12, <1>13, CountedSame
<1>19. ~storeOpen' => Stock(pkg', lease') = {}
  BY <1>2, <1>4, <1>10 DEF StoreKept
<1>20. \A c \in PkgCams : Cardinality(Ring(pkg', lease', c)) <= PerCamMax
  BY <1>2, <1>4, <1>10 DEF StoreKept
<1> QED BY <1>4, <1>9, <1>11, <1>16, <1>17, <1>18, <1>19, <1>20 DEF MatInv


\* What only the leases and the copies of some calls change.
LEMMA ReleasePkgStep ==
  ASSUME MatInv, NEW p \in Pkgs, NEW late \in SUBSET Leased, ReleasePkg(p, late)
  PROVE  MatInv'
<1> DEFINE l == Overdue(late)
           counts == Recounted(late)
           c0 == pkg[p].cam
<1>1. /\ MatShape /\ WellMade(pkg, packs, lease) /\ LeasesCounted(pkg, lease, leaseCount)
      /\ CopiesPaid(pkg, lease) /\ Exact(pkg, account, Stock(pkg, lease))
      /\ account.bytes <= StoreCap /\ (~storeOpen => Stock(pkg, lease) = {})
      /\ \A c \in PkgCams : Cardinality(Ring(pkg, lease, c)) <= PerCamMax
  BY DEF MatInv
<1>2. /\ l \in [Pkgs -> LeaseStates] /\ WellMade(pkg, packs, l)
      /\ \A q \in Pkgs : l[q] = "none" <=> lease[q] = "none"
      /\ Stock(pkg, l) = Stock(pkg, lease) /\ \A c : Ring(pkg, l, c) = Ring(pkg, lease, c)
  BY <1>1, OverdueFits
<1>3. CountsOK(counts) /\ LeasesCounted(pkg, l, counts)
  BY <1>1, OverdueCounted
<1>4. /\ lease[p] \in OnLease /\ lease' = [l EXCEPT ![p] = "none"]
      /\ pkg' = [pkg EXCEPT ![p] = Dropped(@)]
      /\ leaseCount' = [counts EXCEPT ![c0][l[p]] = @ - 1]
      /\ billed' = Drained /\ dead' = 0
      /\ UNCHANGED <<packs, account, alive, storeOpen>>
  BY DEF ReleasePkg
<1> HIDE DEF l, counts
<1>5. l[p] \in {"leased", "expired"}
  BY <1>2, <1>4 DEF OnLease, LeaseStates
<1>6. pkg \in [Pkgs -> Packages] /\ pkg[p] \in Packages /\ pkg[p].st # "gone" /\ pkg[p].cur = p
      /\ c0 \in PkgCams
  BY <1>1, <1>2, <1>5 DEF WellMade, PackageFits
<1> HIDE DEF c0
<1>7. /\ Dropped(pkg[p]) \in Packages /\ Dropped(pkg[p]).cam = pkg[p].cam
      /\ Dropped(pkg[p]).era = pkg[p].era
      /\ Dropped(pkg[p]).shot = pkg[p].shot /\ Dropped(pkg[p]).cur = pkg[p].cur
      /\ Dropped(pkg[p]).st = "gone" /\ Dropped(pkg[p]).prev = 0 /\ Dropped(pkg[p]).nxt = 0
      /\ Dropped(pkg[p]).res = "none"
  BY <1>6 DEF Dropped, Packages
<1>8. \A q \in Pkgs : pkg'[q] = IF q = p THEN Dropped(pkg[p]) ELSE pkg[q]
  BY <1>4, <1>6
<1>9. SameFrames(pkg', pkg) /\ pkg' \in [Pkgs -> Packages]
  BY <1>4, <1>6, <1>7, <1>8 DEF SameFrames
<1>10. lease' \in [Pkgs -> LeaseStates] /\ \A q \in Pkgs : lease'[q] = IF q = p THEN "none" ELSE l[q]
  BY <1>2, <1>4 DEF LeaseStates
<1>11. WellMade(pkg', packs', lease')
  <2>1. ASSUME NEW q \in Pkgs PROVE PackageFits(pkg', packs, lease', q)
    <3>1. PackageFits(pkg, packs, l, q)
      BY <1>2 DEF WellMade
    <3>2. CASE q = p
      <4>1. /\ pkg'[p].st = "gone" /\ pkg'[p].prev = 0 /\ pkg'[p].nxt = 0 /\ pkg'[p].cur = p
            /\ lease'[p] = "none" /\ packs \in Nat
        BY <1>1, <1>6, <1>7, <1>8, <1>10, MaterialsAssumption DEF MatShape
      <4> QED BY <3>2, <4>1 DEF PackageFits, Linked
    <3>3. CASE q # p
      <4>1. pkg'[q] = pkg[q] /\ lease'[q] = l[q]
        BY <1>8, <1>10, <3>3
      <4>2. pkg'[q].prev \in Pkgs \cup {0} /\ pkg'[q].nxt \in Pkgs \cup {0}
        BY <1>9 DEF Packages
      <4>3. Linked(pkg', q, pkg'[q].prev, pkg'[q].shot - pkg'[pkg'[q].prev].shot)
            /\ Linked(pkg', q, pkg'[q].nxt, pkg'[pkg'[q].nxt].shot - pkg'[q].shot)
        BY <1>9, <3>1, <4>1, <4>2 DEF PackageFits, Linked, SameFrames
      <4> QED BY <3>1, <4>1, <4>3 DEF PackageFits
    <3> QED BY <3>2, <3>3
  <2> QED BY <1>4, <1>9, <2>1 DEF WellMade
<1>12. Stock(pkg', lease') = Stock(pkg, lease)
       /\ \A c : Ring(pkg', lease', c) = Ring(pkg, lease, c)
  <2>1. \A q \in Pkgs : /\ (pkg'[q].st # "gone" /\ lease'[q] = "none")
                             <=> (pkg[q].st # "gone" /\ lease[q] = "none")
                        /\ pkg'[q].cam = pkg[q].cam
    BY <1>2, <1>5, <1>7, <1>8, <1>9, <1>10 DEF SameFrames
  <2> QED BY <2>1 DEF Stock, Ring
<1>13. Exact(pkg', account', Stock(pkg', lease'))
  <2>1. \A q \in Stock(pkg, lease), s \in Views : pkg[q][s] = pkg'[q][s]
    <3>1. p \notin Stock(pkg, lease)
      BY <1>2, <1>5 DEF Stock
    <3> QED BY <1>8, <3>1 DEF Stock
  <2>2. Exact(pkg', account, Stock(pkg, lease))
    BY <1>1, <2>1, ExactSame
  <2> QED BY <1>4, <1>12, <2>2
<1>14. CountsOK(leaseCount') /\ LeasesCounted(pkg', lease', leaseCount')
  <2> DEFINE of(ls, c, st) == LeasesOf(pkg, ls, c, st)
  <2>1. \A c, st : LeasesOf(pkg', lease', c, st) = of(lease', c, st)
    BY <1>9 DEF LeasesOf, SameFrames
  <2>2. \A c, st : IsFiniteSet(of(l, c, st))
    <3>1. \A c, st : of(l, c, st) \subseteq Pkgs
      BY DEF LeasesOf
    <3> HIDE DEF of
    <3> QED BY <3>1, PkgsFinite, FS_Subset
  <2>3. \A c : \A st \in {"leased", "expired"} :
           of(lease', c, st) = IF c = c0 /\ st = l[p] THEN of(l, c, st) \ {p} ELSE of(l, c, st)
    BY <1>10 DEF LeasesOf, c0
  <2>4. p \in of(l, c0, l[p])
    BY DEF LeasesOf, c0
  <2> HIDE DEF of
  <2>5. \A c : \A st \in {"leased", "expired"} :
          /\ Cardinality(of(l, c, st)) \in Nat
          /\ Cardinality(of(lease', c, st)) = IF c = c0 /\ st = l[p]
                                             THEN Cardinality(of(l, c, st)) - 1
                                             ELSE Cardinality(of(l, c, st))
    <3>1. \A c, st : Cardinality(of(l, c, st)) \in Nat
      BY <2>2, FS_CardinalityType
    <3>2. Cardinality(of(l, c0, l[p]) \ {p}) = Cardinality(of(l, c0, l[p])) - 1
      BY <2>2, <2>4, FS_RemoveElement
    <3> QED BY <2>3, <3>1, <3>2
  <2>6. \A c \in PkgCams : /\ counts[c] \in [leased : Int, expired : Int]
                           /\ counts[c].leased = Cardinality(of(l, c, "leased"))
                           /\ counts[c].expired = Cardinality(of(l, c, "expired"))
                           /\ Cardinality(of(l, c, "leased")) + Cardinality(of(l, c, "expired"))
                                <= LeaseSlots
    BY <1>3 DEF CountsOK, LeasesCounted, of
  <2>7. counts \in [PkgCams -> [leased : Int, expired : Int]]
    BY <1>3 DEF CountsOK
  <2>8. /\ leaseCount' \in [PkgCams -> [leased : Int, expired : Int]]
        /\ \A c \in PkgCams : \A st \in {"leased", "expired"} :
             leaseCount'[c][st] = IF c = c0 /\ st = l[p] THEN counts[c][st] - 1 ELSE counts[c][st]
    <3>1. CASE l[p] = "leased"
      <4>1. leaseCount' = [counts EXCEPT ![c0].leased = @ - 1]
        BY <1>4, <3>1
      <4> QED BY <1>6, <2>7, <3>1, <4>1
    <3>2. CASE l[p] = "expired"
      <4>1. leaseCount' = [counts EXCEPT ![c0].expired = @ - 1]
        BY <1>4, <3>2
      <4> QED BY <1>6, <2>7, <3>2, <4>1
    <3> QED BY <1>5, <3>1, <3>2
  <2>9. ASSUME NEW c \in PkgCams
        PROVE  /\ leaseCount'[c].leased = Cardinality(of(lease', c, "leased"))
               /\ leaseCount'[c].expired = Cardinality(of(lease', c, "expired"))
               /\ Cardinality(of(lease', c, "leased")) + Cardinality(of(lease', c, "expired"))
                    <= LeaseSlots
    BY <1>5, <2>5, <2>6, <2>8, MaterialsAssumption
  <2> QED BY <2>1, <2>8, <2>9 DEF CountsOK, LeasesCounted, of
<1>15. Drained = Cardinality(LiveArrays) /\ Drained \in Nat /\ Drained <= LeaseCap
  BY <1>1, DrainedPaid
<1>16. LiveArrays' = LiveArrays
  BY <1>4 DEF LiveArrays
<1>17. CopiesPaid(pkg, lease)'
  <2>1. \A q \in Pkgs : alive'[q] > 0 /\ lease'[q] = "none" => pkg'[q].st = "gone"
    BY <1>1, <1>2, <1>4, <1>7, <1>8, <1>10 DEF CopiesPaid
  <2> QED BY <1>4, <1>15, <1>16, <2>1 DEF CopiesPaid
<1>18. MatShape'
  BY <1>1, <1>4, <1>10, <1>14, <1>15 DEF MatShape
<1> QED BY <1>1, <1>4, <1>11, <1>12, <1>13, <1>14, <1>17, <1>18 DEF MatInv

\* A closed store drops what was not taken.
LEMMA CloseStoreStep ==
  ASSUME MatInv, NEW late \in SUBSET Leased, CloseStore(late)
  PROVE  MatInv'
<1> DEFINE l == Overdue(late)
           out == Stock(pkg, lease)
<1>1. /\ MatShape /\ WellMade(pkg, packs, lease) /\ LeasesCounted(pkg, lease, leaseCount)
      /\ CopiesPaid(pkg, lease) /\ Exact(pkg, account, out)
      /\ account.bytes <= StoreCap /\ packs \in Nat
  BY MaterialsAssumption DEF MatInv, MatShape
<1>2. /\ pkg' = Cleared(pkg, out) /\ account' = Unref(pkg, account, out)
      /\ lease' = l /\ leaseCount' = Recounted(late) /\ billed' = Drained /\ dead' = 0
      /\ storeOpen' = FALSE /\ UNCHANGED <<packs, alive>>
  BY StockIsHeld DEF CloseStore
<1>3. /\ WellMade(pkg', packs, lease) /\ Stock(pkg', lease) = {} /\ SameFrames(pkg', pkg)
      /\ \A q \in Pkgs \ out : pkg'[q] = pkg[q]
      /\ \A c \in PkgCams : Ring(pkg', lease, c) = Ring(pkg, lease, c) \ out
  <2> HIDE DEF out
  <2>1. out \in SUBSET Stock(pkg, lease)
    BY DEF out
  <2> QED BY <1>1, <1>2, <2>1, DroppedFits DEF out
<1>4. /\ l \in [Pkgs -> LeaseStates] /\ WellMade(pkg', packs, l)
      /\ \A p \in Pkgs : l[p] = "none" <=> lease[p] = "none"
      /\ Stock(pkg', l) = Stock(pkg', lease) /\ \A c : Ring(pkg', l, c) = Ring(pkg', lease, c)
  BY <1>1, <1>3, OverdueFits
<1>5. CountsOK(Recounted(late)) /\ LeasesCounted(pkg, l, Recounted(late))
  BY <1>1, OverdueCounted
<1>6. LeasesCounted(pkg', l, Recounted(late))
  BY <1>3, <1>5, CountedSame
<1> HIDE DEF l
<1>7. Exact(pkg', account', {}) /\ account'.bytes <= account.bytes
  <2>1. out \in SUBSET Pkgs /\ out \ out = {}
    BY DEF Stock
  <2> HIDE DEF out
  <2>2. Exact(pkg, account', {}) /\ account'.bytes <= account.bytes
    BY <1>1, <1>2, <2>1, UnrefExact
  <2>3. \A q \in {}, s \in Views : pkg[q][s] = pkg'[q][s]
    OBVIOUS
  <2> QED BY <2>2, <2>3, ExactSame
<1>8. account'.bytes <= StoreCap
  BY <1>1, <1>7, MaterialsAssumption DEF Exact, PkgAccounts
<1>9. \A c \in PkgCams : Cardinality(Ring(pkg', l, c)) <= PerCamMax
  <2>1. \A c \in PkgCams : Ring(pkg', l, c) = {}
    BY <1>3, <1>4 DEF Ring, Stock
  <2> QED BY <2>1, FS_EmptySet, MaterialsAssumption
<1>10. Drained = Cardinality(LiveArrays) /\ Drained \in Nat /\ Drained <= LeaseCap
  BY <1>1, DrainedPaid
<1>11. LiveArrays' = LiveArrays
  BY <1>2 DEF LiveArrays
<1>12. \A q \in Pkgs : alive[q] > 0 /\ l[q] = "none" => pkg'[q].st = "gone"
  BY <1>1, <1>3, <1>4 DEF CopiesPaid, Stock
<1>13. CopiesPaid(pkg, lease)'
  BY <1>2, <1>10, <1>11, <1>12 DEF CopiesPaid
<1>14. MatShape'
  <2>1. lease' \in [Pkgs -> LeaseStates] /\ CountsOK(leaseCount') /\ billed' \in Int /\ dead' \in Nat
    BY <1>2, <1>4, <1>5, <1>10
  <2>2. /\ packs' \in 0..MaxPkgs /\ alive' \in [Pkgs -> 0..3]
        /\ \A p \in Pkgs : alive'[p] > 0 => p <= packs'
    BY <1>1, <1>2 DEF MatShape
  <2>3. storeOpen' \in BOOLEAN
    BY <1>2
  <2> QED BY <2>1, <2>2, <2>3 DEF MatShape
<1> QED BY <1>2, <1>3, <1>4, <1>6, <1>7, <1>8, <1>9, <1>13, <1>14 DEF MatInv


\* A lease begins: of a package that had none, for a camera that had one left.
LEMMA LeaseBegun ==
  ASSUME NEW m, NEW l, NEW counts, NEW c \in PkgCams, NEW p \in Pkgs,
         l \in [Pkgs -> LeaseStates], CountsOK(counts), LeasesCounted(m, l, counts),
         m[p].cam = c, l[p] = "none",
         Cardinality({q \in Pkgs : m[q].cam = c /\ l[q] \in OnLease}) < LeaseSlots
  PROVE  LET after == [counts EXCEPT ![c].leased = @ + 1]
         IN  CountsOK(after) /\ LeasesCounted(m, [l EXCEPT ![p] = "leased"], after)
<1> DEFINE after == [counts EXCEPT ![c].leased = @ + 1]
           l2 == [l EXCEPT ![p] = "leased"]
           of(ls, d, st) == LeasesOf(m, ls, d, st)
<1>1. counts \in [PkgCams -> [leased : Int, expired : Int]]
  BY DEF CountsOK
<1>2. /\ after \in [PkgCams -> [leased : Int, expired : Int]]
      /\ \A d \in PkgCams : /\ after[d].leased = IF d = c THEN counts[d].leased + 1
                                                ELSE counts[d].leased
                           /\ after[d].expired = counts[d].expired
  BY <1>1
<1>3. \A q \in Pkgs : l2[q] = IF q = p THEN "leased" ELSE l[q]
  OBVIOUS
<1> HIDE DEF after, l2
<1>4. \A d : /\ of(l2, d, "leased") = IF d = c THEN of(l, d, "leased") \cup {p}
                                      ELSE of(l, d, "leased")
             /\ of(l2, d, "expired") = of(l, d, "expired")
  BY <1>3 DEF LeasesOf
<1>5. p \notin of(l, c, "leased")
  BY DEF LeasesOf
<1>6. \A d, st : of(l, d, st) \subseteq Pkgs
  BY DEF LeasesOf
<1>7. of(l, c, "leased") \cap of(l, c, "expired") = {}
      /\ of(l, c, "leased") \cup of(l, c, "expired")
         = {q \in Pkgs : m[q].cam = c /\ l[q] \in OnLease}
  BY DEF LeasesOf, OnLease
<1>8. \A d \in PkgCams : /\ counts[d].leased = Cardinality(of(l, d, "leased"))
                         /\ counts[d].expired = Cardinality(of(l, d, "expired"))
                         /\ Cardinality(of(l, d, "leased")) + Cardinality(of(l, d, "expired"))
                              <= LeaseSlots
  BY DEF LeasesCounted
<1> HIDE DEF of
<1>9. \A d, st : IsFiniteSet(of(l, d, st)) /\ Cardinality(of(l, d, st)) \in Nat
  BY <1>6, PkgsFinite, FS_Subset, FS_CardinalityType
<1>10. Cardinality(of(l, c, "leased") \cup {p}) = Cardinality(of(l, c, "leased")) + 1
  BY <1>5, <1>9, FS_AddElement
<1>11. Cardinality(of(l, c, "leased") \cup of(l, c, "expired"))
         = Cardinality(of(l, c, "leased")) + Cardinality(of(l, c, "expired"))
  <2> DEFINE A == of(l, c, "leased")
             B == of(l, c, "expired")
  <2>1. IsFiniteSet(A) /\ IsFiniteSet(B) /\ Cardinality(A) \in Nat /\ Cardinality(B) \in Nat
        /\ A \cap B = {}
    BY <1>7, <1>9
  <2> HIDE DEF A, B
  <2>2. Cardinality(A \cup B) = Cardinality(A) + Cardinality(B) - Cardinality(A \cap B)
    BY <2>1, FS_Union
  <2>3. Cardinality(A \cap B) = 0
    BY <2>1, FS_EmptySet
  <2>4. Cardinality(A \cup B) = Cardinality(A) + Cardinality(B)
    BY <2>1, <2>2, <2>3
  <2> QED BY <2>4 DEF A, B
<1>12. Cardinality(of(l, c, "leased")) + Cardinality(of(l, c, "expired")) < LeaseSlots
  BY <1>7, <1>11
<1>13. ASSUME NEW d \in PkgCams
       PROVE  /\ after[d].leased = Cardinality(of(l2, d, "leased"))
              /\ after[d].expired = Cardinality(of(l2, d, "expired"))
              /\ Cardinality(of(l2, d, "leased")) + Cardinality(of(l2, d, "expired"))
                   <= LeaseSlots
  <2>1. CASE d = c
    <3>1. /\ Cardinality(of(l2, c, "leased")) = Cardinality(of(l, c, "leased")) + 1
          /\ Cardinality(of(l2, c, "expired")) = Cardinality(of(l, c, "expired"))
      BY <1>4, <1>10
    <3> QED BY <1>2, <1>8, <1>9, <1>12, <2>1, <3>1, MaterialsAssumption
  <2>2. CASE d # c
    BY <1>2, <1>4, <1>8, <2>2
  <2> QED BY <2>1, <2>2
<1> QED BY <1>2, <1>13 DEF CountsOK, LeasesCounted, of, after, l2

LEMMA TakeStep ==
  ASSUME MatInv, NEW c \in PkgCams, NEW x, NEW t, NEW late \in SUBSET Leased, Take(c, x, t, late)
  PROVE  MatInv'
<1> DEFINE m == Swept(x, t)
           b == SweptAccount(x)
           l == Overdue(late)
           counts == Recounted(late)
           n(p) == Cardinality({s \in Views : m[p][s] # 0})
<1>1. /\ StoreKept(m, b, l, counts) /\ MatShape /\ CopiesPaid(pkg, lease)
      /\ \A q \in Pkgs : l[q] = "none" <=> lease[q] = "none"
      /\ \A q \in Pkgs : l[q] \in OnLease <=> lease[q] \in OnLease
  <2>1. MatShape /\ CopiesPaid(pkg, lease)
    BY DEF MatInv
  <2>2. \A q \in Pkgs : (l[q] = "none" <=> lease[q] = "none")
                        /\ (l[q] \in OnLease <=> lease[q] \in OnLease)
    BY <2>1 DEF Overdue, MatShape, Leased, LeaseStates, OnLease
  <2>3. StoreKept(m, b, l, counts)
    BY SweptKept
  <2> QED BY <2>1, <2>2, <2>3
<1>2. PICK p \in HeldBy(m, c) :
        /\ m[p].st \in {"consumable", "fallback"}
        /\ Cardinality({q \in Pkgs : pkg[q].cam = c /\ lease[q] \in OnLease}) < LeaseSlots
        /\ Drained + n(p) <= LeaseCap
        /\ pkg' = m
        /\ account' = Unref(m, b, {p})
        /\ lease' = [l EXCEPT ![p] = "leased"]
        /\ leaseCount' = [counts EXCEPT ![c].leased = @ + 1]
        /\ alive' = [alive EXCEPT ![p] = n(p)]
        /\ billed' = Drained + n(p) /\ dead' = 0
        /\ UNCHANGED <<packs, storeOpen>>
  BY DEF Take
<1> HIDE DEF m, b, l, counts
<1>3. p \in Pkgs /\ m[p].cam = c /\ l[p] = "none" /\ p \in Stock(m, l)
  <2>1. p \in Pkgs /\ m[p].cam = c /\ lease[p] = "none" /\ m[p].st # "gone"
    BY <1>2 DEF HeldBy
  <2>2. l[p] = "none"
    BY <1>1, <2>1
  <2> QED BY <2>1, <2>2 DEF Stock
<1>4. alive[p] = 0 /\ alive \in [Pkgs -> 0..3]
  BY <1>1, <1>2, <1>3 DEF StoreKept, MatShape
<1>5. n(p) \in 0..3
  <2> DEFINE S == {s \in Views : m[p][s] # 0}
  <2>1. S \subseteq Views
    OBVIOUS
  <2> HIDE DEF S
  <2>2. Cardinality(S) <= Cardinality(Views) /\ IsFiniteSet(S)
    BY <2>1, ViewsFinite, FS_Subset
  <2>3. Cardinality(S) \in Nat
    BY <2>2, FS_CardinalityType
  <2>4. Cardinality(S) \in 0..3
    BY <2>2, <2>3, ViewsFinite
  <2> QED BY <2>4 DEF S
<1> HIDE DEF n
<1>6. Drained = Cardinality(LiveArrays) /\ Drained \in Nat /\ Drained <= LeaseCap
      /\ IsFiniteSet(LiveArrays)
  BY <1>1, DrainedPaid
<1>7. LiveArrays' = LiveArrays \cup ({p} \X (1..n(p))) /\ LiveArrays \cap ({p} \X (1..n(p))) = {}
  <2>1. \A q \in Pkgs : alive'[q] = IF q = p THEN n(p) ELSE alive[q]
    BY <1>2, <1>4
  <2>2. \A q \in Pkgs, i \in 1..3 : i <= alive'[q] <=> (i <= alive[q] \/ (q = p /\ i \in 1..n(p)))
    BY <1>4, <1>5, <2>1
  <2>3. \A i : i \in 1..n(p) => i \in 1..3 /\ ~(i <= alive[p])
    BY <1>4, <1>5
  <2>4. alive' \in [Pkgs -> 0..3]
    BY <1>2, <1>4, <1>5
  <2>5. /\ LiveArrays = {y \in Pkgs \X (1..3) : y[2] <= alive[y[1]]}
        /\ LiveArrays' = {y \in Pkgs \X (1..3) : y[2] <= alive'[y[1]]}
    BY <1>4, <2>4, LiveThose DEF LiveArrays
  <2> QED BY <1>3, <2>2, <2>3, <2>5
<1>8. IsFiniteSet({p} \X (1..n(p))) /\ Cardinality({p} \X (1..n(p))) = n(p)
  <2>1. IsFiniteSet({p}) /\ Cardinality({p}) = 1
    BY FS_Singleton
  <2>2. \A a, d \in Int : /\ IsFiniteSet(a..d)
                         /\ Cardinality(a..d) = IF a > d THEN 0 ELSE d - a + 1
    BY FS_Interval
  <2>3. 1 \in Int /\ n(p) \in Int
    BY <1>5
  <2>4. IsFiniteSet(1..n(p))
    BY <2>2, <2>3, Zenon
  <2>5. Cardinality(1..n(p)) = IF 1 > n(p) THEN 0 ELSE n(p) - 1 + 1
    BY <2>2, <2>3, Zenon
  <2>6. Cardinality(1..n(p)) = n(p)
    BY <1>5, <2>5
  <2>7. /\ IsFiniteSet({p} \X (1..n(p)))
        /\ Cardinality({p} \X (1..n(p))) = Cardinality({p}) * Cardinality(1..n(p))
    BY <2>1, <2>4, FS_Product
  <2> QED BY <1>5, <2>1, <2>6, <2>7
<1>9. Cardinality(LiveArrays') = Cardinality(LiveArrays) + n(p)
  <2> DEFINE B == {p} \X (1..n(p))
  <2>1. IsFiniteSet(LiveArrays) /\ IsFiniteSet(B) /\ LiveArrays \cap B = {} /\ Cardinality(B) = n(p)
    BY <1>6, <1>7, <1>8
  <2>2. LiveArrays' = LiveArrays \cup B
    BY <1>7
  <2> HIDE DEF B
  <2>3. Cardinality(LiveArrays \cup B)
          = Cardinality(LiveArrays) + Cardinality(B) - Cardinality(LiveArrays \cap B)
    BY <2>1, FS_Union
  <2>4. Cardinality(LiveArrays \cap B) = 0 /\ Cardinality(LiveArrays) \in Nat
    BY <2>1, FS_EmptySet, FS_CardinalityType
  <2> QED BY <1>5, <2>1, <2>2, <2>3, <2>4
<1>10. /\ WellMade(m, packs, l) /\ l \in [Pkgs -> LeaseStates] /\ CountsOK(counts)
       /\ Exact(m, b, Stock(m, l)) /\ b.bytes <= StoreCap
       /\ (~storeOpen => Stock(m, l) = {}) /\ LeasesCounted(m, l, counts) /\ SameFrames(m, pkg)
       /\ \A d \in PkgCams : Cardinality(Ring(m, l, d)) <= PerCamMax
       /\ \A q \in Pkgs : alive[q] > 0 /\ l[q] = "none" => m[q].st = "gone"
  BY <1>1 DEF StoreKept
<1>11. lease' \in [Pkgs -> LeaseStates] /\ \A q \in Pkgs : lease'[q] = IF q = p THEN "leased" ELSE l[q]
  BY <1>2, <1>3, <1>10 DEF LeaseStates
<1>12. WellMade(m, packs, lease')
  BY <1>2, <1>10, <1>11 DEF WellMade, PackageFits
<1>13. Stock(m, lease') = Stock(m, l) \ {p} /\ \A d : Ring(m, lease', d) \subseteq Ring(m, l, d)
  BY <1>11 DEF Stock, Ring
<1>14. Exact(m, account', Stock(m, lease')) /\ account'.bytes <= b.bytes
  <2>1. Stock(m, l) \in SUBSET Pkgs /\ {p} \in SUBSET Stock(m, l)
    BY <1>3 DEF Stock
  <2>2. Exact(m, b, Stock(m, l))
    BY <1>10
  <2>3. /\ Exact(m, Unref(m, b, {p}), Stock(m, l) \ {p})
        /\ Unref(m, b, {p}).bytes <= b.bytes
    BY <2>1, <2>2, UnrefExact
  <2> QED BY <1>2, <1>13, <2>3
<1>15. account'.bytes <= StoreCap
  BY <1>10, <1>14, MaterialsAssumption DEF Exact, PkgAccounts
<1>16. \A d \in PkgCams : Cardinality(Ring(m, lease', d)) <= PerCamMax
  BY <1>10, <1>13, RingFits
<1>17. CountsOK(leaseCount') /\ LeasesCounted(m, lease', leaseCount')
  <2>1. {q \in Pkgs : m[q].cam = c /\ l[q] \in OnLease}
        = {q \in Pkgs : pkg[q].cam = c /\ lease[q] \in OnLease}
    <3>1. \A q \in Pkgs : m[q].cam = pkg[q].cam
      BY <1>10 DEF SameFrames
    <3> QED BY <1>1, <3>1
  <2>2. Cardinality({q \in Pkgs : m[q].cam = c /\ l[q] \in OnLease}) < LeaseSlots
    BY <1>2, <2>1
  <2> QED BY <1>2, <1>3, <1>10, <2>2, LeaseBegun
<1>18. MatShape'
  <2>1. alive' \in [Pkgs -> 0..3] /\ \A q \in Pkgs : alive'[q] > 0 => q <= packs'
    <3>1. alive' \in [Pkgs -> 0..3] /\ \A q \in Pkgs : q # p => alive'[q] = alive[q]
      BY <1>2, <1>4, <1>5
    <3>2. p <= packs
      BY <1>2, <1>3, <1>10 DEF WellMade, PackageFits
    <3> QED BY <1>1, <1>2, <3>1, <3>2 DEF MatShape
  <2>2. packs' \in 0..MaxPkgs /\ storeOpen' \in BOOLEAN
    BY <1>1, <1>2 DEF MatShape
  <2>3. billed' \in Int /\ dead' \in Nat
    BY <1>2, <1>5, <1>6
  <2> QED BY <1>11, <1>17, <2>1, <2>2, <2>3 DEF MatShape
<1>19. CopiesPaid(pkg, lease)'
  <2>1. billed' = Cardinality(LiveArrays') + dead' /\ billed' <= LeaseCap
    BY <1>2, <1>5, <1>6, <1>9
  <2>2. \A q \in Pkgs : alive'[q] > 0 /\ lease'[q] = "none" => pkg'[q].st = "gone"
    <3>1. \A q \in Pkgs : q # p => alive'[q] = alive[q]
      BY <1>2, <1>4
    <3> QED BY <1>2, <1>10, <1>11, <3>1
  <2> QED BY <2>1, <2>2 DEF CopiesPaid
<1>20. ~storeOpen' => Stock(m, lease') = {}
  BY <1>2, <1>10, <1>13
<1> QED BY <1>2, <1>12, <1>14, <1>15, <1>16, <1>17, <1>18, <1>19, <1>20 DEF MatInv


\* Making room leaves a place in the ring and in the store.
LEMMA EvictedFits ==
  ASSUME NEW m, NEW b, NEW c \in PkgCams, packs \in Nat, WellMade(m, packs, lease),
         Exact(m, b, Stock(m, lease)), Cardinality(Ring(m, lease, c)) <= PerCamMax
  PROVE  LET out == Evicted(m, b, c)
         IN  /\ out \subseteq Stock(m, lease) /\ Unref(m, b, out).bytes + 1 <= StoreCap
             /\ Cardinality(Ring(m, lease, c) \ out) + 1 <= PerCamMax
<1> DEFINE first == Local(m, c)
           upto(n) == first \cup {p \in Held(m) : p <= n}
           enough == {n \in 0..packs : Unref(m, b, upto(n)).bytes + 1 <= StoreCap}
           least == CHOOSE n \in enough : \A k \in enough : n <= k
           R == Ring(m, lease, c)
           out == Evicted(m, b, c)
<1>1. out = upto(least)
  BY DEF Evicted
<1>2. /\ Held(m) = Stock(m, lease) /\ HeldBy(m, c) = R /\ R \subseteq Stock(m, lease)
      /\ R \subseteq Pkgs /\ IsFiniteSet(R) /\ Stock(m, lease) \subseteq Pkgs
  <2>1. R \subseteq Pkgs /\ R \subseteq Stock(m, lease) /\ Stock(m, lease) \subseteq Pkgs
    BY DEF Ring, Stock
  <2> HIDE DEF R
  <2> QED BY <2>1, StockIsHeld, PkgsFinite, FS_Subset DEF R
<1>3. first \subseteq R
  BY <1>2 DEF Local
<1>4. \A n : upto(n) \subseteq Stock(m, lease)
  BY <1>2, <1>3
<1>5. upto(packs) = Stock(m, lease)
  <2>1. \A p \in Stock(m, lease) : p <= packs
    BY DEF Stock, WellMade, PackageFits
  <2> QED BY <1>2, <1>3, <2>1
<1> HIDE DEF out, upto, first, R
<1>6. packs \in enough
  <2> DEFINE u == Unref(m, b, Stock(m, lease))
  <2>1. Exact(m, u, Stock(m, lease) \ Stock(m, lease))
    BY <1>2, UnrefExact
  <2>2. Stock(m, lease) \ Stock(m, lease) = {}
    OBVIOUS
  <2> HIDE DEF u
  <2>3. Exact(m, u, {})
    BY <2>1, <2>2
  <2>4. \A f \in Pkgs : Shown(m, {}, f) = 0
    BY ShownNone
  <2>5. {f \in Pkgs : u.refs[f] > 0} = {}
    BY <2>3, <2>4 DEF Exact
  <2>6. u.bytes = 0
    BY <2>3, <2>5, FS_EmptySet DEF Exact
  <2> QED BY <1>5, <2>6, MaterialsAssumption DEF u
<1>7. least \in enough
  <2>1. enough \in SUBSET Nat /\ enough # {}
    BY <1>6
  <2> HIDE DEF enough
  <2>2. \E n \in enough : \A k \in enough : n <= k
    BY <2>1, LeastNumber
  <2> QED BY <2>2
<1> HIDE DEF least
<1>8. Unref(m, b, out).bytes + 1 <= StoreCap
  BY <1>1, <1>7
<1>9. first \subseteq out
  BY <1>1 DEF upto
<1>10. Cardinality(R \ out) + 1 <= PerCamMax
  <2>1. R \ out \subseteq R \ first
    BY <1>9
  <2>2. IsFiniteSet(R \ first) /\ IsFiniteSet(R \ out)
    BY <1>2, FS_Subset
  <2>3. Cardinality(R \ out) <= Cardinality(R \ first)
        /\ Cardinality(R \ out) \in Nat /\ Cardinality(R \ first) \in Nat
        /\ Cardinality(R) \in Nat
    BY <1>2, <2>1, <2>2, FS_Subset, FS_CardinalityType
  <2>4. CASE Cardinality(R) < PerCamMax
    <3>1. R \ first \subseteq R
      OBVIOUS
    <3>2. Cardinality(R \ first) <= Cardinality(R)
      BY <1>2, <3>1, FS_Subset
    <3> QED BY <2>3, <2>4, <3>2, MaterialsAssumption
  <2>5. CASE ~(Cardinality(R) < PerCamMax)
    <3>1. Cardinality(R) = PerCamMax
      BY <2>3, <2>5, MaterialsAssumption DEF R
    <3>2. R # {}
      BY <3>1, FS_EmptySet, MaterialsAssumption
    <3>3. PICK p \in R : \A q \in R : p <= q
      <4>1. R \in SUBSET Nat
        BY <1>2, PkgsFinite
      <4> QED BY <3>2, <4>1, LeastNumber
    <3>4. p \in first
      <4>1. first = {q \in R : \A r \in R : q <= r}
        BY <1>2, <2>5 DEF Local, first
      <4> QED BY <3>3, <4>1
    <3>5. R \ first \subseteq R \ {p} /\ IsFiniteSet(R \ {p})
      BY <1>2, <3>4, FS_Subset
    <3>6. Cardinality(R \ {p}) = Cardinality(R) - 1
      BY <1>2, <3>3, FS_RemoveElement
    <3>7. Cardinality(R \ first) <= Cardinality(R \ {p})
      BY <3>5, FS_Subset
    <3> QED BY <2>3, <3>1, <3>6, <3>7, MaterialsAssumption
  <2> QED BY <2>4, <2>5
<1> QED BY <1>1, <1>4, <1>8, <1>10 DEF out, R


\* The package made of a capture, and what it makes of its neighbour.
LEMMA AddedFits ==
  ASSUME NEW m, NEW b, NEW k \in Captures, MatShape, packs < MaxPkgs,
         WellMade(m, packs, lease), Exact(m, b, Stock(m, lease))
  PROVE  LET new == packs + 1
             P == Added(m, b, k).pkgs
             A == Added(m, b, k).account
         IN  /\ new \in Pkgs /\ new \notin Stock(m, lease) /\ lease[new] = "none"
             /\ WellMade(P, new, lease) /\ Stock(P, lease) = Stock(m, lease) \cup {new}
             /\ Exact(P, A, Stock(P, lease)) /\ A.bytes = b.bytes + 1
             /\ \A p \in Pkgs : p # new => P[p].cam = m[p].cam /\ P[p].st = m[p].st
             /\ \A c \in PkgCams : Ring(P, lease, c) = IF c = k.cam
                                                      THEN Ring(m, lease, c) \cup {new}
                                                      ELSE Ring(m, lease, c)
<1> DEFINE new == packs + 1
           ring == HeldBy(m, k.cam)
           last == {q \in ring : (\A p \in ring : p <= q) /\ Near(m, q, k)}
           back == {q \in last : m[q].nxt = 0}
           pv == IF last = {} THEN 0 ELSE CHOOSE q \in last : TRUE
           S == Stock(m, lease)
           P == Added(m, b, k).pkgs
           A == Added(m, b, k).account
<1>1. /\ P = [p \in Pkgs |->
               IF p = new
               THEN [cam |-> k.cam, era |-> k.era, shot |-> k.shot, cur |-> new, nxt |-> 0,
                     prev |-> pv, st |-> "waiting", why |-> "none", res |-> "none"]
               ELSE IF p \in back THEN [m[p] EXCEPT !.nxt = new]
               ELSE m[p]]
      /\ A.refs = [f \in Pkgs |-> IF f = new THEN 1 + Cardinality(back)
                                  ELSE IF f \in last THEN b.refs[f] + 1
                                  ELSE b.refs[f]]
      /\ A.bytes = b.bytes + 1 /\ A = [refs |-> A.refs, bytes |-> A.bytes]
  BY DEF Added
<1>2. /\ packs \in Nat /\ new \in Pkgs /\ new \in Nat \ {0} /\ Pkgs \subseteq Nat \ {0}
      /\ k.cam \in PkgCams /\ k.era \in Nat /\ k.shot \in Nat /\ NearGap \in Nat
  BY MaterialsAssumption DEF MatShape, Pkgs
<1>3. m \in [Pkgs -> Packages] /\ \A p \in Pkgs : m[p] \in Packages /\ PackageFits(m, packs, lease, p)
  BY DEF WellMade
<1>4. m[new].st = "gone" /\ lease[new] = "none" /\ new \notin S
  <2>1. m[new].st = "gone"
    BY <1>2, <1>3 DEF PackageFits
  <2> QED BY <1>2, <1>3, <2>1 DEF PackageFits, MatShape, LeaseStates, Stock
<1>5. /\ \A q \in last : /\ q \in S /\ q \in Pkgs /\ q # new /\ m[q].cam = k.cam
                         /\ Near(m, q, k) /\ m[q].st # "gone" /\ lease[q] = "none"
      /\ \A q, r \in last : q = r
  <2>1. ring \subseteq S /\ ring \subseteq Pkgs
        /\ \A q \in ring : m[q].cam = k.cam /\ m[q].st # "gone" /\ lease[q] = "none"
    BY DEF HeldBy, Stock
  <2>2. \A q \in last : q \in ring /\ (\A p \in ring : p <= q) /\ Near(m, q, k)
    OBVIOUS
  <2> HIDE DEF ring, last, S
  <2>3. \A q \in last : /\ q \in S /\ q \in Pkgs /\ m[q].cam = k.cam
                       /\ Near(m, q, k) /\ m[q].st # "gone" /\ lease[q] = "none"
    BY <2>1, <2>2
  <2>4. \A q \in last : q # new
    BY <1>4, <2>3
  <2>5. \A q, r \in last : q <= r /\ r <= q /\ q \in Nat /\ r \in Nat
    BY <1>2, <2>2, <2>3
  <2>6. \A q, r \in last : q = r
    BY <2>5
  <2> QED BY <2>3, <2>4, <2>6
<1> HIDE DEF P, A
<1>6. /\ pv \in {0} \cup last /\ (last # {} => pv \in last) /\ back \subseteq last
      /\ \A q \in last : q = pv
      /\ \A q \in back : m[q].nxt = 0
      /\ \A q \in last : m[q].nxt = 0 => q \in back
  <2> HIDE DEF ring
  <2>1. back \subseteq last /\ \A q \in last : q \in back <=> m[q].nxt = 0
    OBVIOUS
  <2>2. last # {} => pv \in last
    <3> HIDE DEF last
    <3> QED OBVIOUS
  <2>3. last = {} => pv = 0
    OBVIOUS
  <2> HIDE DEF last, pv, back
  <2> QED BY <1>5, <2>1, <2>2, <2>3
<1> HIDE DEF ring, last, back, pv
<1>7. P[new] = [cam |-> k.cam, era |-> k.era, shot |-> k.shot, cur |-> new, nxt |-> 0,
                prev |-> pv, st |-> "waiting", why |-> "none", res |-> "none"]
  BY <1>1, <1>2
<1>8. \A p \in Pkgs : p # new => P[p] = IF p \in back THEN [m[p] EXCEPT !.nxt = new] ELSE m[p]
  BY <1>1
<1>9. \A p \in Pkgs : p # new =>
        /\ P[p] \in Packages /\ P[p].cam = m[p].cam /\ P[p].era = m[p].era
        /\ P[p].shot = m[p].shot
        /\ P[p].cur = m[p].cur /\ P[p].prev = m[p].prev /\ P[p].st = m[p].st
        /\ P[p].res = m[p].res /\ P[p].nxt = IF p \in back THEN new ELSE m[p].nxt
  <2> TAKE p \in Pkgs
  <2> HAVE p # new
  <2>1. CASE p \in back
    <3>1. P[p] = [m[p] EXCEPT !.nxt = new] /\ m[p] \in Packages /\ new \in Pkgs
      BY <1>2, <1>3, <1>8, <2>1
    <3> HIDE DEF new
    <3> QED BY <2>1, <3>1 DEF Packages
  <2>2. CASE p \notin back
    BY <1>3, <1>8, <2>2
  <2> QED BY <2>1, <2>2
<1>10. P[new] \in Packages
  BY <1>2, <1>5, <1>6, <1>7 DEF Packages
<1>11. P \in [Pkgs -> Packages]
  <2>1. P = [p \in Pkgs |-> P[p]]
    BY <1>1
  <2> QED BY <1>9, <1>10, <2>1
<1>12. \A p \in Pkgs : m[p].prev # new /\ m[p].nxt # new
                      /\ m[p].prev \in Pkgs \cup {0} /\ m[p].nxt \in Pkgs \cup {0}
  BY <1>2, <1>3 DEF PackageFits, Packages
<1>13. ASSUME NEW p \in Pkgs PROVE PackageFits(P, new, lease, p)
  <2>1. CASE p = new
    <3>1. Linked(P, new, pv, k.shot - P[pv].shot)
      <4>1. ASSUME pv # 0
            PROVE  P[pv].cam = k.cam /\ P[pv].era = k.era /\ P[pv].shot = m[pv].shot
                   /\ 0 < k.shot - m[pv].shot /\ k.shot - m[pv].shot <= NearGap
        BY <1>5, <1>6, <1>9, <4>1 DEF Near
      <4> QED BY <1>7, <4>1 DEF Linked
    <3>2. pv <= new /\ pv \in Nat
      BY <1>2, <1>3, <1>5, <1>6 DEF PackageFits
    <3> QED BY <1>2, <1>4, <1>7, <2>1, <3>1, <3>2 DEF PackageFits, Linked
  <2>2. CASE p # new
    <3>1. PackageFits(m, packs, lease, p)
      BY <1>3
    <3>2. Linked(P, p, P[p].prev, P[p].shot - P[P[p].prev].shot)
      BY <1>9, <1>12, <2>2, <3>1 DEF PackageFits, Linked
    <3>3. Linked(P, p, P[p].nxt, P[P[p].nxt].shot - P[p].shot)
      <4>1. CASE p \in back
        <5>1. m[p].cam = k.cam /\ m[p].era = k.era /\ P[p].nxt = new
              /\ 0 < k.shot - m[p].shot /\ k.shot - m[p].shot <= NearGap
          BY <1>5, <1>6, <1>9, <2>2, <4>1 DEF Near
        <5> QED BY <1>7, <1>9, <2>2, <5>1 DEF Linked
      <4>2. CASE p \notin back
        <5>1. P[p].nxt = m[p].nxt
          BY <1>9, <2>2, <4>2
        <5> QED BY <1>9, <1>12, <2>2, <3>1, <5>1 DEF PackageFits, Linked
      <4> QED BY <4>1, <4>2
    <3>4. m[p].prev <= new /\ m[p].nxt <= new /\ P[p].nxt <= new /\ (p <= packs => p <= new)
      <4>1. m[p].prev \in Nat /\ m[p].nxt \in Nat /\ p \in Nat
            /\ m[p].prev <= packs /\ m[p].nxt <= packs
        <5>1. m[p].prev \in Nat /\ m[p].nxt \in Nat /\ p \in Nat
          <6>1. \A q \in Pkgs \cup {0} : q \in Nat
            BY PkgsFinite
          <6>2. m[p].prev \in Pkgs \cup {0} /\ m[p].nxt \in Pkgs \cup {0} /\ p \in Pkgs \cup {0}
            BY <1>12
          <6> QED BY <6>1, <6>2, Zenon
        <5> QED BY <3>1, <5>1 DEF PackageFits
      <4>2. P[p].nxt = new \/ P[p].nxt = m[p].nxt
        BY <1>9, <2>2
      <4> QED BY <1>2, <4>1, <4>2
    <3>5. P[p].st = "gone" => P[p].nxt = 0
      BY <1>5, <1>6, <1>9, <2>2, <3>1 DEF PackageFits
    <3> QED BY <1>9, <2>2, <3>1, <3>2, <3>3, <3>4, <3>5 DEF PackageFits
  <2> QED BY <2>1, <2>2
<1>14. WellMade(P, new, lease)
  BY <1>11, <1>13 DEF WellMade
<1>15. Stock(P, lease) = S \cup {new}
       /\ \A c \in PkgCams : Ring(P, lease, c) = IF c = k.cam THEN Ring(m, lease, c) \cup {new}
                                                ELSE Ring(m, lease, c)
  <2>1. P[new].st = "waiting" /\ P[new].cam = k.cam
    BY <1>7
  <2>2. \A p \in Pkgs : p # new => P[p].cam = m[p].cam /\ P[p].st = m[p].st
    BY <1>9
  <2> QED BY <1>2, <1>4, <2>1, <2>2 DEF Stock, Ring
\* Who shows what after the package was made.
<1>16. Shown(P, {new}, new) = 1
  <2>1. ShownAt(P, {new}, new) = {<<new, "cur">>}
    <3>1. P[new].cur = new /\ P[new].prev # new /\ P[new].nxt # new
      BY <1>2, <1>5, <1>6, <1>7
    <3> QED BY <3>1 DEF ShownAt, Views
  <2> QED BY <2>1, FS_Singleton DEF Shown
<1>17. Shown(P, S, new) = Cardinality(back) /\ Shown(m, S, new) = 0 /\ IsFiniteSet(back)
  <2>1. \A q \in S : q \in Pkgs /\ q # new /\ m[q].cur # new
    BY <1>3, <1>4 DEF Stock, PackageFits
  <2>2. back \subseteq S
    BY <1>5, <1>6
  <2>3. \A q \in S, s \in Views : P[q][s] = new <=> (q \in back /\ s = "nxt")
    BY <1>9, <1>12, <2>1 DEF Views
  <2>4. ShownAt(P, S, new) = back \X {"nxt"}
    BY <2>2, <2>3 DEF ShownAt, Views
  <2>5. IsFiniteSet(back)
    BY <2>1, <2>2, PkgsFinite, FS_Subset
  <2>6. IsFiniteSet({"nxt"}) /\ Cardinality({"nxt"}) = 1
    BY FS_Singleton
  <2>7. Cardinality(back \X {"nxt"}) = Cardinality(back) * Cardinality({"nxt"})
    BY <2>5, <2>6, FS_Product
  <2>8. Cardinality(back) \in Nat
    BY <2>5, FS_CardinalityType
  <2>9. \A q \in S, s \in Views : m[q][s] # new
    BY <1>12, <2>1 DEF Views
  <2>10. S \in SUBSET Pkgs
    BY DEF Stock
  <2>11. Shown(m, S, new) = 0
    BY <2>9, <2>10, ShownNone
  <2>12. Shown(P, S, new) = Cardinality(back)
    <3>1. Cardinality(back) * Cardinality({"nxt"}) = Cardinality(back)
      BY <2>6, <2>8
    <3> QED BY <2>4, <2>7, <3>1 DEF Shown
  <2> QED BY <2>5, <2>11, <2>12
<1>18. ASSUME NEW f \in Pkgs, f # new
       PROVE  /\ Shown(P, S, f) = Shown(m, S, f)
              /\ Shown(P, {new}, f) = IF f \in last THEN 1 ELSE 0
  <2>1. ShownAt(P, S, f) = ShownAt(m, S, f)
    <3>1. \A q \in S : q \in Pkgs /\ q # new
      BY <1>4 DEF Stock
    <3>2. f # 0
      BY <1>2
    <3>3. \A q \in S, s \in Views : P[q][s] = f <=> m[q][s] = f
      BY <1>6, <1>9, <1>18, <3>1, <3>2 DEF Views
    <3> QED BY <3>3 DEF ShownAt
  <2>2. CASE f \in last
    <3>1. ShownAt(P, {new}, f) = {<<new, "prev">>}
      <4>1. pv = f /\ f # 0
        BY <1>2, <1>6, <2>2
      <4>2. P[new].cur # f /\ P[new].prev = f /\ P[new].nxt # f
        BY <1>7, <1>18, <4>1
      <4> QED BY <4>2 DEF ShownAt, Views
    <3>2. Cardinality({<<new, "prev">>}) = 1
      BY FS_Singleton
    <3> QED BY <2>1, <2>2, <3>1, <3>2 DEF Shown
  <2>3. CASE f \notin last
    <3>1. ShownAt(P, {new}, f) = {}
      <4>1. pv # f /\ f # 0
        BY <1>2, <1>6, <2>3
      <4>2. P[new].cur # f /\ P[new].prev # f /\ P[new].nxt # f
        BY <1>7, <1>18, <4>1
      <4> QED BY <4>2 DEF ShownAt, Views
    <3> QED BY <2>1, <2>3, <3>1, FS_EmptySet DEF Shown
  <2> QED BY <2>2, <2>3
<1>19. /\ b \in PkgAccounts /\ \A f \in Pkgs : b.refs[f] = Shown(m, S, f) /\ b.refs[f] \in Nat
       /\ b.bytes = Cardinality({f \in Pkgs : b.refs[f] > 0}) /\ b.bytes \in Int
  BY DEF Exact, PkgAccounts
<1>20. ASSUME NEW f \in Pkgs
       PROVE  A.refs[f] = Shown(P, S \cup {new}, f) /\ A.refs[f] \in Nat
  <2> DEFINE T == S \cup {new}
  <2>1. T \in SUBSET Pkgs /\ S \in SUBSET T /\ T \ S = {new}
    BY <1>2, <1>4 DEF Stock
  <2> HIDE DEF T
  <2>2. /\ Shown(P, T, f) = Shown(P, S, f) + Shown(P, T \ S, f)
        /\ Shown(P, S, f) \in Nat /\ Shown(P, T \ S, f) \in Nat
    BY <2>1, ShownSplit
  <2>3. Shown(P, T, f) = Shown(P, S, f) + Shown(P, {new}, f)
    BY <2>1, <2>2
  <2>4. CASE f = new
    <3>1. A.refs[f] = 1 + Cardinality(back)
      BY <1>1, <2>4
    <3> QED BY <1>16, <1>17, <2>2, <2>3, <2>4, <3>1 DEF T
  <2>5. CASE f # new
    <3>1. A.refs[f] = IF f \in last THEN b.refs[f] + 1 ELSE b.refs[f]
      BY <1>1, <2>5
    <3>2. Shown(P, S, f) = b.refs[f] /\ Shown(P, {new}, f) = IF f \in last THEN 1 ELSE 0
      BY <1>18, <1>19, <2>5
    <3> QED BY <1>19, <2>3, <3>1, <3>2 DEF T
  <2> QED BY <2>4, <2>5
<1>21. A \in PkgAccounts
  <2>1. A.refs = [f \in Pkgs |-> A.refs[f]]
    BY <1>1
  <2>2. A.refs \in [Pkgs -> Nat]
    BY <1>20, <2>1
  <2>3. A.bytes \in Int
    BY <1>1, <1>19
  <2> QED BY <1>1, <2>2, <2>3 DEF PkgAccounts
<1>22. A.bytes = Cardinality({f \in Pkgs : A.refs[f] > 0})
  <2> DEFINE F == {f \in Pkgs : b.refs[f] > 0}
  <2>1. new \notin F
    BY <1>2, <1>17, <1>19
  <2>2. \A f \in last : b.refs[f] > 0
    <3> SUFFICES ASSUME NEW f \in last PROVE b.refs[f] > 0
      OBVIOUS
    <3>1. f \in S /\ f \in Pkgs /\ m[f].cur = f
      BY <1>3, <1>5 DEF PackageFits
    <3>2. S \in SUBSET Pkgs /\ "cur" \in Views
      BY DEF Stock, Views
    <3>3. Shown(m, S, f) # 0
      BY <3>1, <3>2, ShownNone
    <3> QED BY <1>19, <3>1, <3>3
  <2>3. {f \in Pkgs : A.refs[f] > 0} = F \cup {new}
    <3>1. A.refs[new] > 0
      <4>1. A.refs[new] = 1 + Cardinality(back) /\ Cardinality(back) \in Nat
        BY <1>1, <1>2, <1>17, FS_CardinalityType
      <4> QED BY <4>1
    <3>2. \A f \in Pkgs : f # new => (A.refs[f] > 0 <=> b.refs[f] > 0)
      BY <1>1, <1>19, <2>2
    <3> QED BY <1>2, <3>1, <3>2
  <2>4. IsFiniteSet(F)
    BY PkgsFinite, FS_Subset
  <2> HIDE DEF F
  <2>5. Cardinality(F \cup {new}) = Cardinality(F) + 1
    BY <2>1, <2>4, FS_AddElement
  <2> QED BY <1>1, <1>19, <2>3, <2>5 DEF F
<1>23. Exact(P, A, Stock(P, lease))
  BY <1>15, <1>20, <1>21, <1>22 DEF Exact
<1> QED BY <1>1, <1>2, <1>4, <1>9, <1>14, <1>15, <1>23 DEF P, A


LEMMA IngestStep ==
  ASSUME MatInv, NEW k \in Captures, NEW x, NEW t, NEW late \in SUBSET Leased,
         Ingest(k, x, t, late)
  PROVE  MatInv'
<1> DEFINE m == Swept(x, t)
           b == SweptAccount(x)
           l == Overdue(late)
           counts == Recounted(late)
           new == packs + 1
           out == Evicted(m, b, k.cam)
           room == Cleared(m, out)
           u == Unref(m, b, out)
           P == Added(room, u, k).pkgs
           A == Added(room, u, k).account
<1>1. /\ MatShape /\ CopiesPaid(pkg, lease) /\ WellMade(pkg, packs, lease)
      /\ k.cam \in PkgCams /\ packs \in Nat
  BY MaterialsAssumption DEF MatInv, MatShape
<1>2. /\ storeOpen /\ packs < MaxPkgs /\ pkg' = P /\ account' = A /\ packs' = new
      /\ lease' = l /\ leaseCount' = counts /\ billed' = Drained /\ dead' = 0
      /\ UNCHANGED <<alive, storeOpen>>
  BY DEF Ingest
<1>3. StoreKept(m, b, l, counts)
  BY SweptKept
<1>4. /\ \A p \in Pkgs : l[p] = "none" <=> lease[p] = "none"
      /\ WellMade(m, packs, lease)
      /\ Stock(m, l) = Stock(m, lease) /\ \A c : Ring(m, l, c) = Ring(m, lease, c)
  <2>1. WellMade(m, packs, lease)
    BY <1>1, SweptFits
  <2> HIDE DEF m
  <2> QED BY <1>1, <2>1, OverdueFits
<1>5. /\ Exact(m, b, Stock(m, lease)) /\ l \in [Pkgs -> LeaseStates] /\ CountsOK(counts)
      /\ \A c \in PkgCams : Cardinality(Ring(m, lease, c)) <= PerCamMax
      /\ LeasesCounted(m, l, counts)
      /\ \A p \in Pkgs : alive[p] > 0 /\ l[p] = "none" => m[p].st = "gone"
  <2> HIDE DEF m, b, l, counts
  <2> QED BY <1>3, <1>4 DEF StoreKept
<1> HIDE DEF m, b, counts
<1>6. /\ out \subseteq Stock(m, lease) /\ u.bytes + 1 <= StoreCap
      /\ Cardinality(Ring(m, lease, k.cam) \ out) + 1 <= PerCamMax
  <2> HIDE DEF l
  <2> QED BY <1>1, <1>4, <1>5, EvictedFits
<1> HIDE DEF out
<1>7. /\ WellMade(room, packs, lease) /\ Stock(room, lease) = Stock(m, lease) \ out
      /\ SameFrames(room, m) /\ \A p \in Pkgs \ out : room[p] = m[p]
      /\ \A c \in PkgCams : Ring(room, lease, c) = Ring(m, lease, c) \ out
  BY <1>1, <1>4, <1>6, DroppedFits
<1>8. Exact(room, u, Stock(room, lease))
  <2>1. Stock(m, lease) \in SUBSET Pkgs
    BY DEF Stock
  <2>2. Exact(m, u, Stock(m, lease) \ out)
    BY <1>5, <1>6, <2>1, UnrefExact
  <2>3. \A p \in Stock(m, lease) \ out, s \in Views : m[p][s] = room[p][s]
    BY <1>7, <2>1
  <2> HIDE DEF room, u
  <2>4. Exact(room, u, Stock(m, lease) \ out)
    BY <2>2, <2>3, ExactSame
  <2> QED BY <1>7, <2>4
<1> HIDE DEF u, room
<1>9. /\ new \in Pkgs /\ new \notin Stock(room, lease) /\ lease[new] = "none"
      /\ WellMade(P, new, lease) /\ Stock(P, lease) = Stock(room, lease) \cup {new}
      /\ Exact(P, A, Stock(P, lease)) /\ A.bytes = u.bytes + 1
      /\ \A p \in Pkgs : p # new => P[p].cam = room[p].cam /\ P[p].st = room[p].st
      /\ \A c \in PkgCams : Ring(P, lease, c) = IF c = k.cam
                                               THEN Ring(room, lease, c) \cup {new}
                                               ELSE Ring(room, lease, c)
  <2>1. /\ MatShape /\ packs < MaxPkgs /\ WellMade(room, packs, lease)
        /\ Exact(room, u, Stock(room, lease)) /\ k \in Captures
    BY <1>1, <1>2, <1>7, <1>8
  <2> HIDE DEF l
  <2> QED BY <2>1, AddedFits
<1> HIDE DEF P, A, l
<1>10. WellMade(P, new, l) /\ Stock(P, l) = Stock(P, lease)
       /\ \A c : Ring(P, l, c) = Ring(P, lease, c)
  BY <1>1, <1>9, OverdueFits DEF l
<1>11. Exact(pkg', account', Stock(pkg', lease'))
  BY <1>2, <1>9, <1>10
<1>12. account'.bytes <= StoreCap
  BY <1>2, <1>6, <1>9
<1>13. ASSUME NEW c \in PkgCams PROVE Cardinality(Ring(P, lease, c)) <= PerCamMax
  <2>1. CASE c = k.cam
    <3>1. Ring(P, lease, c) = (Ring(m, lease, c) \ out) \cup {new}
      BY <1>7, <1>9, <2>1
    <3>2. new \notin Ring(m, lease, c) \ out
      <4>1. Ring(room, lease, c) \subseteq Stock(room, lease)
        BY DEF Ring, Stock
      <4> QED BY <1>7, <1>9, <4>1
    <3>3. IsFiniteSet(Ring(m, lease, c) \ out)
      <4>1. Ring(m, lease, c) \ out \subseteq Pkgs
        BY DEF Ring
      <4> QED BY <4>1, PkgsFinite, FS_Subset
    <3>4. Cardinality((Ring(m, lease, c) \ out) \cup {new})
            = Cardinality(Ring(m, lease, c) \ out) + 1
      BY <3>2, <3>3, FS_AddElement
    <3> QED BY <1>6, <2>1, <3>1, <3>4
  <2>2. CASE c # k.cam
    <3>1. Ring(P, lease, c) = Ring(m, lease, c) \ out
      BY <1>7, <1>9, <2>2
    <3>2. Ring(m, lease, c) \ out \subseteq Ring(m, lease, c)
      OBVIOUS
    <3>3. Cardinality(Ring(m, lease, c)) <= PerCamMax
      BY <1>5
    <3>4. Cardinality(Ring(m, lease, c) \ out) <= PerCamMax
      BY <3>2, <3>3, RingFits
    <3> QED BY <3>1, <3>4
  <2> QED BY <2>1, <2>2
<1>14. LeasesCounted(P, l, counts)
  <2>1. \A c : \A st \in {"leased", "expired"} : LeasesOf(P, l, c, st) = LeasesOf(m, l, c, st)
    <3>1. \A p \in Pkgs : p # new => P[p].cam = m[p].cam
      BY <1>7, <1>9 DEF SameFrames
    <3>2. l[new] = "none"
      BY <1>4, <1>9
    <3> HIDE DEF new
    <3> QED BY <3>1, <3>2 DEF LeasesOf
  <2> QED BY <1>5, <2>1 DEF LeasesCounted
<1>15. Drained = Cardinality(LiveArrays) /\ Drained \in Nat /\ Drained <= LeaseCap
  BY <1>1, DrainedPaid
<1>16. LiveArrays' = LiveArrays
  BY <1>2 DEF LiveArrays
<1>17. MatShape'
  <2>1. lease' \in [Pkgs -> LeaseStates] /\ CountsOK(leaseCount') /\ billed' \in Int /\ dead' \in Nat
    BY <1>2, <1>5, <1>15
  <2>2. /\ packs' \in 0..MaxPkgs /\ alive' \in [Pkgs -> 0..3]
        /\ \A p \in Pkgs : alive'[p] > 0 => p <= packs'
    BY <1>1, <1>2, PkgsFinite, MaterialsAssumption DEF MatShape
  <2>3. storeOpen' \in BOOLEAN
    BY <1>1, <1>2 DEF MatShape
  <2> QED BY <2>1, <2>2, <2>3 DEF MatShape
<1>18. CopiesPaid(pkg, lease)'
  <2>1. \A p \in Pkgs : alive[p] > 0 /\ l[p] = "none" => P[p].st = "gone"
    <3> SUFFICES ASSUME NEW p \in Pkgs, alive[p] > 0, l[p] = "none" PROVE P[p].st = "gone"
      OBVIOUS
    <3>1. m[p].st = "gone"
      BY <1>5
    <3>2. p # new
      BY <1>1 DEF MatShape
    <3>3. p \notin out
      BY <1>6, <3>1 DEF Stock
    <3> QED BY <1>7, <1>9, <3>1, <3>2, <3>3
  <2> QED BY <1>2, <1>15, <1>16, <2>1 DEF CopiesPaid
<1> QED BY <1>2, <1>10, <1>11, <1>12, <1>13, <1>14, <1>17, <1>18 DEF MatInv

\* Every step of the store keeps its invariant.
LEMMA MatStep == ASSUME MatInv, [MatNext]_matvars PROVE MatInv'
<1>1. ASSUME NEW late \in SUBSET Leased, NEW x, NEW t, Upkeep(x, t, late) PROVE MatInv'
  BY <1>1, UpkeepStep
<1>2. ASSUME NEW late \in SUBSET Leased, NEW x, NEW t, NEW c \in PkgCams, Take(c, x, t, late)
      PROVE  MatInv'
  BY <1>2, TakeStep
<1>3. ASSUME NEW late \in SUBSET Leased, NEW x, NEW t, NEW k \in Captures, Ingest(k, x, t, late)
      PROVE  MatInv'
  BY <1>3, IngestStep
<1>4. ASSUME NEW late \in SUBSET Leased, NEW p \in Pkgs, ReleasePkg(p, late) PROVE MatInv'
  BY <1>4, ReleasePkgStep
<1>5. ASSUME NEW late \in SUBSET Leased, CloseStore(late) PROVE MatInv'
  BY <1>5, CloseStoreStep
<1>6. ASSUME NEW k \in Captures, NEW v \in Verdicts, NEW x, NEW t, Attach(k, v, x, t) PROVE MatInv'
  BY <1>6, AttachStep
<1>7. ASSUME NEW p \in Pkgs, Collect(p) PROVE MatInv'
  BY <1>7, CollectStep
<1>8. CASE UNCHANGED matvars
  <2>1. LiveArrays' = LiveArrays
    BY <1>8 DEF matvars, LiveArrays
  <2>2. MatShape' /\ CopiesPaid(pkg, lease)'
    BY <1>8, <2>1 DEF MatInv, MatShape, CopiesPaid, matvars
  <2> QED BY <1>8, <2>2 DEF MatInv, matvars
<1> QED BY <1>1, <1>2, <1>3, <1>4, <1>5, <1>6, <1>7, <1>8 DEF MatNext

\* The invariant says what the store and its packages promise.
LEMMA MatPromises == MatInv => StoreExact /\ MaterialsHonest
<1> SUFFICES ASSUME MatInv PROVE StoreExact /\ MaterialsHonest
  OBVIOUS
<1>1. /\ MatShape /\ WellMade(pkg, packs, lease)
      /\ Exact(pkg, account, Stock(pkg, lease)) /\ account.bytes <= StoreCap
      /\ (~storeOpen => Stock(pkg, lease) = {})
      /\ \A c \in PkgCams : Cardinality(Ring(pkg, lease, c)) <= PerCamMax
      /\ LeasesCounted(pkg, lease, leaseCount) /\ CopiesPaid(pkg, lease)
  BY DEF MatInv
<1>2. Held(pkg) = Stock(pkg, lease)
  BY StockIsHeld
<1>3. \A c \in PkgCams :
        LET of(s) == Cardinality({p \in 1..packs : lease[p] = s /\ pkg[p].cam = c})
        IN  /\ leaseCount[c] = [leased |-> of("leased"), expired |-> of("expired")]
            /\ of("leased") + of("expired") <= LeaseSlots
            /\ Cardinality({p \in Held(pkg) : pkg[p].cam = c}) <= PerCamMax
  <2>1. \A p \in Pkgs : lease[p] # "none" => p \in 1..packs
    BY <1>1, MaterialsAssumption DEF WellMade, PackageFits, MatShape, Pkgs
  <2>2. 1..packs \subseteq Pkgs
    BY <1>1, MaterialsAssumption DEF MatShape, Pkgs
  <2>3. \A c : /\ {p \in Held(pkg) : pkg[p].cam = c} = Ring(pkg, lease, c)
               /\ \A s \in {"leased", "expired"} :
                    {p \in 1..packs : lease[p] = s /\ pkg[p].cam = c}
                        = LeasesOf(pkg, lease, c, s)
    BY <1>2, <2>1, <2>2 DEF LeasesOf, Stock, Ring
  <2> SUFFICES ASSUME NEW c \in PkgCams
               PROVE  /\ leaseCount[c] = [leased |-> Cardinality(LeasesOf(pkg, lease, c, "leased")),
                                          expired |-> Cardinality(LeasesOf(pkg, lease, c, "expired"))]
                      /\ Cardinality(LeasesOf(pkg, lease, c, "leased"))
                          + Cardinality(LeasesOf(pkg, lease, c, "expired")) <= LeaseSlots
                      /\ Cardinality(Ring(pkg, lease, c)) <= PerCamMax
    BY <2>3
  <2>4. leaseCount[c] \in [leased : Int, expired : Int]
    BY <1>1 DEF MatShape, CountsOK
  <2> QED BY <1>1, <1>2, <2>4 DEF LeasesCounted
<1>4. StoreExact
  BY <1>1, <1>2, <1>3 DEF StoreExact, Exact, CopiesPaid
<1>5. MaterialsHonest
  <2>1. ASSUME NEW p \in Pkgs
        PROVE  /\ pkg[p].st = "consumable" => pkg[p].res = "ok"
               /\ pkg[p].st = "fallback" => pkg[p].res # "ok"
               /\ lease[p] # "none" => pkg[p].st \in {"consumable", "fallback"}
               /\ Linked(pkg, p, pkg[p].prev, pkg[p].shot - pkg[pkg[p].prev].shot)
               /\ Linked(pkg, p, pkg[p].nxt, pkg[pkg[p].nxt].shot - pkg[p].shot)
    BY <1>1 DEF WellMade, PackageFits
  <2>2. \A p \in Pkgs : \A s \in {"prev", "nxt"} :
            LET q == pkg[p][s]
                gap == IF s = "prev" THEN pkg[p].shot - pkg[q].shot
                       ELSE pkg[q].shot - pkg[p].shot
            IN  q # 0 => /\ pkg[q].cam = pkg[p].cam /\ pkg[q].era = pkg[p].era
                         /\ 0 < gap /\ gap <= NearGap
    BY <2>1 DEF Linked
  <2>3. 1..packs \subseteq Pkgs
    BY <1>1, MaterialsAssumption DEF MatShape, Pkgs
  <2> QED BY <2>1, <2>2, <2>3 DEF MaterialsHonest
<1> QED BY <1>4, <1>5

THEOREM StoreStaysExact == MatSpec => [](StoreExact /\ MaterialsHonest)
<1>1. MatInit => MatInv
  BY MatInitial
<1>2. MatInv /\ [MatNext]_matvars => MatInv'
  BY MatStep
<1>3. MatInv => StoreExact /\ MaterialsHonest
  BY MatPromises
<1> QED BY <1>1, <1>2, <1>3, PTL DEF MatSpec

\* What is lent is counted, the budget of a window and the store alike.
THEOREM BudgetsStayKept ==
  ASSUME WindowPackages \in 0..2
  PROVE  BudgetsSpec => []BudgetsKept
<1>1. BudgetSpec => []NeverOversold
  BY TwoPackagesFit
<1>2. MatSpec => [](StoreExact /\ MaterialsHonest)
  BY StoreStaysExact
<1> QED BY <1>1, <1>2, PTL DEF BudgetsSpec, BudgetsKept
================================================================================
