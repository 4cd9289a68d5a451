---------------------------- MODULE SlowCoreProofs ----------------------------
(***************************************************************************)
(* Proofs about SlowCore, for any instances, administrators and bounds:    *)
(* its types and bounded rounds first, then what the system keeps.         *)
(***************************************************************************)
EXTENDS SlowCore, TLAPS

\* The rows of a plan and the entries of a batch are made of these parts.
LEMMA Parts ==
  /\ \A e \in Rows : e.r \in Reviews /\ e.text \in Texts \cup {0} /\ e.owner \in Cores
  /\ \A r \in Reviews, n \in Texts \cup {0}, c \in Cores :
       [r |-> r, text |-> n, owner |-> c] \in Rows
  /\ \A e \in Claims : e.r \in Reviews /\ e.text \in Texts
  /\ \A r \in Reviews, n \in Texts : [r |-> r, text |-> n] \in Claims
  BY DEF Rows, Claims

\* No library, and a library as loaded from a well-typed table, are libraries.
LEMMA LibraryTypes ==
  /\ NoLibrary \in Libraries
  /\ DbTypeOK => Stored \in Libraries
  /\ \A l \in Libraries : /\ l.hits \in [Pids -> SUBSET Reviews]
                          /\ l.gold \in [Pids -> 0 .. MaxGen]
                          /\ l.gen \in 0 .. MaxGen
  BY SlowAssumption DEF NoLibrary, Libraries, Stored, DbTypeOK

\* Matching in memory adds a review to one pattern and touches nothing else.
LEMMA MatchInMemory ==
  ASSUME NEW l \in Libraries, NEW p \in Pids, NEW r \in Reviews
  PROVE  /\ Matched(l, p, r) \in Libraries
         /\ Matched(l, p, r).gen = l.gen
         /\ Matched(l, p, r).gold = l.gold
         /\ Matched(l, p, r).hits = [l.hits EXCEPT ![p] = @ \cup {r}]
<1>1. [l.hits EXCEPT ![p] = @ \cup {r}] \in [Pids -> SUBSET Reviews]
  BY LibraryTypes
<1> QED BY <1>1 DEF Libraries, Matched

\* A count of attempts stays within its range.
LEMMA CappedType ==
  \A n \in Nat : Capped(n) \in 0 .. MaxRetries
  BY SlowAssumption DEF Capped

\* The feedback in a library, and in the table, is not more than its generation
\* says: every feedback is a generation of its own.
GoldCounted ==
  /\ \A p \in Pids : gold[p] <= gen
  /\ \A c \in Cores, p \in Pids : lib[c].gold[p] <= lib[c].gen
  /\ \A a \in Admins, p \in Pids : seen[a].gold[p] <= seen[a].gen

\* A library and a loaded row at the current generation hold the feedback of
\* the table: what the generation check of a write relies on.
GoldFresh ==
  /\ \A c \in Cores : phase[c] = "persist" => loaded[c]
  /\ \A c \in Cores : lib[c].gen <= gen
  /\ \A c \in Cores : loaded[c] /\ lib[c].gen = gen => lib[c].gold = gold
  /\ \A a \in Admins : seen[a].gen <= gen
  /\ \A a \in Admins : adm[a] # 0 /\ seen[a].gen = gen => seen[a].gold = gold

\* The initial state is well typed.
LEMMA TypeInit == Init => TypeOK
<1> SUFFICES ASSUME Init PROVE TypeOK
  OBVIOUS
<1>1. DbTypeOK
  <2>1. hits \in [Pids -> SUBSET Reviews] /\ gold \in [Pids -> 0 .. MaxGen]
    BY SlowAssumption DEF Init, NoLibrary
  <2>2. owner \in [Reviews -> Cores]
    <3>1. (CHOOSE c \in Cores : TRUE) \in Cores
      BY SlowAssumption
    <3> QED BY <3>1 DEF Init
  <2> QED BY <2>1, <2>2, SlowAssumption DEF Init, DbTypeOK
<1>2. RoundTypeOK
  BY SlowAssumption DEF Init, RoundTypeOK
<1>3. LibTypeOK
  BY LibraryTypes DEF Init, LibTypeOK
<1>4. tries \in [Reviews -> 0 .. MaxRetries]
  BY SlowAssumption DEF Init
<1> QED BY <1>1, <1>2, <1>3, <1>4 DEF TypeOK

\* What a step of an instance is.
LEMMA StepCases ==
  ASSUME NEW c \in Cores, Step(c)
  PROVE  \/ ReadPending(c) \/ EndRound(c)
         \/ \E e \in plan[c] : \/ Claim(c, e) \/ Resume(c, e) \/ TakeOver(c, e)
                              \/ Finalize(c, e) \/ Skip(c, e)
         \/ \E e \in batch[c] : \/ Compute(c, e) \/ Persist(c, e) \/ Conflict(c, e)
                               \/ Fail(c, e) \/ Bump(c, e)
  BY DEF Step, Look, Attempt

\* Every action keeps the state well typed.
LEMMA TypeStep == TypeOK /\ GoldCounted /\ [Next]_vars => TypeOK'
<1> SUFFICES ASSUME DbTypeOK, RoundTypeOK, LibTypeOK, GoldCounted,
                    tries \in [Reviews -> 0 .. MaxRetries], [Next]_vars
             PROVE  TypeOK'
  BY DEF TypeOK
<1>1. ASSUME NEW c \in Cores, Start(c)
     PROVE  TypeOK'
  <2>1. DbTypeOK'
    BY <1>1, Parts, LibraryTypes DEF Start, DbTypeOK, LibTypeOK, db, bench, work
  <2>2. RoundTypeOK'
    BY <1>1, Parts, SlowAssumption DEF Start, RoundTypeOK, DbTypeOK, db, bench, work
  <2>3. LibTypeOK'
    BY <1>1, LibraryTypes DEF Start, LibTypeOK, DbTypeOK, db, bench, work
  <2>4. tries' \in [Reviews -> 0 .. MaxRetries]
    BY <1>1, CappedType DEF Start
  <2> QED BY <2>1, <2>2, <2>3, <2>4 DEF TypeOK
<1>2. ASSUME NEW c \in Cores, Crash(c)
     PROVE  TypeOK'
  <2>1. DbTypeOK'
    BY <1>2, Parts, LibraryTypes DEF Crash, Leave, Unload, DbTypeOK, LibTypeOK, db, bench, work
  <2>2. RoundTypeOK'
    BY <1>2, Parts, SlowAssumption DEF Crash, Leave, Unload, RoundTypeOK, DbTypeOK, db, bench, work
  <2>3. LibTypeOK'
    BY <1>2, LibraryTypes DEF Crash, Leave, Unload, LibTypeOK, DbTypeOK, db, bench, work
  <2>4. tries' \in [Reviews -> 0 .. MaxRetries]
    BY <1>2, CappedType DEF Crash
  <2> QED BY <2>1, <2>2, <2>3, <2>4 DEF TypeOK
<1>3. ASSUME NEW c \in Cores, ReadPending(c)
     PROVE  TypeOK'
  <2>1. DbTypeOK'
    BY <1>3, Parts, LibraryTypes DEF ReadPending, Unload, Window, Open, DbTypeOK, LibTypeOK, db, bench, work
  <2>2. RoundTypeOK'
    <3>1. \A r \in Window :
            [r |-> r, text |-> text[r],
             owner |-> IF seg[r] = "none" THEN c ELSE owner[r]] \in Rows
      BY Parts DEF Window, Open, DbTypeOK
    <3>2. plan' \in [Cores -> SUBSET Rows]
      BY <1>3, <3>1 DEF ReadPending, RoundTypeOK
    <3> QED BY <1>3, <3>2 DEF ReadPending, RoundTypeOK
  <2>3. LibTypeOK'
    BY <1>3, LibraryTypes DEF ReadPending, Unload, Window, Open, LibTypeOK, DbTypeOK, db, bench, work
  <2>4. tries' \in [Reviews -> 0 .. MaxRetries]
    BY <1>3, CappedType DEF ReadPending
  <2> QED BY <2>1, <2>2, <2>3, <2>4 DEF TypeOK
<1>4. ASSUME NEW c \in Cores, NEW e \in plan[c], Claim(c, e)
     PROVE  TypeOK'
  <2>0. e.r \in Reviews /\ e.text \in Texts \cup {0} /\ e.owner \in Cores /\ plan[c] \subseteq Rows
    BY Parts DEF RoundTypeOK
  <2>1. DbTypeOK'
    <3>1. CASE seg[e.r] = "none"
      BY <1>4, <2>0, <3>1 DEF Claim, WriteClaim, DbTypeOK
    <3>2. CASE seg[e.r] # "none"
      BY <1>4, <3>2 DEF Claim, DbTypeOK
    <3> QED BY <3>1, <3>2
  <2>2. RoundTypeOK'
    BY <1>4, <2>0, Parts, SlowAssumption DEF Claim, Looked, WriteClaim, RoundTypeOK, DbTypeOK, db, bench, work
  <2>3. LibTypeOK'
    BY <1>4, <2>0, LibraryTypes DEF Claim, Looked, WriteClaim, LibTypeOK, DbTypeOK, db, bench, work
  <2>4. tries' \in [Reviews -> 0 .. MaxRetries]
    BY <1>4, <2>0, CappedType DEF Claim
  <2> QED BY <2>1, <2>2, <2>3, <2>4 DEF TypeOK
<1>5. ASSUME NEW c \in Cores, NEW e \in plan[c], Resume(c, e)
     PROVE  TypeOK'
  <2>0. e.r \in Reviews /\ e.text \in Texts \cup {0} /\ e.owner \in Cores /\ plan[c] \subseteq Rows
    BY Parts DEF RoundTypeOK
  <2>1. DbTypeOK'
    BY <1>5, <2>0, Parts, LibraryTypes DEF Resume, Looked, DbTypeOK, LibTypeOK, db, bench, work
  <2>2. RoundTypeOK'
    <3>1. [r |-> e.r, text |-> e.text] \in Claims
      BY <1>5, <2>0, Parts DEF Resume, ToResume
    <3>2. batch' \in [Cores -> SUBSET Claims]
      BY <1>5, <3>1 DEF Resume, RoundTypeOK
    <3> QED BY <1>5, <2>0, <3>2 DEF Resume, Looked, RoundTypeOK
  <2>3. LibTypeOK'
    BY <1>5, <2>0, LibraryTypes DEF Resume, Looked, LibTypeOK, DbTypeOK, db, bench, work
  <2>4. tries' \in [Reviews -> 0 .. MaxRetries]
    BY <1>5, <2>0, CappedType DEF Resume
  <2> QED BY <2>1, <2>2, <2>3, <2>4 DEF TypeOK
<1>6. ASSUME NEW c \in Cores, NEW e \in plan[c], TakeOver(c, e)
     PROVE  TypeOK'
  <2>0. e.r \in Reviews /\ e.text \in Texts \cup {0} /\ e.owner \in Cores /\ plan[c] \subseteq Rows
    BY Parts DEF RoundTypeOK
  <2>1. DbTypeOK'
    BY <1>6, <2>0, Parts, LibraryTypes DEF TakeOver, Looked, WriteClaim, DbTypeOK, LibTypeOK, db, bench, work
  <2>2. RoundTypeOK'
    BY <1>6, <2>0, Parts, SlowAssumption DEF TakeOver, Looked, WriteClaim, RoundTypeOK, DbTypeOK, db, bench, work
  <2>3. LibTypeOK'
    BY <1>6, <2>0, LibraryTypes DEF TakeOver, Looked, WriteClaim, LibTypeOK, DbTypeOK, db, bench, work
  <2>4. tries' \in [Reviews -> 0 .. MaxRetries]
    BY <1>6, <2>0, CappedType DEF TakeOver
  <2> QED BY <2>1, <2>2, <2>3, <2>4 DEF TypeOK
<1>7. ASSUME NEW c \in Cores, NEW e \in plan[c], Finalize(c, e)
     PROVE  TypeOK'
  <2>0. e.r \in Reviews /\ e.text \in Texts \cup {0} /\ e.owner \in Cores /\ plan[c] \subseteq Rows
    BY Parts DEF RoundTypeOK
  <2>1. DbTypeOK'
    BY <1>7, <2>0, Parts, LibraryTypes DEF Finalize, Looked, DbTypeOK, LibTypeOK, db, bench, work
  <2>2. RoundTypeOK'
    BY <1>7, <2>0, Parts, SlowAssumption DEF Finalize, Looked, RoundTypeOK, DbTypeOK, db, bench, work
  <2>3. LibTypeOK'
    BY <1>7, <2>0, LibraryTypes DEF Finalize, Looked, LibTypeOK, DbTypeOK, db, bench, work
  <2>4. tries' \in [Reviews -> 0 .. MaxRetries]
    BY <1>7, <2>0, CappedType DEF Finalize
  <2> QED BY <2>1, <2>2, <2>3, <2>4 DEF TypeOK
<1>8. ASSUME NEW c \in Cores, NEW e \in plan[c], Skip(c, e)
     PROVE  TypeOK'
  <2>0. e.r \in Reviews /\ e.text \in Texts \cup {0} /\ e.owner \in Cores /\ plan[c] \subseteq Rows
    BY Parts DEF RoundTypeOK
  <2>1. DbTypeOK'
    BY <1>8, <2>0, Parts, LibraryTypes DEF Skip, Looked, DbTypeOK, LibTypeOK, db, bench, work
  <2>2. RoundTypeOK'
    BY <1>8, <2>0, Parts, SlowAssumption DEF Skip, Looked, RoundTypeOK, DbTypeOK, db, bench, work
  <2>3. LibTypeOK'
    BY <1>8, <2>0, LibraryTypes DEF Skip, Looked, LibTypeOK, DbTypeOK, db, bench, work
  <2>4. tries' \in [Reviews -> 0 .. MaxRetries]
    BY <1>8, <2>0, CappedType DEF Skip
  <2> QED BY <2>1, <2>2, <2>3, <2>4 DEF TypeOK
<1>9. ASSUME NEW c \in Cores, EndRound(c)
     PROVE  TypeOK'
  <2>1. DbTypeOK'
    BY <1>9, Parts, LibraryTypes DEF EndRound, DbTypeOK, LibTypeOK, db, bench, work
  <2>2. RoundTypeOK'
    BY <1>9, Parts, SlowAssumption DEF EndRound, RoundTypeOK, DbTypeOK, db, bench, work
  <2>3. LibTypeOK'
    BY <1>9, LibraryTypes DEF EndRound, LibTypeOK, DbTypeOK, db, bench, work
  <2>4. tries' \in [Reviews -> 0 .. MaxRetries]
    BY <1>9, CappedType DEF EndRound
  <2> QED BY <2>1, <2>2, <2>3, <2>4 DEF TypeOK
<1>10. ASSUME NEW c \in Cores, NEW e \in batch[c], Compute(c, e)
     PROVE  TypeOK'
  <2>0. e.r \in Reviews /\ e.text \in Texts /\ batch[c] \subseteq Claims
    BY Parts DEF RoundTypeOK
  <2>1. DbTypeOK'
    BY <1>10, <2>0, Parts, LibraryTypes DEF Compute, DbTypeOK, LibTypeOK, db, bench, work
  <2>2. RoundTypeOK'
    BY <1>10, <2>0, Parts, SlowAssumption DEF Compute, RoundTypeOK, DbTypeOK, db, bench, work
  <2>3. LibTypeOK'
    <3>1. (IF loaded[c] THEN lib[c] ELSE Stored) \in Libraries
      BY LibraryTypes DEF LibTypeOK
    <3>2. PICK p \in Pids :
            /\ lib' = [lib EXCEPT ![c] =
                         Matched(IF loaded[c] THEN lib[c] ELSE Stored, p, e.r)]
            /\ choice' = [choice EXCEPT ![c] = p]
      BY <1>10 DEF Compute, Matches, Known
    <3>3. Matched(IF loaded[c] THEN lib[c] ELSE Stored, p, e.r) \in Libraries
      BY <2>0, <3>1, MatchInMemory
    <3>4. loaded' = [loaded EXCEPT ![c] = TRUE] /\ UNCHANGED bench
      BY <1>10 DEF Compute
    <3> QED BY <3>2, <3>3, <3>4 DEF LibTypeOK, bench
  <2>4. tries' \in [Reviews -> 0 .. MaxRetries]
    BY <1>10, <2>0, CappedType DEF Compute
  <2> QED BY <2>1, <2>2, <2>3, <2>4 DEF TypeOK
<1>11. ASSUME NEW c \in Cores, NEW e \in batch[c], Persist(c, e)
     PROVE  TypeOK'
  <2>0. e.r \in Reviews /\ e.text \in Texts /\ batch[c] \subseteq Claims
    BY Parts DEF RoundTypeOK
  <2>1. DbTypeOK'
    BY <1>11, <2>0, Parts, LibraryTypes DEF Persist, Done, DbTypeOK, LibTypeOK, db, bench, work
  <2>2. RoundTypeOK'
    BY <1>11, <2>0, Parts, SlowAssumption DEF Persist, Done, RoundTypeOK, DbTypeOK, db, bench, work
  <2>3. LibTypeOK'
    BY <1>11, <2>0, LibraryTypes DEF Persist, Done, LibTypeOK, DbTypeOK, db, bench, work
  <2>4. tries' \in [Reviews -> 0 .. MaxRetries]
    BY <1>11, <2>0, CappedType DEF Persist
  <2> QED BY <2>1, <2>2, <2>3, <2>4 DEF TypeOK
<1>12. ASSUME NEW c \in Cores, NEW e \in batch[c], Conflict(c, e)
     PROVE  TypeOK'
  <2>0. e.r \in Reviews /\ e.text \in Texts /\ batch[c] \subseteq Claims
    BY Parts DEF RoundTypeOK
  <2>1. DbTypeOK'
    BY <1>12, <2>0, Parts, LibraryTypes DEF Conflict, Done, Unload, DbTypeOK, LibTypeOK, db, bench, work
  <2>2. RoundTypeOK'
    BY <1>12, <2>0, Parts, SlowAssumption DEF Conflict, Done, Unload, RoundTypeOK, DbTypeOK, db, bench, work
  <2>3. LibTypeOK'
    BY <1>12, <2>0, LibraryTypes DEF Conflict, Done, Unload, LibTypeOK, DbTypeOK, db, bench, work
  <2>4. tries' \in [Reviews -> 0 .. MaxRetries]
    BY <1>12, <2>0, CappedType DEF Conflict
  <2> QED BY <2>1, <2>2, <2>3, <2>4 DEF TypeOK
<1>13. ASSUME NEW c \in Cores, NEW e \in batch[c], Fail(c, e)
     PROVE  TypeOK'
  <2>0. e.r \in Reviews /\ e.text \in Texts /\ batch[c] \subseteq Claims
    BY Parts DEF RoundTypeOK
  <2>1. DbTypeOK'
    BY <1>13, <2>0, Parts, LibraryTypes DEF Fail, Unload, DbTypeOK, LibTypeOK, db, bench, work
  <2>2. RoundTypeOK'
    <3>1. Capped(retry[e.r] + 1) \in 0 .. MaxRetries
      BY <2>0, CappedType, SlowAssumption DEF DbTypeOK
    <3> QED BY <1>13, <3>1 DEF Fail, RoundTypeOK
  <2>3. LibTypeOK'
    BY <1>13, <2>0, LibraryTypes DEF Fail, Unload, LibTypeOK, DbTypeOK, db, bench, work
  <2>4. tries' \in [Reviews -> 0 .. MaxRetries]
    BY <1>13, <2>0, CappedType DEF Fail
  <2> QED BY <2>1, <2>2, <2>3, <2>4 DEF TypeOK
<1>14. ASSUME NEW c \in Cores, NEW e \in batch[c], Bump(c, e)
     PROVE  TypeOK'
  <2>0. e.r \in Reviews /\ e.text \in Texts /\ batch[c] \subseteq Claims
    BY Parts DEF RoundTypeOK
  <2>1. DbTypeOK'
    BY <1>14, <2>0 DEF Bump, DbTypeOK, RoundTypeOK
  <2>2. RoundTypeOK'
    BY <1>14, <2>0, Parts, SlowAssumption DEF Bump, Done, RoundTypeOK, DbTypeOK, db, bench, work
  <2>3. LibTypeOK'
    BY <1>14, <2>0, LibraryTypes DEF Bump, Done, LibTypeOK, DbTypeOK, db, bench, work
  <2>4. tries' \in [Reviews -> 0 .. MaxRetries]
    BY <1>14, <2>0, CappedType DEF Bump
  <2> QED BY <2>1, <2>2, <2>3, <2>4 DEF TypeOK
<1>15. ASSUME NEW c \in Cores, LockedWrite(c)
     PROVE  TypeOK'
  <2>1. DbTypeOK'
    BY <1>15, Parts, LibraryTypes DEF LockedWrite, Leave, DbTypeOK, LibTypeOK, db, bench, work
  <2>2. RoundTypeOK'
    BY <1>15, Parts, SlowAssumption DEF LockedWrite, Leave, RoundTypeOK, DbTypeOK, db, bench, work
  <2>3. LibTypeOK'
    BY <1>15, LibraryTypes DEF LockedWrite, Leave, LibTypeOK, DbTypeOK, db, bench, work
  <2>4. tries' \in [Reviews -> 0 .. MaxRetries]
    BY <1>15, CappedType DEF LockedWrite
  <2> QED BY <2>1, <2>2, <2>3, <2>4 DEF TypeOK
<1>16. ASSUME NEW c \in Cores, LockedBegin(c)
     PROVE  TypeOK'
  <2>1. DbTypeOK'
    BY <1>16, Parts, LibraryTypes DEF LockedBegin, Leave, DbTypeOK, LibTypeOK, db, bench, work
  <2>2. RoundTypeOK'
    BY <1>16, Parts, SlowAssumption DEF LockedBegin, Leave, RoundTypeOK, DbTypeOK, db, bench, work
  <2>3. LibTypeOK'
    BY <1>16, LibraryTypes DEF LockedBegin, Leave, LibTypeOK, DbTypeOK, db, bench, work
  <2>4. tries' \in [Reviews -> 0 .. MaxRetries]
    BY <1>16, CappedType DEF LockedBegin
  <2> QED BY <2>1, <2>2, <2>3, <2>4 DEF TypeOK
<1>17. ASSUME NEW r \in Reviews, Age(r)
     PROVE  TypeOK'
  <2>1. DbTypeOK'
    BY <1>17, LibraryTypes, SlowAssumption DEF Age, DbTypeOK, LibTypeOK, db, bench, work
  <2>2. RoundTypeOK'
    BY <1>17 DEF Age, RoundTypeOK, db, bench, work
  <2>3. LibTypeOK'
    BY <1>17, LibraryTypes DEF Age, LibTypeOK, db, bench, work
  <2>4. tries' \in [Reviews -> 0 .. MaxRetries]
    BY <1>17 DEF Age
  <2> QED BY <2>1, <2>2, <2>3, <2>4 DEF TypeOK
<1>18. ASSUME NEW a \in Admins, NEW p \in Pids, Load(a, p)
     PROVE  TypeOK'
  <2>1. DbTypeOK'
    BY <1>18, LibraryTypes, SlowAssumption DEF Load, DbTypeOK, LibTypeOK, db, bench, work
  <2>2. RoundTypeOK'
    BY <1>18 DEF Load, RoundTypeOK, db, bench, work
  <2>3. LibTypeOK'
    BY <1>18, LibraryTypes DEF Load, LibTypeOK, db, bench, work
  <2>4. tries' \in [Reviews -> 0 .. MaxRetries]
    BY <1>18 DEF Load
  <2> QED BY <2>1, <2>2, <2>3, <2>4 DEF TypeOK
<1>19. ASSUME NEW a \in Admins, Confirm(a)
     PROVE  TypeOK'
  <2>1. DbTypeOK'
    <3>1. adm[a] \in Pids /\ seen[a] \in Libraries
      BY <1>19 DEF Confirm, LibTypeOK
    <3>2. seen[a].gold[adm[a]] \in 0 .. MaxGen
          /\ seen[a].gold[adm[a]] <= gen /\ gen < MaxGen
      BY <1>19, <3>1, LibraryTypes DEF Confirm, Current, GoldCounted
    <3>3. seen[a].gold[adm[a]] + 1 \in 0 .. MaxGen /\ gen + 1 \in 0 .. MaxGen
      BY <3>2, SlowAssumption DEF DbTypeOK
    <3>4. seen[a].hits[adm[a]] \in SUBSET Reviews
      BY <3>1, LibraryTypes
    <3> QED BY <1>19, <3>3, <3>4 DEF Confirm, DbTypeOK
  <2>2. RoundTypeOK'
    BY <1>19 DEF Confirm, Return, RoundTypeOK, db, bench, work
  <2>3. LibTypeOK'
    BY <1>19, LibraryTypes DEF Confirm, Return, LibTypeOK, db, bench, work
  <2>4. tries' \in [Reviews -> 0 .. MaxRetries]
    BY <1>19 DEF Confirm
  <2> QED BY <2>1, <2>2, <2>3, <2>4 DEF TypeOK
<1>20. ASSUME NEW a \in Admins, GiveUp(a)
     PROVE  TypeOK'
  <2>1. DbTypeOK'
    BY <1>20, LibraryTypes, SlowAssumption DEF GiveUp, Return, DbTypeOK, LibTypeOK, db, bench, work
  <2>2. RoundTypeOK'
    BY <1>20 DEF GiveUp, Return, RoundTypeOK, db, bench, work
  <2>3. LibTypeOK'
    BY <1>20, LibraryTypes DEF GiveUp, Return, LibTypeOK, db, bench, work
  <2>4. tries' \in [Reviews -> 0 .. MaxRetries]
    BY <1>20 DEF GiveUp
  <2> QED BY <2>1, <2>2, <2>3, <2>4 DEF TypeOK
<1>21. CASE UNCHANGED vars
  BY <1>21 DEF vars, TypeOK, DbTypeOK, RoundTypeOK, LibTypeOK
<1> QED
  BY <1>1, <1>2, <1>3, <1>4, <1>5, <1>6, <1>7, <1>8, <1>9, <1>10, <1>11, <1>12, <1>13, <1>14, <1>15, <1>16, <1>17, <1>18, <1>19, <1>20, <1>21, StepCases
     DEF Next, Locked, Feedback

\* What a step does to the library of an instance: it is kept, dropped, or a
\* review is matched in it, or in the table as just loaded.
LibStep(c) ==
  \/ lib'[c] = lib[c] /\ loaded'[c] = loaded[c]
  \/ lib'[c] = NoLibrary /\ ~loaded'[c]
  \/ \E p \in Pids, r \in Reviews :
       /\ loaded'[c]
       /\ lib'[c] = Matched(IF loaded[c] THEN lib[c] ELSE Stored, p, r)

\* Every step is one of these for every instance.
LEMMA LibSteps ==
  ASSUME TypeOK, [Next]_vars, NEW d \in Cores
  PROVE  LibStep(d) /\ (phase'[d] = "persist" => loaded'[d] \/ phase[d] = "persist")
                    /\ (phase'[d] = "persist" /\ phase[d] = "persist" => loaded'[d] = loaded[d])
<1> USE DEF LibStep
<1>0. phase \in [Cores -> {"idle", "round", "persist", "bump"}]
      /\ loaded \in [Cores -> BOOLEAN] /\ lib \in [Cores -> Libraries]
  BY DEF TypeOK, RoundTypeOK, LibTypeOK
<1>1. ASSUME NEW c \in Cores, Start(c) \/ EndRound(c) \/ LockedWrite(c) \/ LockedBegin(c)
      PROVE  LibStep(d) /\ (phase'[d] = "persist" => phase[d] = "persist")
                        /\ loaded' = loaded
  BY <1>0, <1>1 DEF Start, EndRound, LockedWrite, LockedBegin, Leave
<1>2. ASSUME NEW c \in Cores, Crash(c) \/ ReadPending(c)
      PROVE  LibStep(d) /\ (phase'[d] = "persist" => phase[d] = "persist")
                        /\ (phase'[d] = "persist" => loaded'[d] = loaded[d])
  BY <1>0, <1>2 DEF Crash, ReadPending, Leave, Unload
<1>3. ASSUME NEW c \in Cores, NEW e \in plan[c],
             Claim(c, e) \/ Resume(c, e) \/ TakeOver(c, e) \/ Finalize(c, e) \/ Skip(c, e)
      PROVE  lib' = lib /\ loaded' = loaded /\ phase' = phase
  BY <1>3 DEF Claim, Resume, TakeOver, Finalize, Skip
<1>4. ASSUME NEW c \in Cores, NEW e \in batch[c], Compute(c, e)
      PROVE  LibStep(d) /\ (phase'[d] = "persist" => loaded'[d] \/ phase[d] = "persist")
                        /\ (phase[d] = "persist" => loaded'[d] = loaded[d])
  <2>1. e.r \in Reviews
    BY Parts DEF TypeOK, RoundTypeOK
  <2>2. PICK p \in Pids :
          lib' = [lib EXCEPT ![c] =
                    Matched(IF loaded[c] THEN lib[c] ELSE Stored, p, e.r)]
    BY <1>4 DEF Compute, Matches, Known
  <2>3. loaded' = [loaded EXCEPT ![c] = TRUE] /\ phase' = [phase EXCEPT ![c] = "persist"]
        /\ phase[c] = "round"
    BY <1>4 DEF Compute, Rounding
  <2>4. CASE d = c
    BY <1>0, <2>1, <2>2, <2>3, <2>4
  <2>5. CASE d # c
    BY <1>0, <2>2, <2>3, <2>5
  <2> QED BY <2>4, <2>5
<1>5. ASSUME NEW c \in Cores, NEW e \in batch[c],
             Persist(c, e) \/ Conflict(c, e) \/ Fail(c, e) \/ Bump(c, e)
      PROVE  LibStep(d) /\ (phase'[d] = "persist" => phase[d] = "persist")
                        /\ (phase'[d] = "persist" => loaded'[d] = loaded[d])
  BY <1>0, <1>5 DEF Persist, Conflict, Fail, Bump, Done, Unload
<1>6. ASSUME NEW r \in Reviews, Age(r)
      PROVE  lib' = lib /\ loaded' = loaded /\ phase' = phase
  BY <1>6 DEF Age, work
<1>7. ASSUME NEW a \in Admins, Feedback(a)
      PROVE  lib' = lib /\ loaded' = loaded /\ phase' = phase
  BY <1>7 DEF Feedback, Load, Confirm, GiveUp, work
<1>8. CASE UNCHANGED vars
  BY <1>8 DEF vars
<1> QED
  BY <1>1, <1>2, <1>3, <1>4, <1>5, <1>6, <1>7, <1>8, StepCases DEF Next, Locked

\* The library of a step is well typed and no newer than the table, and it holds
\* the feedback of the table when it is as new.
LEMMA LibFresh ==
  ASSUME TypeOK, GoldCounted, GoldFresh, NEW d \in Cores, LibStep(d)
  PROVE  /\ lib'[d].gen <= gen
         /\ \A p \in Pids : lib'[d].gold[p] <= lib'[d].gen
         /\ loaded'[d] /\ lib'[d].gen = gen => lib'[d].gold = gold
<1>1. lib[d] \in Libraries /\ Stored \in Libraries /\ gen \in Nat
  BY LibraryTypes, SlowAssumption DEF TypeOK, LibTypeOK, DbTypeOK
<1>2. NoLibrary.gen = 0 /\ \A p \in Pids : NoLibrary.gold[p] = 0
  BY DEF NoLibrary
<1>3. Stored.gen = gen /\ Stored.gold = gold
  BY DEF Stored
<1>4. CASE lib'[d] = lib[d] /\ loaded'[d] = loaded[d]
  BY <1>4 DEF GoldCounted, GoldFresh
<1>5. CASE lib'[d] = NoLibrary /\ ~loaded'[d]
  BY <1>1, <1>2, <1>5
<1>6. ASSUME NEW p \in Pids, NEW r \in Reviews,
             lib'[d] = Matched(IF loaded[d] THEN lib[d] ELSE Stored, p, r)
      PROVE  /\ lib'[d].gen <= gen
             /\ \A q \in Pids : lib'[d].gold[q] <= lib'[d].gen
             /\ lib'[d].gen = gen => lib'[d].gold = gold
  <2>1. CASE loaded[d]
    <3>1. lib'[d] = Matched(lib[d], p, r)
      BY <1>6, <2>1
    <3>2. Matched(lib[d], p, r).gen = lib[d].gen /\ Matched(lib[d], p, r).gold = lib[d].gold
      BY <1>1, MatchInMemory
    <3>3. lib'[d].gen = lib[d].gen /\ lib'[d].gold = lib[d].gold
      BY <3>1, <3>2
    <3> QED BY <2>1, <3>3 DEF GoldCounted, GoldFresh
  <2>2. CASE ~loaded[d]
    <3>1. lib'[d] = Matched(Stored, p, r)
      BY <1>6, <2>2
    <3>2. Matched(Stored, p, r).gen = gen /\ Matched(Stored, p, r).gold = gold
      BY <1>1, <1>3, MatchInMemory
    <3>3. lib'[d].gen = gen /\ lib'[d].gold = gold
      BY <3>1, <3>2
    <3> QED BY <1>1, <3>3 DEF GoldCounted
  <2> QED BY <2>1, <2>2
<1> QED BY <1>4, <1>5, <1>6 DEF LibStep

\* What a step does to what a request has loaded.
SeenStep(b) ==
  \/ adm'[b] = adm[b] /\ seen'[b] = seen[b]
  \/ adm'[b] = 0 /\ seen'[b] = NoLibrary
  \/ seen'[b] = Stored

\* Every step is one of these, and changes the feedback of the table, or its
\* generation, only when it is a confirmation that has seen this generation.
LEMMA TableSteps ==
  ASSUME TypeOK, GoldFresh, [Next]_vars
  PROVE  /\ \A b \in Admins : SeenStep(b)
         /\ \/ gold' = gold /\ gen' = gen
            \/ /\ \E a \in Admins : Confirm(a)
               /\ lib' = lib /\ loaded' = loaded /\ phase' = phase
<1> USE DEF SeenStep
<1>0. adm \in [Admins -> Pids \cup {0}] /\ seen \in [Admins -> Libraries]
  BY DEF TypeOK, LibTypeOK
<1>1. ASSUME NEW c \in Cores,
             Start(c) \/ EndRound(c) \/ LockedWrite(c) \/ LockedBegin(c) \/ Crash(c)
             \/ ReadPending(c)
      PROVE  gold' = gold /\ gen' = gen /\ adm' = adm /\ seen' = seen
  BY <1>1 DEF Start, EndRound, LockedWrite, LockedBegin, Crash, ReadPending, db, bench
<1>2. ASSUME NEW c \in Cores, NEW e \in plan[c],
             Claim(c, e) \/ Resume(c, e) \/ TakeOver(c, e) \/ Finalize(c, e) \/ Skip(c, e)
      PROVE  gold' = gold /\ gen' = gen /\ adm' = adm /\ seen' = seen
  BY <1>2 DEF Claim, Resume, TakeOver, Finalize, Skip, db, bench
<1>3. ASSUME NEW c \in Cores, NEW e \in batch[c],
             Compute(c, e) \/ Conflict(c, e) \/ Fail(c, e) \/ Bump(c, e)
      PROVE  gold' = gold /\ gen' = gen /\ adm' = adm /\ seen' = seen
  BY <1>3 DEF Compute, Conflict, Fail, Bump, db, bench
<1>4. ASSUME NEW c \in Cores, NEW e \in batch[c], Persist(c, e)
      PROVE  gold' = gold /\ gen' = gen /\ adm' = adm /\ seen' = seen
  <2>1. loaded[c] /\ lib[c].gold = gold
    BY <1>4 DEF Persist, Working, Current, GoldFresh
  <2>2. gold' = [p \in Pids |-> IF p \in Known(lib[c]) THEN lib[c].gold[p] ELSE gold[p]]
        /\ gen' = gen /\ adm' = adm /\ seen' = seen
    BY <1>4 DEF Persist, bench
  <2>3. gold \in [Pids -> 0 .. MaxGen]
    BY DEF TypeOK, DbTypeOK
  <2> QED BY <2>1, <2>2, <2>3
<1>5. ASSUME NEW r \in Reviews, Age(r)
      PROVE  gold' = gold /\ gen' = gen /\ adm' = adm /\ seen' = seen
  BY <1>5 DEF Age, bench
<1>6. ASSUME NEW a \in Admins, NEW p \in Pids, Load(a, p)
      PROVE  gold' = gold /\ gen' = gen /\ \A b \in Admins : SeenStep(b)
  BY <1>0, <1>6 DEF Load, db
<1>7. ASSUME NEW a \in Admins, Confirm(a)
      PROVE  (lib' = lib /\ loaded' = loaded /\ phase' = phase) /\ \A b \in Admins : SeenStep(b)
  BY <1>0, <1>7 DEF Confirm, Return, work
<1>8. ASSUME NEW a \in Admins, GiveUp(a)
      PROVE  gold' = gold /\ gen' = gen /\ \A b \in Admins : SeenStep(b)
  BY <1>0, <1>8 DEF GiveUp, Return, db
<1>9. CASE UNCHANGED vars
  BY <1>9 DEF vars
<1> QED
  BY <1>1, <1>2, <1>3, <1>4, <1>5, <1>6, <1>7, <1>8, <1>9, StepCases
     DEF Next, Locked, Feedback

\* A confirmation adds one to the feedback of one row and begins a generation.
LEMMA ConfirmStep ==
  ASSUME TypeOK, GoldFresh, NEW a \in Admins, Confirm(a)
  PROVE  /\ gen' = gen + 1
         /\ adm[a] \in Pids
         /\ gold' = [gold EXCEPT ![adm[a]] = @ + 1]
<1>1. gen' = gen + 1 /\ adm[a] \in Pids /\ seen[a].gold = gold
      /\ gold' = [gold EXCEPT ![adm[a]] = seen[a].gold[adm[a]] + 1]
  BY DEF Confirm, Current, GoldFresh, TypeOK, LibTypeOK
<1> QED BY <1>1 DEF TypeOK, DbTypeOK

\* The initial state has no feedback.
LEMMA GoldInit == Init => GoldCounted /\ GoldFresh
  BY SlowAssumption DEF Init, GoldCounted, GoldFresh, NoLibrary

\* Every step keeps libraries and rows no newer, and no richer, than the table.
LEMMA GoldStep == TypeOK /\ GoldCounted /\ GoldFresh /\ [Next]_vars
                    => GoldCounted' /\ GoldFresh'
<1> SUFFICES ASSUME TypeOK, GoldCounted, GoldFresh, [Next]_vars
             PROVE  GoldCounted' /\ GoldFresh'
  OBVIOUS
<1>0. gen \in Nat /\ gold \in [Pids -> Nat] /\ lib \in [Cores -> Libraries]
      /\ seen \in [Admins -> Libraries]
  BY SlowAssumption DEF TypeOK, DbTypeOK, LibTypeOK
<1>1. \A d \in Cores : phase'[d] = "persist" => loaded'[d]
  BY LibSteps DEF GoldFresh
<1>2. /\ NoLibrary.gen = 0 /\ \A p \in Pids : NoLibrary.gold[p] = 0
      /\ Stored.gen = gen /\ Stored.gold = gold
  BY DEF NoLibrary, Stored
<1>3. \A b \in Admins :
        /\ seen'[b].gen <= gen
        /\ \A p \in Pids : seen'[b].gold[p] <= seen'[b].gen
        /\ adm'[b] # 0 /\ seen'[b].gen = gen => seen'[b].gold = gold
  BY <1>0, <1>2, TableSteps DEF SeenStep, GoldCounted, GoldFresh
<1>4. CASE gold' = gold /\ gen' = gen
  BY <1>1, <1>3, <1>4, LibSteps, LibFresh DEF GoldCounted, GoldFresh
<1>5. ASSUME NEW a \in Admins, Confirm(a), lib' = lib, loaded' = loaded, phase' = phase
      PROVE  GoldCounted' /\ GoldFresh'
  <2>1. gen' = gen + 1 /\ \A p \in Pids : gold'[p] <= gold[p] + 1
    BY <1>0, <1>5, ConfirmStep
  <2>2. \A p \in Pids : gold'[p] <= gen'
    <3>1. \A p \in Pids : gold[p] <= gen /\ gold[p] \in Nat
      BY <1>0 DEF GoldCounted
    <3>2. \A p \in Pids : gold'[p] \in Nat
      BY <1>0, <1>5, ConfirmStep
    <3> QED BY <1>0, <2>1, <3>1, <3>2
  <2>3. \A d \in Cores : lib'[d].gen \in Nat /\ lib'[d].gen <= gen
    BY <1>0, <1>5, LibraryTypes DEF GoldFresh
  <2>4. seen' \in [Admins -> Libraries]
    BY TypeStep DEF TypeOK, LibTypeOK
  <2>5. \A b \in Admins : seen'[b].gen \in Nat
    BY <2>4, LibraryTypes
  <2>6. GoldCounted'
    BY <1>3, <1>5, <2>2 DEF GoldCounted
  <2>7. GoldFresh'
    BY <1>0, <1>1, <1>3, <2>1, <2>3, <2>5 DEF GoldFresh
  <2> QED BY <2>6, <2>7
<1> QED BY <1>4, <1>5, TableSteps

\* Every reachable state is well typed.
THEOREM TypeCorrect == Spec => []TypeOK
<1>1. Init => TypeOK /\ GoldCounted /\ GoldFresh
  BY TypeInit, GoldInit
<1>2. TypeOK /\ GoldCounted /\ GoldFresh /\ [Next]_vars
        => (TypeOK /\ GoldCounted /\ GoldFresh)'
  BY TypeStep, GoldStep
<1> QED BY <1>1, <1>2, PTL DEF Spec

\* A library at the current generation holds the feedback of the table.
THEOREM LibrariesFresh == Spec => [](TypeOK /\ GoldFresh)
<1>1. Init => TypeOK /\ GoldCounted /\ GoldFresh
  BY TypeInit, GoldInit
<1>2. TypeOK /\ GoldCounted /\ GoldFresh /\ [Next]_vars
        => (TypeOK /\ GoldCounted /\ GoldFresh)'
  BY TypeStep, GoldStep
<1> QED BY <1>1, <1>2, PTL DEF Spec

\* Feedback of an administrator is never taken back.
THEOREM FeedbackIsKept == Spec => FeedbackKept
<1>1. TypeOK /\ GoldFresh /\ [Next]_vars => \A p \in Pids : gold[p] <= gold'[p]
  <2> SUFFICES ASSUME TypeOK, GoldFresh, [Next]_vars, NEW p \in Pids
               PROVE  gold[p] <= gold'[p]
    OBVIOUS
  <2>1. gold \in [Pids -> Nat]
    BY SlowAssumption DEF TypeOK, DbTypeOK
  <2> QED BY <2>1, TableSteps, ConfirmStep
<1>2. TypeOK /\ GoldFresh /\ [Next]_vars => [\A p \in Pids : gold[p] <= gold'[p]]_vars
  BY <1>1
<1> QED BY <1>2, LibrariesFresh, PTL DEF Spec, FeedbackKept
-------------------------------------------------------------------------------
(***************************************************************************)
(* What the slow system keeps, for any instances, administrators and       *)
(* bounds: who may settle a review, which reviews a pattern counts, and    *)
(* when a review is given up.                                              *)
(***************************************************************************)

\* The actions on a row of a plan and on an entry of a batch.
OnRow(c, e) == Claim(c, e) \/ Resume(c, e) \/ TakeOver(c, e) \/ Finalize(c, e) \/ Skip(c, e)
OnEntry(c, e) ==
  Compute(c, e) \/ Persist(c, e) \/ Conflict(c, e) \/ Fail(c, e) \/ Bump(c, e)
Alone(c) == Start(c) \/ Crash(c) \/ ReadPending(c) \/ EndRound(c) \/ Locked(c)

\* Every step is one of these.
LEMMA NextCases ==
  ASSUME [Next]_vars
  PROVE  \/ \E c \in Cores : Alone(c)
         \/ \E c \in Cores : \E e \in plan[c] : OnRow(c, e)
         \/ \E c \in Cores : \E e \in batch[c] : OnEntry(c, e)
         \/ \E r \in Reviews : Age(r)
         \/ \E a \in Admins : Feedback(a)
         \/ UNCHANGED vars
  BY StepCases DEF Next, Alone, OnRow, OnEntry

-----------------------------------------------------------------------------
\* A review is given up after as many failed attempts as its count says, and no
\* count, written or about to be, is above the attempts that really failed.
CountsBacked ==
  /\ \A r \in Reviews : retry[r] <= tries[r]
  /\ \A c \in Cores : \A e \in batch[c] :
       phase[c] = "bump" /\ Oldest(e, batch[c]) => val[c] <= tries[e.r]

\* A step that counts nothing and gives nothing up.
CountsNothing ==
  /\ tries' = tries /\ retry' = retry
  /\ \A r \in Reviews : seg'[r] = "failed" => seg[r] = "failed"
  /\ \A c \in Cores : phase'[c] = "bump" =>
       phase[c] = "bump" /\ val'[c] = val[c] /\ batch'[c] = batch[c]

\* Only a failed attempt, the writing of its count and a finalization are others.
LEMMA CountSteps ==
  ASSUME TypeOK, [Next]_vars
  PROVE  \/ CountsNothing
         \/ \E c \in Cores : \E e \in batch[c] : Fail(c, e) \/ Bump(c, e)
         \/ \E c \in Cores : \E e \in plan[c] : Finalize(c, e)
<1> USE DEF CountsNothing
<1>0. /\ phase \in [Cores -> {"idle", "round", "persist", "bump"}]
      /\ val \in [Cores -> 0 .. MaxRetries] /\ batch \in [Cores -> SUBSET Claims]
      /\ plan \in [Cores -> SUBSET Rows]
      /\ seg \in [Reviews -> {"none", "claim", "done", "failed"}]
  BY DEF TypeOK, RoundTypeOK, DbTypeOK
<1>1. ASSUME NEW c \in Cores, Alone(c)
      PROVE  CountsNothing
  BY <1>0, <1>1 DEF Alone, Start, Crash, ReadPending, EndRound, Locked, LockedWrite,
                    LockedBegin, Leave, db
<1>2. ASSUME NEW c \in Cores, NEW e \in plan[c], OnRow(c, e), ~Finalize(c, e)
      PROVE  CountsNothing
  <2>1. phase[c] = "round" /\ phase' = phase /\ val' = val /\ tries' = tries /\ retry' = retry
    BY <1>2 DEF OnRow, Claim, Resume, TakeOver, Skip, Looking, db
  <2>2. \A d \in Cores : d # c => batch'[d] = batch[d]
    BY <1>0, <1>2 DEF OnRow, Claim, Resume, TakeOver, Skip, WriteClaim
  <2>3. \A r \in Reviews : seg'[r] = "failed" => seg[r] = "failed"
    BY <1>0, <1>2 DEF OnRow, Claim, Resume, TakeOver, Skip, WriteClaim, db
  <2> QED BY <2>1, <2>2, <2>3
<1>3. ASSUME NEW c \in Cores, NEW e \in batch[c],
             Compute(c, e) \/ Persist(c, e) \/ Conflict(c, e)
      PROVE  CountsNothing
  BY <1>0, <1>3 DEF Compute, Persist, Conflict, Done, db
<1>4. ASSUME NEW r \in Reviews, Age(r)
      PROVE  CountsNothing
  BY <1>4 DEF Age, work
<1>5. ASSUME NEW a \in Admins, Feedback(a)
      PROVE  CountsNothing
  BY <1>5 DEF Feedback, Load, Confirm, GiveUp, work, db
<1>6. CASE UNCHANGED vars
  BY <1>6 DEF vars
<1> QED
  BY <1>1, <1>2, <1>3, <1>4, <1>5, <1>6, NextCases DEF OnEntry

\* Every step keeps the counts backed by attempts.
LEMMA CountStep ==
  TypeOK /\ CountsBacked /\ FailedOnlyExhausted /\ [Next]_vars
    => CountsBacked' /\ FailedOnlyExhausted'
<1> SUFFICES ASSUME TypeOK, CountsBacked, FailedOnlyExhausted, [Next]_vars
             PROVE  CountsBacked' /\ FailedOnlyExhausted'
  OBVIOUS
<1>0. /\ phase \in [Cores -> {"idle", "round", "persist", "bump"}]
      /\ val \in [Cores -> 0 .. MaxRetries] /\ batch \in [Cores -> SUBSET Claims]
      /\ plan \in [Cores -> SUBSET Rows] /\ MaxRetries \in Nat
      /\ retry \in [Reviews -> 0 .. MaxRetries] /\ tries \in [Reviews -> 0 .. MaxRetries]
      /\ seg \in [Reviews -> {"none", "claim", "done", "failed"}]
  BY SlowAssumption DEF TypeOK, RoundTypeOK, DbTypeOK
<1>a. \A c \in Cores : \A e \in batch[c] : e.r \in Reviews
  BY <1>0, Parts
<1>b. \A c \in Cores : \A e \in plan[c] : e.r \in Reviews
  BY <1>0, Parts
<1>1. CASE CountsNothing
  <2>1. CountsBacked'
    BY <1>0, <1>a, <1>1 DEF CountsNothing, CountsBacked, Oldest
  <2>2. FailedOnlyExhausted'
    BY <1>1 DEF CountsNothing, FailedOnlyExhausted
  <2> QED BY <2>1, <2>2
<1>2. ASSUME NEW c \in Cores, NEW e \in batch[c], Fail(c, e)
      PROVE  CountsBacked' /\ FailedOnlyExhausted'
  <2> DEFINE n == Capped(retry[e.r] + 1)
             m == Capped(tries[e.r] + 1)
  <2>0. e.r \in Reviews
    BY <1>a
  <2>1. n <= m /\ tries[e.r] <= m /\ m \in 0 .. MaxRetries /\ n \in 0 .. MaxRetries
    BY <1>0, <2>0 DEF CountsBacked, Capped
  <2>2. /\ val' = [val EXCEPT ![c] = n] /\ tries' = [tries EXCEPT ![e.r] = m]
        /\ phase' = [phase EXCEPT ![c] = "bump"] /\ batch' = batch
        /\ retry' = retry /\ seg' = seg /\ Oldest(e, batch[c])
    BY <1>2 DEF Fail, db, Working
  <2> HIDE DEF n, m
  <2>3. \A r \in Reviews : /\ tries[r] \in Nat /\ tries'[r] \in Nat
                          /\ tries[r] <= tries'[r] /\ tries'[r] <= MaxRetries
    BY <1>0, <2>0, <2>1, <2>2
  <2>4. ASSUME NEW r \in Reviews
        PROVE  retry'[r] <= tries'[r]
    <3>1. retry'[r] = retry[r] /\ retry[r] <= tries[r] /\ retry[r] \in Nat
      BY <1>0, <2>2 DEF CountsBacked
    <3> QED BY <2>3, <3>1
  <2>5. ASSUME NEW d \in Cores, NEW f \in batch[d], phase'[d] = "bump", Oldest(f, batch[d])
        PROVE  val'[d] <= tries'[f.r]
    <3>0. f.r \in Reviews
      BY <1>a
    <3>1. CASE d = c
      <4>1. f.r = e.r
        BY <1>0, <2>0, <2>2, <2>5, <3>0, <3>1 DEF Oldest, Reviews
      <4> QED BY <1>0, <2>0, <2>1, <2>2, <3>1, <4>1
    <3>2. CASE d # c
      <4>1. val[d] <= tries[f.r] /\ val'[d] = val[d] /\ val[d] \in Nat
        BY <1>0, <2>2, <2>5, <3>2 DEF CountsBacked
      <4> QED BY <1>0, <2>3, <3>0, <4>1
    <3> QED BY <3>1, <3>2
  <2>6. FailedOnlyExhausted'
    <3>1. ASSUME NEW r \in Reviews, seg[r] = "failed"
          PROVE  tries'[r] = MaxRetries
      BY <1>0, <2>3, <3>1 DEF FailedOnlyExhausted
    <3> QED BY <2>2, <3>1 DEF FailedOnlyExhausted
  <2> QED BY <2>2, <2>4, <2>5, <2>6 DEF CountsBacked
<1>3. ASSUME NEW c \in Cores, NEW e \in batch[c], Bump(c, e)
      PROVE  CountsBacked' /\ FailedOnlyExhausted'
  <2>0. e.r \in Reviews
    BY <1>a
  <2>1. /\ retry' = [retry EXCEPT ![e.r] = val[c]] /\ tries' = tries /\ seg' = seg
        /\ val' = [val EXCEPT ![c] = 0] /\ phase' = [phase EXCEPT ![c] = "round"]
        /\ batch' = [batch EXCEPT ![c] = @ \ {e}] /\ phase[c] = "bump" /\ Oldest(e, batch[c])
    BY <1>3 DEF Bump, Working, Done
  <2>2. \A r \in Reviews : retry'[r] <= tries'[r]
    BY <1>0, <2>0, <2>1 DEF CountsBacked
  <2>3. \A d \in Cores : \A f \in batch'[d] :
          phase'[d] = "bump" /\ Oldest(f, batch'[d]) => val'[d] <= tries'[f.r]
    BY <1>0, <2>1 DEF CountsBacked
  <2> QED BY <2>1, <2>2, <2>3 DEF CountsBacked, FailedOnlyExhausted
<1>4. ASSUME NEW c \in Cores, NEW e \in plan[c], Finalize(c, e)
      PROVE  CountsBacked' /\ FailedOnlyExhausted'
  <2>0. e.r \in Reviews
    BY <1>b
  <2>1. /\ seg' = [seg EXCEPT ![e.r] = "failed"] /\ retry[e.r] >= MaxRetries
        /\ retry' = retry /\ tries' = tries /\ val' = val /\ phase' = phase /\ batch' = batch
    BY <1>4 DEF Finalize, ToFinalize, Exhausted
  <2>2. tries[e.r] = MaxRetries
    BY <1>0, <2>0, <2>1 DEF CountsBacked
  <2> QED BY <1>0, <2>0, <2>1, <2>2 DEF CountsBacked, FailedOnlyExhausted
<1> QED BY <1>1, <1>2, <1>3, <1>4, CountSteps

-----------------------------------------------------------------------------
\* A row as read, or an entry as held, that still is the claim of the table, is
\* owned by who was read with it, or by who holds it: no text is used again while
\* somebody remembers it.
OwnersKnown ==
  /\ \A c \in Cores : \A e \in plan[c] : AsRead(e) => owner[e.r] = e.owner
  /\ \A c \in Cores : \A e \in batch[c] : AsRead(e) => owner[e.r] = c

\* What a step does to one review: nothing but its age, or a claim with a text that
\* nobody remembers, or its end.
Kept(r) == seg'[r] = seg[r] /\ owner'[r] = owner[r] /\ text'[r] = text[r] /\ pat'[r] = pat[r]
Claimed(c, r) ==
  /\ seg[r] = "none" \/ (seg[r] = "claim" /\ stale[r])
  /\ seg'[r] = "claim" /\ owner'[r] = c /\ text'[r] \in Texts /\ pat'[r] = pat[r]
  /\ text'[r] # text[r]
  /\ \A d \in Cores : \A f \in plan[d] \cup batch[d] : f.r = r => f.text # text'[r]
  /\ batch' = [batch EXCEPT ![c] = @ \cup {[r |-> r, text |-> text'[r]]}]
Ended(r) == seg[r] = "claim" /\ seg'[r] \in Terminal

\* Writing a claim does that to its review, and leaves the others.
LEMMA WriteClaimStep ==
  ASSUME TypeOK, NEW c \in Cores, NEW s \in Reviews, WriteClaim(c, s), pat' = pat,
         seg[s] = "none" \/ (seg[s] = "claim" /\ stale[s])
  PROVE  Claimed(c, s) /\ \A r \in Reviews \ {s} : Kept(r)
<1>1. PICK n \in Texts :
        /\ Unused(s, n)
        /\ seg' = [seg EXCEPT ![s] = "claim"] /\ owner' = [owner EXCEPT ![s] = c]
        /\ text' = [text EXCEPT ![s] = n]
        /\ batch' = [batch EXCEPT ![c] = @ \cup {[r |-> s, text |-> n]}]
  BY DEF WriteClaim
<1>2. seg'[s] = "claim" /\ owner'[s] = c /\ text'[s] = n
  BY <1>1 DEF TypeOK, DbTypeOK
<1>3. \A r \in Reviews \ {s} : Kept(r)
  BY <1>1 DEF TypeOK, DbTypeOK, Kept
<1> QED BY <1>1, <1>2, <1>3 DEF Claimed, Unused

\* A step on a row leaves all reviews, or claims or ends the one of the row.
LEMMA RowStep ==
  ASSUME TypeOK, NEW c \in Cores, NEW e \in plan[c], OnRow(c, e)
  PROVE  /\ plan' = [plan EXCEPT ![c] = @ \ {e}] /\ phase' = phase
         /\ \A r \in Reviews \ {e.r} : Kept(r)
         /\ \/ Kept(e.r) /\ batch' = batch
            \/ Kept(e.r) /\ e.owner = c
               /\ batch' = [batch EXCEPT ![c] = @ \cup {[r |-> e.r, text |-> e.text]}]
            \/ Claimed(c, e.r)
            \/ Ended(e.r) /\ stale[e.r] /\ seg'[e.r] = "failed" /\ batch' = batch
<1>0. e.r \in Reviews
  BY Parts DEF TypeOK, RoundTypeOK
<1>1. CASE Claim(c, e)
  <2>1. CASE seg[e.r] = "none"
    BY <1>0, <1>1, <2>1, WriteClaimStep DEF Claim, Looked
  <2>2. CASE seg[e.r] # "none"
    BY <1>0, <1>1, <2>2 DEF Claim, Looked, Kept
  <2> QED BY <2>1, <2>2
<1>2. CASE Resume(c, e)
  BY <1>0, <1>2 DEF Resume, Looked, ToResume, Kept, db
<1>3. CASE TakeOver(c, e)
  BY <1>0, <1>3, WriteClaimStep DEF TakeOver, Looked, ToTakeOver, Stale, AsRead
<1>4. CASE Finalize(c, e)
  BY <1>0, <1>4 DEF Finalize, Looked, ToFinalize, Stale, AsRead, Kept, Ended, Terminal, TypeOK,
     DbTypeOK
<1>5. CASE Skip(c, e)
  BY <1>0, <1>5 DEF Skip, Looked, Kept, db
<1> QED BY <1>1, <1>2, <1>3, <1>4, <1>5 DEF OnRow

\* A step on an entry leaves all reviews, or settles the one of the entry.
LEMMA EntryStep ==
  ASSUME TypeOK, NEW c \in Cores, NEW e \in batch[c], OnEntry(c, e)
  PROVE  /\ plan' = plan
         /\ \A d \in Cores : batch'[d] \subseteq batch[d]
         /\ \A r \in Reviews \ {e.r} : Kept(r)
         /\ \/ Kept(e.r)
            \/ Persist(c, e) /\ Ended(e.r) /\ seg'[e.r] = "done" /\ AsRead(e)
               /\ phase[c] = "persist"
<1>0. e.r \in Reviews
  BY Parts DEF TypeOK, RoundTypeOK
<1>1. CASE Persist(c, e)
  BY <1>0, <1>1 DEF Persist, Working, Done, AsRead, Kept, Ended, Terminal, TypeOK, DbTypeOK,
     RoundTypeOK
<1>2. CASE Compute(c, e) \/ Conflict(c, e) \/ Fail(c, e) \/ Bump(c, e)
  BY <1>0, <1>2 DEF Compute, Conflict, Fail, Bump, Done, Kept, db, TypeOK, RoundTypeOK
<1> QED BY <1>1, <1>2 DEF OnEntry

\* Any other step leaves all reviews; plans and batches are as before or empty, but
\* for the plan a round begins with.
LEMMA OtherStep ==
  ASSUME TypeOK, NEW c \in Cores, Alone(c)
  PROVE  /\ \A r \in Reviews : Kept(r)
         /\ \A d \in Cores : batch'[d] \subseteq batch[d]
         /\ \A d \in Cores : \A e \in plan'[d] :
              e \in plan[d] \/ (e.text = text[e.r] /\ (seg[e.r] = "none" \/ e.owner = owner[e.r]))
<1>1. CASE ReadPending(c)
  <2>1. plan' = [plan EXCEPT ![c] =
                  {[r |-> r, text |-> text[r],
                    owner |-> IF seg[r] = "none" THEN c ELSE owner[r]] : r \in Window}]
    BY <1>1 DEF ReadPending
  <2>2. \A e \in plan'[c] : e.text = text[e.r] /\ (seg[e.r] = "none" \/ e.owner = owner[e.r])
    BY <2>1 DEF TypeOK, RoundTypeOK
  <2>3. \A d \in Cores : d # c => plan'[d] = plan[d]
    BY <2>1 DEF TypeOK, RoundTypeOK
  <2>4. batch' = batch /\ \A r \in Reviews : Kept(r)
    BY <1>1 DEF ReadPending, Kept, db
  <2> QED BY <2>2, <2>3, <2>4
<1>2. CASE Start(c) \/ Crash(c) \/ EndRound(c) \/ Locked(c)
  BY <1>2 DEF Start, Crash, EndRound, Locked, LockedWrite, LockedBegin, Leave, Kept, db, TypeOK,
     RoundTypeOK
<1> QED BY <1>1, <1>2 DEF Alone

\* Time and the workbench leave all claims.
LEMMA OutsideStep ==
  ASSUME TypeOK, (\E r \in Reviews : Age(r)) \/ (\E a \in Admins : Feedback(a)) \/ UNCHANGED vars
  PROVE  plan' = plan /\ batch' = batch /\ phase' = phase /\ \A r \in Reviews : Kept(r)
<1>1. ASSUME NEW r \in Reviews, Age(r)
      PROVE  plan' = plan /\ batch' = batch /\ phase' = phase /\ \A s \in Reviews : Kept(s)
  BY <1>1 DEF Age, work, Kept
<1>2. ASSUME NEW a \in Admins, Feedback(a)
      PROVE  plan' = plan /\ batch' = batch /\ phase' = phase /\ \A s \in Reviews : Kept(s)
  BY <1>2 DEF Feedback, Load, Confirm, GiveUp, work, db, Kept
<1>3. CASE UNCHANGED vars
  BY <1>3 DEF vars, Kept
<1> QED BY <1>1, <1>2, <1>3

\* A review that is left, or is settled, leaves what was known of its owner.
LEMMA KeptKnown ==
  ASSUME NEW r \in Reviews, NEW x, Kept(r) \/ Ended(r), seg'[r] = "claim" /\ text'[r] = x
  PROVE  seg[r] = "claim" /\ text[r] = x /\ owner'[r] = owner[r]
  BY DEF Kept, Ended, Terminal

\* After a step of its own, too, the rows of a plan are of reviews.
LEMMA PlanAfter ==
  ASSUME TypeOK, NEW c \in Cores, Alone(c)
  PROVE  \A d \in Cores : \A f \in plan'[d] : f.r \in Reviews
<1>0. plan \in [Cores -> SUBSET Rows] /\ \A d \in Cores : \A f \in plan[d] : f.r \in Reviews
  BY Parts DEF TypeOK, RoundTypeOK
<1>1. CASE ReadPending(c)
  <2>1. plan' = [plan EXCEPT ![c] =
                  {[r |-> r, text |-> text[r],
                    owner |-> IF seg[r] = "none" THEN c ELSE owner[r]] : r \in Window}]
    BY <1>1 DEF ReadPending
  <2>2. \A f \in plan'[c] : f.r \in Window
    BY <1>0, <2>1
  <2>3. Window \subseteq Reviews
    BY DEF Window, Open
  <2> QED BY <1>0, <2>1, <2>2, <2>3
<1>2. CASE Start(c) \/ Crash(c) \/ EndRound(c) \/ Locked(c)
  BY <1>0, <1>2 DEF Start, Crash, EndRound, Locked, LockedWrite, LockedBegin, Leave
<1> QED BY <1>1, <1>2 DEF Alone

\* Every step keeps the owners known.
LEMMA OwnersStep == TypeOK /\ OwnersKnown /\ [Next]_vars => OwnersKnown'
<1> SUFFICES ASSUME TypeOK, OwnersKnown, [Next]_vars
             PROVE  OwnersKnown'
  OBVIOUS
<1>0. \A d \in Cores : \A f \in plan[d] \cup batch[d] : f.r \in Reviews
  BY Parts DEF TypeOK, RoundTypeOK
<1>1. ASSUME NEW c \in Cores, NEW e \in plan[c], OnRow(c, e)
      PROVE  OwnersKnown'
  <2>0. e.r \in Reviews /\ batch \in [Cores -> SUBSET Claims] /\ plan \in [Cores -> SUBSET Rows]
    BY <1>0 DEF TypeOK, RoundTypeOK
  <2>1. \A d \in Cores : plan'[d] \subseteq plan[d]
    BY <1>1, <2>0, RowStep
  <2>2. CASE (Kept(e.r) /\ batch' = batch) \/ (Ended(e.r) /\ batch' = batch)
    <3>1. \A r \in Reviews : Kept(r) \/ Ended(r)
      BY <1>1, <2>2, RowStep
    <3> QED BY <1>0, <2>1, <2>2, <3>1, KeptKnown DEF OwnersKnown, AsRead
  <2>3. CASE Kept(e.r) /\ e.owner = c
             /\ batch' = [batch EXCEPT ![c] = @ \cup {[r |-> e.r, text |-> e.text]}]
    <3>1. \A r \in Reviews : Kept(r)
      BY <1>1, <2>3, RowStep
    <3>2. \A d \in Cores : \A f \in batch'[d] :
            f \in batch[d] \/ (d = c /\ f.r = e.r /\ f.text = e.text)
      BY <2>0, <2>3
    <3>3. AsRead(e) => owner[e.r] = c
      BY <2>3 DEF OwnersKnown
    <3> QED BY <1>0, <2>0, <2>1, <3>1, <3>2, <3>3 DEF OwnersKnown, AsRead, Kept
  <2>4. CASE Claimed(c, e.r)
    <3>1. \A r \in Reviews \ {e.r} : Kept(r)
      BY <1>1, RowStep
    <3>2. /\ owner'[e.r] = c
          /\ \A d \in Cores : \A f \in plan[d] \cup batch[d] : f.r = e.r => f.text # text'[e.r]
          /\ batch' = [batch EXCEPT ![c] = @ \cup {[r |-> e.r, text |-> text'[e.r]]}]
      BY <2>4 DEF Claimed
    <3>3. \A d \in Cores : \A f \in batch'[d] :
            f \in batch[d] \/ (d = c /\ f.r = e.r /\ f.text = text'[e.r])
      BY <2>0, <3>2
    <3>4. ASSUME NEW d \in Cores, NEW f \in plan'[d], AsRead(f)'
          PROVE  owner'[f.r] = f.owner
      BY <1>0, <2>1, <3>1, <3>2, <3>4 DEF OwnersKnown, AsRead, Kept
    <3>5. ASSUME NEW d \in Cores, NEW f \in batch'[d], AsRead(f)'
          PROVE  owner'[f.r] = d
      BY <1>0, <3>1, <3>2, <3>3, <3>5 DEF OwnersKnown, AsRead, Kept
    <3> QED BY <3>4, <3>5 DEF OwnersKnown
  <2> QED BY <1>1, <2>2, <2>3, <2>4, RowStep
<1>2. ASSUME NEW c \in Cores, NEW e \in batch[c], OnEntry(c, e)
      PROVE  OwnersKnown'
  <2>1. \A r \in Reviews : Kept(r) \/ Ended(r)
    BY <1>2, EntryStep
  <2>2. plan' = plan /\ \A d \in Cores : batch'[d] \subseteq batch[d]
    BY <1>2, EntryStep
  <2> QED BY <1>0, <2>1, <2>2, KeptKnown DEF OwnersKnown, AsRead
<1>3. ASSUME NEW c \in Cores, Alone(c)
      PROVE  OwnersKnown'
  <2>1. \A d \in Cores : \A f \in plan'[d] : f.r \in Reviews
    BY <1>3, PlanAfter
  <2>2. ASSUME NEW d \in Cores, NEW f \in plan'[d], AsRead(f)'
        PROVE  owner'[f.r] = f.owner
    BY <1>3, <2>1, <2>2, OtherStep DEF OwnersKnown, AsRead, Kept
  <2>3. ASSUME NEW d \in Cores, NEW f \in batch'[d], AsRead(f)'
        PROVE  owner'[f.r] = d
    BY <1>0, <1>3, <2>3, OtherStep DEF OwnersKnown, AsRead, Kept
  <2> QED BY <2>2, <2>3 DEF OwnersKnown
<1>4. CASE (\E r \in Reviews : Age(r)) \/ (\E a \in Admins : Feedback(a)) \/ UNCHANGED vars
  BY <1>0, <1>4, OutsideStep DEF OwnersKnown, AsRead, Kept
<1> QED BY <1>1, <1>2, <1>3, <1>4, NextCases

\* A step that touches a settled review, or a fresh claim, is the one of its owner.
LEMMA HeldStep ==
  ASSUME TypeOK, OwnersKnown, [Next]_vars, NEW r \in Reviews
  PROVE  /\ seg[r] \in Terminal => seg'[r] = seg[r] /\ pat'[r] = pat[r]
         /\ seg[r] = "claim" /\ ~stale[r] =>
              \/ seg'[r] = seg[r] /\ text'[r] = text[r] /\ owner'[r] = owner[r]
              \/ /\ phase[owner[r]] = "persist"
                 /\ [r |-> r, text |-> text[r]] \in batch[owner[r]]
                 /\ seg'[r] = "done"
<1> DEFINE P == /\ seg[r] \in Terminal => seg'[r] = seg[r] /\ pat'[r] = pat[r]
                /\ seg[r] = "claim" /\ ~stale[r] =>
                     \/ seg'[r] = seg[r] /\ text'[r] = text[r] /\ owner'[r] = owner[r]
                     \/ /\ phase[owner[r]] = "persist"
                        /\ [r |-> r, text |-> text[r]] \in batch[owner[r]]
                        /\ seg'[r] = "done"
<1>1. CASE Kept(r)
  BY <1>1 DEF Kept
<1>2. ASSUME NEW c \in Cores, NEW e \in plan[c], OnRow(c, e)
      PROVE  P
  BY <1>1, <1>2, RowStep DEF Claimed, Ended, Terminal
<1>3. ASSUME NEW c \in Cores, NEW e \in batch[c], OnEntry(c, e), ~Kept(r)
      PROVE  P
  <2>1. /\ r = e.r /\ Ended(r) /\ seg'[r] = "done" /\ AsRead(e) /\ phase[c] = "persist"
    BY <1>3, EntryStep
  <2>2. owner[r] = c /\ e.text = text[r]
    BY <2>1 DEF OwnersKnown, AsRead
  <2>3. e = [r |-> r, text |-> text[r]]
    BY <2>1, <2>2 DEF TypeOK, RoundTypeOK, Claims
  <2> QED BY <2>1, <2>2, <2>3 DEF Ended, Terminal
<1>4. ASSUME NEW c \in Cores, Alone(c)
      PROVE  Kept(r)
  BY <1>4, OtherStep
<1>5. CASE (\E s \in Reviews : Age(s)) \/ (\E a \in Admins : Feedback(a)) \/ UNCHANGED vars
  BY <1>1, <1>5, OutsideStep
<1> QED BY <1>1, <1>2, <1>3, <1>4, <1>5, NextCases

-----------------------------------------------------------------------------
\* r is settled with p; or c has matched it with p and not written that yet.
SettledWith(r, p) == seg[r] = "done" /\ pat[r] = p
Pending(c, r, p) ==
  phase[c] = "persist" /\ choice[c] = p /\ \E e \in batch[c] : Oldest(e, batch[c]) /\ e.r = r

\* A library in memory, or as loaded for a feedback, counts what is settled, and in
\* memory also the one review that is about to be.
LibrariesTrue ==
  /\ \A c \in Cores : \A p \in Pids : \A r \in lib[c].hits[p] :
       SettledWith(r, p) \/ Pending(c, r, p)
  /\ \A a \in Admins : \A p \in Pids : \A r \in seen[a].hits[p] : SettledWith(r, p)

\* What is settled stays settled with the same pattern.
LEMMA SettledStays ==
  ASSUME TypeOK, OwnersKnown, [Next]_vars, NEW r \in Reviews, NEW p, SettledWith(r, p)
  PROVE  SettledWith(r, p)'
  BY HeldStep DEF SettledWith, Terminal

\* The initial state counts nothing.
LEMMA GhostInit == Init => LibrariesTrue /\ NoGhost
  BY DEF Init, NoLibrary, LibrariesTrue, NoGhost

\* A step that is neither a match nor a settlement leaves what is pending, or drops the
\* library with it.
LibraryKept(c) ==
  \/ lib'[c] = NoLibrary
  \/ /\ lib'[c] = lib[c]
     /\ phase[c] = "persist" => phase'[c] = "persist" /\ choice'[c] = choice[c]
                                /\ batch'[c] = batch[c]
LEMMA LibraryKeptSteps ==
  ASSUME TypeOK, [Next]_vars
  PROVE  \/ /\ hits' = hits /\ \A c \in Cores : LibraryKept(c)
            /\ \A a \in Admins : seen'[a] = seen[a]
         \/ \E c \in Cores : \E e \in batch[c] : Compute(c, e) \/ Persist(c, e)
         \/ \E a \in Admins : Feedback(a)
<1> DEFINE Quiet == /\ hits' = hits /\ \A c \in Cores : LibraryKept(c)
                    /\ \A a \in Admins : seen'[a] = seen[a]
<1>0. /\ phase \in [Cores -> {"idle", "round", "persist", "bump"}]
      /\ lib \in [Cores -> Libraries] /\ batch \in [Cores -> SUBSET Claims]
      /\ choice \in [Cores -> Pids \cup {0}]
  BY DEF TypeOK, RoundTypeOK, LibTypeOK
<1>1. ASSUME NEW c \in Cores, Alone(c)
      PROVE  Quiet
  <2>1. CASE Start(c) \/ EndRound(c)
    BY <1>0, <2>1 DEF Start, EndRound, Rounding, LibraryKept, db, bench
  <2>2. CASE Crash(c)
    BY <1>0, <2>2 DEF Crash, Leave, Unload, LibraryKept, db, bench
  <2>3. CASE ReadPending(c)
    BY <1>0, <2>3 DEF ReadPending, Unload, LibraryKept, db, bench
  <2>4. CASE Locked(c)
    <3>1. phase[c] # "persist" /\ hits' = hits /\ seen' = seen /\ lib' = lib /\ choice' = choice
      BY <2>4 DEF Locked, LockedWrite, LockedBegin, Looking, db, bench
    <3>2. \A d \in Cores : d # c => phase'[d] = phase[d] /\ batch'[d] = batch[d]
      BY <1>0, <2>4 DEF Locked, LockedWrite, LockedBegin, Leave
    <3> QED BY <3>1, <3>2 DEF LibraryKept
  <2> QED BY <1>1, <2>1, <2>2, <2>3, <2>4 DEF Alone
<1>2. ASSUME NEW c \in Cores, NEW e \in plan[c], OnRow(c, e)
      PROVE  Quiet
  <2>1. /\ phase[c] = "round" /\ phase' = phase /\ lib' = lib /\ choice' = choice /\ hits' = hits
        /\ seen' = seen
    BY <1>2 DEF OnRow, Claim, Resume, TakeOver, Finalize, Skip, Looking, db, bench
  <2>2. \A d \in Cores : d # c => batch'[d] = batch[d]
    BY <1>0, <1>2 DEF OnRow, Claim, Resume, TakeOver, Finalize, Skip, WriteClaim
  <2> QED BY <2>1, <2>2 DEF LibraryKept
<1>3. ASSUME NEW c \in Cores, NEW e \in batch[c], Conflict(c, e) \/ Fail(c, e)
      PROVE  Quiet
  BY <1>0, <1>3 DEF Conflict, Fail, Done, Unload, LibraryKept, db, bench
<1>4. ASSUME NEW c \in Cores, NEW e \in batch[c], Bump(c, e)
      PROVE  Quiet
  BY <1>0, <1>4 DEF Bump, Working, Done, LibraryKept, bench
<1>5. ASSUME NEW r \in Reviews, Age(r)
      PROVE  Quiet
  BY <1>5 DEF Age, work, bench, LibraryKept
<1>6. CASE UNCHANGED vars
  BY <1>6 DEF vars, LibraryKept
<1> QED BY <1>1, <1>2, <1>3, <1>4, <1>5, <1>6, NextCases DEF OnEntry

\* Every step keeps the libraries true, and the table.
LEMMA GhostStep ==
  TypeOK /\ OwnersKnown /\ LibrariesTrue /\ NoGhost /\ [Next]_vars
    => LibrariesTrue' /\ NoGhost'
<1> SUFFICES ASSUME TypeOK, OwnersKnown, LibrariesTrue, NoGhost, [Next]_vars
             PROVE  LibrariesTrue' /\ NoGhost'
  OBVIOUS
<1>0. /\ phase \in [Cores -> {"idle", "round", "persist", "bump"}]
      /\ lib \in [Cores -> Libraries] /\ batch \in [Cores -> SUBSET Claims]
      /\ choice \in [Cores -> Pids \cup {0}] /\ seen \in [Admins -> Libraries]
      /\ adm \in [Admins -> Pids \cup {0}]
      /\ hits \in [Pids -> SUBSET Reviews]
  BY DEF TypeOK, RoundTypeOK, LibTypeOK, DbTypeOK
<1>a. /\ \A c \in Cores, p \in Pids : lib[c].hits[p] \subseteq Reviews
      /\ \A a \in Admins, p \in Pids : seen[a].hits[p] \subseteq Reviews
      /\ \A p \in Pids : hits[p] \subseteq Reviews
      /\ \A c \in Cores : \A e \in batch[c] : e.r \in Reviews
  BY <1>0, LibraryTypes, Parts
<1>b. \A p \in Pids : NoLibrary.hits[p] = {}
  BY DEF NoLibrary
<1>c. \A r \in Reviews, p \in Pids : SettledWith(r, p) => SettledWith(r, p)'
  BY SettledStays
<1>1. ASSUME hits' = hits, \A c \in Cores : LibraryKept(c), \A a \in Admins : seen'[a] = seen[a]
      PROVE  LibrariesTrue' /\ NoGhost'
  <2>1. ASSUME NEW c \in Cores, NEW p \in Pids, NEW r \in lib'[c].hits[p]
        PROVE  SettledWith(r, p)' \/ Pending(c, r, p)'
    <3>1. CASE lib'[c] = NoLibrary
      BY <1>b, <2>1, <3>1
    <3>2. CASE lib'[c] # NoLibrary
      <4>1. /\ r \in lib[c].hits[p]
            /\ phase[c] = "persist" => phase'[c] = "persist" /\ choice'[c] = choice[c]
                                       /\ batch'[c] = batch[c]
        BY <1>1, <2>1, <3>2 DEF LibraryKept
      <4> QED BY <1>a, <1>c, <4>1 DEF LibrariesTrue, Pending, Oldest
    <3> QED BY <3>1, <3>2
  <2>2. ASSUME NEW a \in Admins, NEW p \in Pids, NEW r \in seen'[a].hits[p]
        PROVE  SettledWith(r, p)'
    BY <1>1, <1>a, <1>c, <2>2 DEF LibrariesTrue
  <2>3. ASSUME NEW p \in Pids, NEW r \in hits'[p]
        PROVE  SettledWith(r, p)'
    BY <1>1, <1>a, <1>c, <2>3 DEF NoGhost, SettledWith
  <2> QED BY <2>1, <2>2, <2>3 DEF LibrariesTrue, NoGhost, SettledWith
<1>2. ASSUME NEW c \in Cores, NEW e \in batch[c], Compute(c, e)
      PROVE  LibrariesTrue' /\ NoGhost'
  <2> DEFINE l == IF loaded[c] THEN lib[c] ELSE Stored
  <2>0. /\ hits' = hits /\ seen' = seen /\ batch' = batch /\ Oldest(e, batch[c])
        /\ phase[c] = "round" /\ phase' = [phase EXCEPT ![c] = "persist"]
    BY <1>2 DEF Compute, Rounding, db, bench
  <2>1. PICK q \in Pids : /\ lib' = [lib EXCEPT ![c] = Matched(l, q, e.r)]
                          /\ choice' = [choice EXCEPT ![c] = q]
    BY <1>2 DEF Compute, Matches, Known
  <2>2. l \in Libraries /\ \A p \in Pids : \A r \in l.hits[p] : r \in Reviews /\ SettledWith(r, p)
    <3>1. CASE loaded[c]
      BY <1>0, <1>a, <2>0, <3>1 DEF LibrariesTrue, Pending
    <3>2. CASE ~loaded[c]
      BY <1>a, <3>2, LibraryTypes DEF Stored, NoGhost, SettledWith, TypeOK
    <3> QED BY <3>1, <3>2
  <2> HIDE DEF l
  <2>3. \A p \in Pids : \A r \in lib'[c].hits[p] : r \in l.hits[p] \/ (r = e.r /\ p = q)
    <3>1. lib'[c] = Matched(l, q, e.r)
      BY <1>0, <2>1
    <3>2. Matched(l, q, e.r).hits = [l.hits EXCEPT ![q] = @ \cup {e.r}]
      BY <1>a, <2>2, MatchInMemory
    <3>3. l.hits \in [Pids -> SUBSET Reviews]
      BY <2>2, LibraryTypes
    <3> QED BY <3>1, <3>2, <3>3
  <2>4. Pending(c, e.r, q)'
    <3>1. phase'[c] = "persist" /\ choice'[c] = q /\ batch'[c] = batch[c]
      BY <1>0, <2>0, <2>1
    <3> QED BY <2>0, <3>1 DEF Pending, Oldest
  <2>5. ASSUME NEW d \in Cores, NEW p \in Pids, NEW r \in lib'[d].hits[p]
        PROVE  SettledWith(r, p)' \/ Pending(d, r, p)'
    <3>1. CASE d = c
      BY <1>c, <2>2, <2>3, <2>4, <2>5, <3>1
    <3>2. CASE d # c
      <4>1. /\ lib'[d] = lib[d] /\ phase'[d] = phase[d] /\ choice'[d] = choice[d]
            /\ batch'[d] = batch[d]
        BY <1>0, <2>0, <2>1, <3>2
      <4> QED BY <1>a, <1>c, <2>5, <4>1 DEF LibrariesTrue, Pending, Oldest
    <3> QED BY <3>1, <3>2
  <2>6. \A a \in Admins : \A p \in Pids : \A r \in seen'[a].hits[p] : SettledWith(r, p)'
    BY <1>a, <1>c, <2>0 DEF LibrariesTrue
  <2>7. \A p \in Pids : \A r \in hits'[p] : SettledWith(r, p)'
    BY <1>a, <1>c, <2>0 DEF NoGhost, SettledWith
  <2> QED BY <2>5, <2>6, <2>7 DEF LibrariesTrue, NoGhost, SettledWith
<1>3. ASSUME NEW c \in Cores, NEW e \in batch[c], Persist(c, e)
      PROVE  LibrariesTrue' /\ NoGhost'
  <2>0. e.r \in Reviews
    BY <1>a
  <2>1. /\ lib' = lib /\ seen' = seen /\ phase[c] = "persist" /\ Oldest(e, batch[c])
        /\ phase' = [phase EXCEPT ![c] = "round"] /\ choice' = [choice EXCEPT ![c] = 0]
        /\ batch' = [batch EXCEPT ![c] = @ \ {e}]
        /\ hits' = [p \in Pids |-> IF p \in Known(lib[c]) THEN lib[c].hits[p] ELSE hits[p]]
    BY <1>3 DEF Persist, Working, Done, bench
  <2>2. seg'[e.r] = "done" /\ pat'[e.r] = choice[c]
    BY <1>3, <2>0 DEF Persist, TypeOK, DbTypeOK
  <2>3. ASSUME NEW p \in Pids, NEW r \in lib[c].hits[p]
        PROVE  SettledWith(r, p)'
    <3>1. CASE SettledWith(r, p)
      BY <1>a, <1>c, <3>1
    <3>2. CASE Pending(c, r, p)
      <4>1. PICK f \in batch[c] : Oldest(f, batch[c]) /\ f.r = r /\ choice[c] = p
        BY <3>2 DEF Pending
      <4>2. f.r = e.r
        BY <1>a, <2>0, <2>1, <4>1 DEF Oldest, Reviews
      <4> QED BY <2>2, <4>1, <4>2 DEF SettledWith
    <3> QED BY <2>3, <3>1, <3>2 DEF LibrariesTrue
  <2>4. ASSUME NEW d \in Cores, NEW p \in Pids, NEW r \in lib'[d].hits[p]
        PROVE  SettledWith(r, p)' \/ Pending(d, r, p)'
    <3>1. CASE d = c
      BY <2>1, <2>3, <2>4, <3>1
    <3>2. CASE d # c
      <4>1. /\ lib'[d] = lib[d] /\ phase'[d] = phase[d] /\ choice'[d] = choice[d]
            /\ batch'[d] = batch[d]
        BY <1>0, <2>1, <3>2
      <4> QED BY <1>a, <1>c, <2>4, <4>1 DEF LibrariesTrue, Pending, Oldest
    <3> QED BY <3>1, <3>2
  <2>5. \A a \in Admins : \A p \in Pids : \A r \in seen'[a].hits[p] : SettledWith(r, p)'
    BY <1>a, <1>c, <2>1 DEF LibrariesTrue
  <2>6. ASSUME NEW p \in Pids, NEW r \in hits'[p]
        PROVE  SettledWith(r, p)'
    <3>1. CASE p \in Known(lib[c])
      BY <2>1, <2>3, <2>6, <3>1
    <3>2. CASE p \notin Known(lib[c])
      <4>1. r \in hits[p]
        BY <2>1, <2>6, <3>2
      <4> QED BY <1>a, <1>c, <4>1 DEF NoGhost, SettledWith
    <3> QED BY <3>1, <3>2
  <2> QED BY <2>4, <2>5, <2>6 DEF LibrariesTrue, NoGhost, SettledWith
<1>4. ASSUME NEW a \in Admins, Feedback(a)
      PROVE  LibrariesTrue' /\ NoGhost'
  <2>1. lib' = lib /\ phase' = phase /\ choice' = choice /\ batch' = batch
    BY <1>4 DEF Feedback, Load, Confirm, GiveUp, work
  <2>2. ASSUME NEW c \in Cores, NEW p \in Pids, NEW r \in lib'[c].hits[p]
        PROVE  SettledWith(r, p)' \/ Pending(c, r, p)'
    BY <1>a, <1>c, <2>1, <2>2 DEF LibrariesTrue, Pending, Oldest
  <2>3. \A b \in Admins : seen'[b] = seen[b] \/ seen'[b] = NoLibrary \/ seen'[b] = Stored
    BY <1>0, <1>4 DEF Feedback, Load, Confirm, GiveUp, Return
  <2>4. ASSUME NEW b \in Admins, NEW p \in Pids, NEW r \in seen'[b].hits[p]
        PROVE  SettledWith(r, p)'
    <3>1. CASE seen'[b] = seen[b]
      BY <1>a, <1>c, <2>4, <3>1 DEF LibrariesTrue
    <3>2. CASE seen'[b] = NoLibrary
      BY <1>b, <2>4, <3>2
    <3>3. CASE seen'[b] = Stored
      <4>1. r \in hits[p]
        BY <2>4, <3>3 DEF Stored
      <4> QED BY <1>a, <1>c, <4>1 DEF NoGhost, SettledWith
    <3> QED BY <2>3, <3>1, <3>2, <3>3
  <2>5. ASSUME NEW p \in Pids, NEW r \in hits'[p]
        PROVE  SettledWith(r, p)'
    <3>1. r \in hits[p] \/ r \in seen[a].hits[p]
      BY <1>0, <1>4, <2>5 DEF Feedback, Load, Confirm, GiveUp, db
    <3> QED BY <1>a, <1>c, <3>1 DEF NoGhost, LibrariesTrue, SettledWith
  <2> QED BY <2>2, <2>4, <2>5 DEF LibrariesTrue, NoGhost, SettledWith
<1> QED BY <1>1, <1>2, <1>3, <1>4, LibraryKeptSteps

-----------------------------------------------------------------------------
\* The initial state: nobody holds anything, nothing is counted.
LEMMA SafetyInit == Init => CountsBacked /\ FailedOnlyExhausted /\ OwnersKnown
  BY DEF Init, CountsBacked, FailedOnlyExhausted, OwnersKnown

\* A review is given up only after MaxRetries attempts that really failed.
THEOREM FailedExhausted == Spec => []FailedOnlyExhausted
<1>1. Init => CountsBacked /\ FailedOnlyExhausted
  BY SafetyInit
<1>2. TypeOK /\ CountsBacked /\ FailedOnlyExhausted /\ [Next]_vars
        => (CountsBacked /\ FailedOnlyExhausted)'
  BY CountStep
<1> QED BY <1>1, <1>2, TypeCorrect, PTL DEF Spec

\* Whoever holds the claim of the table is its owner.
THEOREM OwnersAreKnown == Spec => [](TypeOK /\ OwnersKnown)
<1>1. Init => OwnersKnown
  BY SafetyInit
<1> QED BY <1>1, OwnersStep, TypeCorrect, PTL DEF Spec

\* A settled review is final, and a fresh claim is rewritten by its owner only.
THEOREM ClaimIsHeld == Spec => ClaimHeld
<1>1. TypeOK /\ OwnersKnown /\ [Next]_vars =>
        [\A r \in Reviews :
          /\ seg[r] \in Terminal => seg'[r] = seg[r] /\ pat'[r] = pat[r]
          /\ seg[r] = "claim" /\ ~stale[r] =>
               \/ seg'[r] = seg[r] /\ text'[r] = text[r] /\ owner'[r] = owner[r]
               \/ /\ phase[owner[r]] = "persist"
                  /\ [r |-> r, text |-> text[r]] \in batch[owner[r]]
                  /\ seg'[r] = "done"]_vars
  BY HeldStep
<1> QED BY <1>1, OwnersAreKnown, PTL DEF Spec, ClaimHeld

\* A pattern counts a review only when that review is settled with it.
THEOREM NothingGhostly == Spec => []NoGhost
<1>1. Init => LibrariesTrue /\ NoGhost
  BY GhostInit
<1>2. TypeOK /\ OwnersKnown /\ LibrariesTrue /\ NoGhost /\ [Next]_vars
        => (LibrariesTrue /\ NoGhost)'
  BY GhostStep
<1> QED BY <1>1, <1>2, OwnersAreKnown, PTL DEF Spec
=============================================================================
