------------------------------ MODULE OpsProofs ------------------------------
(***************************************************************************)
(* What the tools of the operations say is true (OperationsHonest), for    *)
(* any number of makers, of files of a release and of the evidence, of     *)
(* changes of the world and of mishaps.                                    *)
(*                                                                         *)
(* The inductive invariant OpsInv says, for every place where a command    *)
(* can be, what it has read so far and what that is worth: it goes with    *)
(* one manifest that was sealed, and it is what lies there as long as      *)
(* nothing was changed (rd.quiet). The parts of the proof follow the three *)
(* commands: the bundle, the contract and the seal, each with the steps of *)
(* the others it runs on its way.                                          *)
(***************************************************************************)
EXTENDS OpsEvidence, TLAPS
-------------------------------------------------------------------------------
(* The inductive invariant. *)

ManRecs == [db : Int, cfg : Int, maker : Int]
Dirs == [db : Int, cfg : Int, man : ManRecs, maker : Int]
Docs == [current : Seq(Int), candidate : Seq(Int), man : ManRecs, db : Int, cfg : Int,
         whole : BOOLEAN]
SealDocs == [ledger : Int, evidence : Seq(Int), host : Int, acceptance : Int, soak : Int,
             man : ManRecs, db : Int, cfg : Int, contract : Docs, whole : BOOLEAN]
MakerPcs == {"idle", "snapshot", "copy", "reread", "integrity", "manifest", "written", "made",
             "undo", "refused", "done", "failed", "killed"}
ReadPcs == {"idle", "scan", "manifest", "db", "sound", "cfg", "good", "mktarget", "rdb", "rcfg",
            "undo", "bad", "mkcontract", "walk", "digest", "again", "document", "kwrite",
            "kscan", "kcheck", "kgood", "mkseal", "ledger", "evidence", "host", "acceptance",
            "soak", "soakread", "bmanifest", "seal", "swrite", "sgood"}
ReadRegs == [pc : ReadPcs, ret : ReadPcs, man : ManRecs, db : Int, cfg : Int, quiet : BOOLEAN]
BundleTypes ==
    /\ liveDb \in Nat /\ liveCfg \in Nat \cup {Half} /\ world \in Nat
    /\ maker \in [Makers -> [pc : MakerPcs, cfg : Int, db : Int]]
    /\ bundle \in Dirs /\ target \in Dirs /\ sealed \in SUBSET ManRecs
    /\ restored \in SUBSET [db : Int, cfg : Int] /\ foreign \in BOOLEAN
    /\ rd \in ReadRegs
ContractTypes ==
    /\ tree \in [Releases -> [1..Len(TreeFiles) -> Int]]
    /\ contract \in [there : BOOLEAN, doc : Docs]
    /\ kr \in [cmd : {"none", "prepare", "check", "seal", "unseal"}, mine : BOOLEAN,
               of : Releases, doc : Docs, check : Docs]
SealTypes ==
    /\ inputs \in [Inputs -> Int] /\ evidence \in [1..Len(EvidenceFiles) -> Int]
    /\ seal \in [there : BOOLEAN, doc : SealDocs]
    /\ sr \in [mine : BOOLEAN, doc : SealDocs] /\ opsCase \in {"bundle", "contract", "seal"}
    /\ spare \in Dirs

\* Where the reading command can be, by what the behaviour is about.
OnItsWay == {"scan", "manifest", "db", "sound", "cfg"}
BundlePcs == OnItsWay \cup {"idle", "good", "mktarget", "rdb", "rcfg", "undo", "bad"}
ContractPcs == OnItsWay \cup {"idle", "mkcontract", "walk", "digest", "again", "document",
                              "kwrite", "kscan", "kcheck", "kgood", "bad"}
EarlyPcs == {"evidence", "host", "acceptance", "soak", "soakread"}
LatePcs == {"kscan", "walk", "kcheck", "kgood", "seal", "swrite", "sgood"}
SealPcs == OnItsWay \cup EarlyPcs \cup LatePcs
           \cup {"idle", "mkseal", "ledger", "bmanifest", "bad"}
\* What a verification on its way is for, or the command has come to.
Goal == IF rd.pc \in OnItsWay THEN rd.ret ELSE rd.pc
WhereItIs ==
    /\ opsCase = "bundle" => /\ rd.pc \in BundlePcs /\ ~contract.doc.whole
                             /\ rd.pc \in OnItsWay => rd.ret \in {"good", "mktarget"}
    /\ opsCase = "contract" =>
        /\ rd.pc \in ContractPcs /\ kr.cmd \in {"none", "prepare", "check"}
        /\ rd.pc \in OnItsWay => rd.ret \in {"digest", "again", "kcheck"}
        /\ rd.pc = "kscan" \/ Goal = "kcheck" => ~Preparing
    /\ opsCase = "seal" => /\ rd.pc \in SealPcs /\ kr.cmd \in {"none", "seal", "unseal"}
                           /\ rd.pc \in OnItsWay => rd.ret \in {"bmanifest", "kcheck"}

\* A directory in the making is its maker's, and has no manifest before the end.
Unsealed == {"snapshot", "copy", "reread", "integrity", "manifest", "written"}
MakersHonest ==
    /\ \A m \in Makers :
        /\ opsCase # "bundle" => maker[m].pc = "idle"
        /\ maker[m].pc \in Making \cup {"undo"} => bundle.maker = m
        /\ maker[m].pc \in Unsealed => ~Valid(bundle.man)
        /\ maker[m].pc \in {"reread", "integrity", "manifest", "written"} =>
            maker[m].cfg # Broken
        /\ maker[m].pc \in {"manifest", "written"} => Sound(maker[m].db)
    /\ opsCase # "bundle" => bundle.man \in sealed
    /\ Valid(bundle.man) => bundle.man \in sealed
    /\ ~foreign /\ \A s \in sealed : Sound(s.db) /\ s.cfg # Broken
    /\ \A r \in restored : \E s \in sealed : s.db = r.db /\ s.cfg = r.cfg

\* What the command has read of the bundle goes with one manifest that was sealed, and
\* is what lies there while nothing was changed.
Goals == {"good", "mktarget", "rdb", "rcfg", "digest", "again", "kcheck"}
ReadHonest ==
    /\ (rd.pc \in {"db", "sound", "cfg"} /\ rd.ret # "bmanifest") \/ rd.pc \in Goals =>
        rd.man \in sealed /\ (rd.quiet => rd.man = bundle.man /\ Valid(rd.man))
    /\ (rd.pc \in {"sound", "cfg"} /\ rd.ret # "bmanifest") \/ rd.pc \in Goals =>
        rd.db = rd.man.db /\ (rd.quiet => rd.db = bundle.db)
    /\ rd.pc \in Goals => rd.cfg = rd.man.cfg /\ (rd.quiet => rd.cfg = bundle.cfg)
    /\ rd.pc = "rcfg" => target.db = rd.db

\* A document cites the contents of the bundle whose manifest it cites.
Cites(d) == d.man \in sealed /\ d.db = d.man.db /\ d.cfg = d.man.cfg
\* The second verification reads the manifest that was digested, or it has gone for good.
SameTwice ==
    Goal = "again" => /\ kr.doc.man \in sealed
                      /\ rd.pc \in {"db", "sound", "cfg", "again"} =>
                            rd.man = kr.doc.man \/ bundle.man # kr.doc.man
TreesHold(d) == \A r \in Releases : d[r] = tree[r]
WalkHonest ==
    /\ rd.pc = "kscan" => kr.of = "current" /\ kr.doc = NoDoc
    /\ rd.pc = "mkcontract" => kr.of = "current" /\ kr.doc = NoDoc /\ Preparing
    /\ rd.pc = "walk" =>
        /\ Len(kr.doc[kr.of]) < Len(TreeFiles)
        /\ kr.of = "current" => kr.doc.candidate = <<>>
        /\ rd.quiet => \A i \in 1..Len(kr.doc[kr.of]) : kr.doc[kr.of][i] = tree[kr.of][i]
        /\ rd.quiet /\ kr.of = "candidate" => kr.doc.current = tree["current"]
        /\ rd.quiet /\ ~Preparing =>
            kr.check = contract.doc /\ (kr.of = "candidate" => kr.check.current = tree["current"])
    /\ rd.quiet /\ Goal \in {"digest", "again", "kcheck"} => TreesHold(kr.doc)
    /\ rd.quiet /\ Goal = "kcheck" => kr.check = contract.doc /\ TreesHold(kr.check)
    /\ rd.quiet /\ Goal = "again" =>
        kr.doc.man = bundle.man /\ kr.doc.db = bundle.db /\ kr.doc.cfg = bundle.cfg
\* What prepare writes into is the directory it made, empty so far.
OwnContract ==
    /\ kr.mine => ~contract.doc.whole
    /\ Goal \in {"digest", "again", "document", "kwrite"} => kr.mine
    /\ rd.pc = "walk" /\ Preparing => kr.mine
ContractsHonest ==
    /\ contract.doc.whole => Cites(contract.doc)
    /\ rd.pc \in {"document", "kwrite"} => Cites(kr.doc) /\ (rd.quiet => ContractMatches(kr.doc))
    /\ rd.pc = "kgood" /\ rd.quiet /\ contract.there => ContractMatches(contract.doc)

\* The seal reads its own bundle, wherever that is.
OwnRead ==
    /\ (rd.pc \in {"sound", "cfg"} /\ rd.ret = "bmanifest") \/ rd.pc = "bmanifest" =>
        rd.db = Own.db
    /\ rd.pc = "bmanifest" => rd.cfg = Own.cfg
\* What the seal has bound so far is what lies there while nothing was changed.
Bound(field, name) == sr.doc[field] = inputs[name] /\ Sound(inputs[name])
SealsHonest ==
    LET late == rd.pc \in LatePcs \/ Goal \in {"bmanifest", "kcheck"}
    IN  opsCase = "seal" =>
        /\ rd.pc \in {"mkseal", "ledger"} => sr.doc.evidence = <<>>
        /\ rd.pc = "evidence" =>
            /\ Len(sr.doc.evidence) < Len(EvidenceFiles)
            /\ rd.quiet => \A i \in 1..Len(sr.doc.evidence) : sr.doc.evidence[i] = evidence[i]
        /\ rd.quiet =>
            /\ OwnRead
            /\ rd.pc \in EarlyPcs \/ late => Bound("ledger", "operations_ledger")
            /\ rd.pc \in EarlyPcs \ {"evidence"} \/ late => sr.doc.evidence = evidence
            /\ rd.pc \in {"acceptance", "soak", "soakread"} \/ late => Bound("host", "host_probe")
            /\ rd.pc \in {"soak", "soakread"} \/ late => Bound("acceptance", "acceptance_report")
            /\ rd.pc = "soakread" => Sound(inputs["soak"])
            /\ late => Bound("soak", "soak")
            /\ rd.pc \in LatePcs \/ Goal = "kcheck" =>
                sr.doc.man = Own.man /\ sr.doc.db = Own.db /\ sr.doc.cfg = Own.cfg
            /\ rd.pc \in {"seal", "swrite", "sgood"} => ContractMatches(sr.doc.contract)
        /\ rd.pc = "sgood" => seal.doc = [sr.doc EXCEPT !.whole = TRUE]
OpsInv ==
    /\ BundleTypes /\ ContractTypes /\ SealTypes /\ WhereItIs /\ MakersHonest
    /\ ReadHonest /\ SameTwice /\ WalkHonest /\ OwnContract /\ ContractsHonest
    /\ SealsHonest

\* A step of a behaviour about the bundle leaves the contract and the seal alone.
LEMMA BundleFrame ==
    ASSUME OpsInv, opsCase = "bundle", UNCHANGED <<contractvars, sealvars>>, BundleTypes',
           MakersHonest', ReadHonest', rd'.pc \in BundlePcs,
           rd'.pc \in OnItsWay => rd'.ret \in {"good", "mktarget"}
    PROVE  OpsInv'
<1>1. ContractTypes' /\ SealTypes'
  BY DEF OpsInv, ContractTypes, SealTypes, contractvars, sealvars
<1>2. WhereItIs' BY DEF OpsInv, WhereItIs, contractvars, sealvars, Goal
<1>3. SameTwice' BY DEF SameTwice, Goal, OnItsWay, BundlePcs
<1>4. WalkHonest' BY DEF WalkHonest, Goal, OnItsWay, BundlePcs
<1>7. OwnContract'
  <2>1. ~contract'.doc.whole BY DEF OpsInv, WhereItIs, contractvars
  <2> QED BY <2>1 DEF OwnContract, Goal, OnItsWay, BundlePcs
<1>5. ContractsHonest'
  <2>1. ~contract'.doc.whole BY DEF OpsInv, WhereItIs, contractvars
  <2> QED BY <2>1 DEF ContractsHonest, BundlePcs, OnItsWay
<1>6. SealsHonest' BY DEF SealsHonest, sealvars
<1> QED BY <1>1, <1>2, <1>3, <1>4, <1>5, <1>6, <1>7 DEF OpsInv
-------------------------------------------------------------------------------
(* create. *)

\* No manifest, no directory, and a manifest half written.
LEMMA ManRecValues ==
    /\ None \in ManRecs /\ NoDir \in Dirs /\ ~Valid(None) /\ ~Valid(NoDir.man) /\ NoDir.maker = 0
    /\ [None EXCEPT !.maker = Half] \in ManRecs /\ ~Valid([None EXCEPT !.maker = Half])
BY DEF None, NoDir, ManRecs, Dirs, Absent, Half, Valid
LEMMA MakersPositive == \A m \in Makers : m \in Nat /\ m # 0
BY BundleAssumption

\* The steps of a create.
LEMMA MakeDirKeeps ==
    ASSUME OpsInv, opsCase = "bundle", NEW m \in Makers, MakeDir(m), opsCase' = opsCase
    PROVE  BundleTypes' /\ MakersHonest' /\ ReadHonest'
<1> USE DEF MakeDir, Reaches, World
<1>1. BundleTypes'
  <2>1. BundleTypes BY DEF OpsInv
  <2>2. maker' \in [Makers -> [pc : MakerPcs, cfg : Int, db : Int]]
    BY <2>1 DEF BundleTypes, Dirs, MakerPcs
  <2> QED BY <2>1, <2>2, ManRecValues, MakersPositive DEF BundleTypes, Dirs
<1>2. MakersHonest'
  <2>1. bundle'.man = bundle.man \/ bundle'.man = NoDir.man BY DEF NoDir
  <2>2. \A k \in Makers : k # m => maker'[k] = maker[k]
    BY DEF OpsInv, BundleTypes
  <2>3. CASE bundle = NoDir
    <3>1. maker'[m].pc = "snapshot" /\ bundle'.maker = m /\ bundle'.man = NoDir.man
      BY <2>3 DEF OpsInv, BundleTypes, NoDir
    <3>2. \A k \in Makers : maker[k].pc \notin Making \cup {"undo"}
      BY <2>3, ManRecValues, MakersPositive DEF OpsInv, MakersHonest
    <3> QED BY <2>2, <3>1, <3>2, ManRecValues DEF OpsInv, MakersHonest, Making, Unsealed
  <2>4. CASE bundle # NoDir
    <3>1. maker'[m].pc = "refused" /\ bundle' = bundle BY <2>4 DEF OpsInv, BundleTypes
    <3> QED BY <2>2, <3>1 DEF OpsInv, MakersHonest, Making, Unsealed
  <2> QED BY <2>3, <2>4
<1>3. ReadHonest'
  BY ManRecValues DEF OpsInv, ReadHonest, BundleTypes, Dirs
<1> QED BY <1>1, <1>2, <1>3

\* The database goes into the directory, which has no manifest yet.
LEMMA SnapshotKeeps ==
    ASSUME OpsInv, opsCase = "bundle", NEW m \in Makers, Snapshot(m), opsCase' = opsCase
    PROVE  BundleTypes' /\ MakersHonest' /\ ReadHonest'
<1> USE DEF Snapshot, Reaches, World
<1>1. BundleTypes'
  <2>1. BundleTypes BY DEF OpsInv
  <2>2. maker' \in [Makers -> [pc : MakerPcs, cfg : Int, db : Int]]
    BY <2>1 DEF BundleTypes, Dirs, MakerPcs
  <2> QED BY <2>1, <2>2 DEF BundleTypes, Dirs
<1>2. MakersHonest'
  BY MakersPositive DEF OpsInv, BundleTypes, MakersHonest, Making, Unsealed, Dirs
<1>3. ReadHonest'
  BY DEF OpsInv, ReadHonest, BundleTypes, Dirs, MakersHonest, Unsealed
<1> QED BY <1>1, <1>2, <1>3

\* So does the configuration: whatever it is, it is not a broken file.
LEMMA CopyPayloadKeeps ==
    ASSUME OpsInv, opsCase = "bundle", NEW m \in Makers, CopyPayload(m), opsCase' = opsCase
    PROVE  BundleTypes' /\ MakersHonest' /\ ReadHonest'
<1> USE DEF CopyPayload, Reaches, World
<1>1. BundleTypes'
  <2>1. BundleTypes BY DEF OpsInv
  <2>2. maker' \in [Makers -> [pc : MakerPcs, cfg : Int, db : Int]]
    <3>1. liveCfg \in Int BY <2>1 DEF BundleTypes, Half
    <3>2. [maker[m] EXCEPT !.cfg = liveCfg, !.pc = "reread"] \in [pc : MakerPcs, cfg : Int, db : Int]
      BY <2>1, <3>1 DEF BundleTypes, MakerPcs
    <3> QED BY <2>1, <3>2 DEF BundleTypes
  <2> QED BY <2>1, <2>2 DEF BundleTypes, Dirs, Half
<1>2. MakersHonest'
  BY MakersPositive DEF OpsInv, BundleTypes, MakersHonest, Making, Unsealed, Dirs, Half, Broken
<1>3. ReadHonest'
  BY DEF OpsInv, ReadHonest, BundleTypes, Dirs, MakersHonest, Unsealed
<1> QED BY <1>1, <1>2, <1>3

\* What lies there is what was copied, or the directory goes.
LEMMA ReadAgainKeeps ==
    ASSUME OpsInv, opsCase = "bundle", NEW m \in Makers, ReadAgain(m), opsCase' = opsCase
    PROVE  BundleTypes' /\ MakersHonest' /\ ReadHonest'
<1> USE DEF ReadAgain, Reaches, World, ReadPayload, SameBytes
<1>1. BundleTypes'
  <2>1. BundleTypes BY DEF OpsInv
  <2>2. maker' \in [Makers -> [pc : MakerPcs, cfg : Int, db : Int]]
    BY <2>1 DEF BundleTypes, Dirs, MakerPcs
  <2> QED BY <2>1, <2>2 DEF BundleTypes
<1>2. MakersHonest'
  BY MakersPositive DEF OpsInv, BundleTypes, MakersHonest, Making, Unsealed, Dirs
<1>3. ReadHonest'
  BY DEF OpsInv, ReadHonest
<1> QED BY <1>1, <1>2, <1>3

\* Only a sound database comes to the manifest.
LEMMA CheckMadeKeeps ==
    ASSUME OpsInv, opsCase = "bundle", NEW m \in Makers, CheckMade(m), opsCase' = opsCase
    PROVE  BundleTypes' /\ MakersHonest' /\ ReadHonest'
<1> USE DEF CheckMade, Reaches, World, Integrity
<1>1. BundleTypes'
  <2>1. BundleTypes BY DEF OpsInv
  <2>2. maker' \in [Makers -> [pc : MakerPcs, cfg : Int, db : Int]]
    BY <2>1 DEF BundleTypes, Dirs, MakerPcs
  <2> QED BY <2>1, <2>2 DEF BundleTypes
<1>2. MakersHonest'
  BY MakersPositive DEF OpsInv, BundleTypes, MakersHonest, Making, Unsealed, Dirs
<1>3. ReadHonest'
  BY DEF OpsInv, ReadHonest
<1> QED BY <1>1, <1>2, <1>3

\* A manifest half written is not valid.
LEMMA BeginManifestKeeps ==
    ASSUME OpsInv, opsCase = "bundle", NEW m \in Makers, BeginManifest(m), opsCase' = opsCase
    PROVE  BundleTypes' /\ MakersHonest' /\ ReadHonest'
<1> USE DEF BeginManifest, Reaches, World
<1>1. BundleTypes'
  <2>1. BundleTypes BY DEF OpsInv
  <2>2. maker' \in [Makers -> [pc : MakerPcs, cfg : Int, db : Int]]
    BY <2>1 DEF BundleTypes, Dirs, MakerPcs
  <2> QED BY <2>1, <2>2, ManRecValues DEF BundleTypes, Dirs
<1>2. MakersHonest'
  BY ManRecValues, MakersPositive DEF OpsInv, BundleTypes, MakersHonest, Making, Unsealed, Dirs
<1>3. ReadHonest'
  BY DEF OpsInv, ReadHonest, BundleTypes, Dirs, MakersHonest, Unsealed
<1> QED BY <1>1, <1>2, <1>3

\* Written as a whole it is sealed, and it says what lies there.
LEMMA EndManifestKeeps ==
    ASSUME OpsInv, opsCase = "bundle", NEW m \in Makers, EndManifest(m), opsCase' = opsCase
    PROVE  BundleTypes' /\ MakersHonest' /\ ReadHonest'
<1> USE DEF EndManifest, Reaches, World
<1>0. ManifestOf(m) \in ManRecs /\ Sound(ManifestOf(m).db) /\ ManifestOf(m).cfg # Broken
  BY MakersPositive DEF OpsInv, BundleTypes, MakersHonest, ManifestOf, ManRecs
<1>1. BundleTypes'
  <2>1. BundleTypes BY DEF OpsInv
  <2>2. maker' \in [Makers -> [pc : MakerPcs, cfg : Int, db : Int]]
    BY <2>1 DEF BundleTypes, Dirs, MakerPcs
  <2> QED BY <2>1, <2>2, <1>0 DEF BundleTypes, Dirs
<1>2. MakersHonest'
  <2>1. \A k \in Makers : k # m => maker[k].pc \notin Making \cup {"undo"} /\ maker'[k] = maker[k]
    BY DEF OpsInv, MakersHonest, BundleTypes, Making
  <2>2. maker'[m].pc = "made" BY DEF OpsInv, BundleTypes
  <2>3. bundle'.man = ManifestOf(m) /\ bundle'.maker = bundle.maker
    BY DEF OpsInv, BundleTypes, ReadRegs, Dirs
  <2> QED BY <1>0, <2>1, <2>2, <2>3 DEF OpsInv, MakersHonest, Making, Unsealed
<1>3. ReadHonest'
  BY DEF OpsInv, ReadHonest, BundleTypes, Dirs, MakersHonest, Unsealed
<1> QED BY <1>1, <1>2, <1>3

\* The answer, a failure or a kill changes nothing of the directory.
LEMMA OtherMakerStepsKeep ==
    ASSUME OpsInv, opsCase = "bundle", NEW m \in Makers, opsCase' = opsCase,
           EndMake(m) \/ FailMake(m) \/ KillMaker(m)
    PROVE  BundleTypes' /\ MakersHonest' /\ ReadHonest'
<1> USE DEF EndMake, FailMake, KillMaker, Reaches, World
<1>1. BundleTypes'
  <2>1. BundleTypes BY DEF OpsInv
  <2>2. maker' \in [Makers -> [pc : MakerPcs, cfg : Int, db : Int]]
    BY <2>1 DEF BundleTypes, Dirs, MakerPcs
  <2> QED BY <2>1, <2>2 DEF BundleTypes
<1>2. MakersHonest'
  BY DEF OpsInv, BundleTypes, MakersHonest, Making, Unsealed, Dirs
<1>3. ReadHonest'
  BY DEF OpsInv, ReadHonest
<1> QED BY <1>1, <1>2, <1>3

\* Only what the maker made is removed.
LEMMA RemoveCreatedDirKeeps ==
    ASSUME OpsInv, opsCase = "bundle", NEW m \in Makers, opsCase' = opsCase, RemoveCreatedDir(m)
    PROVE  BundleTypes' /\ MakersHonest' /\ ReadHonest'
<1> USE DEF RemoveCreatedDir, Reaches, World
<1>1. BundleTypes'
  <2>1. BundleTypes BY DEF OpsInv
  <2>2. maker' \in [Makers -> [pc : MakerPcs, cfg : Int, db : Int]]
    BY <2>1 DEF BundleTypes, Dirs, MakerPcs
  <2>3. bundle' \in Dirs
    BY <2>1, ManRecValues DEF BundleTypes, Dirs, Absent
  <2>4. rd' \in ReadRegs
    BY <2>1 DEF BundleTypes, ReadRegs
  <2> QED BY <2>1, <2>2, <2>3, <2>4 DEF BundleTypes
<1>2. MakersHonest'
  <2>1. \A k \in Makers : k # m => maker[k].pc \notin Making \cup {"undo"} /\ maker'[k] = maker[k]
    BY DEF OpsInv, MakersHonest, BundleTypes, Making
  <2>2. maker'[m].pc = "failed" /\ bundle.maker = m BY DEF OpsInv, BundleTypes, MakersHonest
  <2>3. bundle'.man = bundle.man \/ bundle'.man = NoDir.man
    BY DEF OpsInv, BundleTypes, ReadRegs, Dirs
  <2> QED BY ManRecValues, <2>1, <2>2, <2>3 DEF OpsInv, MakersHonest, Making, Unsealed
<1>3. ReadHonest'
  BY DEF OpsInv, ReadHonest, BundleTypes
<1> QED BY <1>1, <1>2, <1>3

\* The steps of a verification, whatever it is for.
VerifyKept ==
    /\ BundleTypes' /\ MakersHonest' /\ ReadHonest'
    /\ rd'.quiet = rd.quiet /\ rd'.ret = rd.ret /\ rd.pc \in OnItsWay
    /\ rd'.pc = "bad" \/ Goal' = Goal
    /\ UNCHANGED <<maker, bundle, sealed, world, restored, foreign>>
    /\ rd'.pc = "db" => rd'.man = Reading.man
    /\ rd'.pc # "db" => rd'.man = rd.man
    /\ opsCase = "seal" /\ rd.quiet => OwnRead'
    /\ rd'.pc \in {"sound", "cfg"} \cup Goals => rd.pc \in {"db", "sound", "cfg"}

\* Whatever is read of the bundle is compared with the manifest read first.
LEMMA VerifyKeeps ==
    ASSUME OpsInv, VerifyBundle(Reading), UNCHANGED <<opsCase, spare>>
    PROVE  VerifyKept
<1> USE DEF World, RdGoes
<1>0. BundleTypes /\ ReadHonest /\ WhereItIs BY DEF OpsInv
<1>1. /\ UNCHANGED <<liveDb, liveCfg, world, maker, bundle, target, sealed, restored, foreign>>
      /\ rd.pc \in OnItsWay
  BY DEF VerifyBundle, ScanEntries, ReadManifest, ReadDb, CheckDb, ReadCfg, OnItsWay
<1>2. MakersHonest' BY <1>1 DEF OpsInv, MakersHonest
<1>3. rd.ret \in Goals \cup {"bmanifest"} /\ rd.ret # "rcfg"
  BY <1>0, <1>1 DEF WhereItIs, Preparing, Goals, SealTypes, OpsInv
<1>4. /\ Reading \in Dirs /\ Own' = Own
      /\ rd.ret # "bmanifest" => Reading = bundle
      /\ rd.ret = "bmanifest" => Reading = Own
  BY <1>1 DEF Reading, Own, OpsInv, SealTypes, BundleTypes
<1>5. opsCase = "seal" /\ rd.quiet => OwnRead BY DEF OpsInv, SealsHonest
<1>6. ASSUME rd' \in ReadRegs, rd'.quiet = rd.quiet, rd'.ret = rd.ret, rd'.pc = "bad" \/ Goal' = Goal,
             ReadHonest', rd'.pc = "db" => rd'.man = Reading.man,
             rd'.pc # "db" => rd'.man = rd.man, opsCase = "seal" /\ rd.quiet => OwnRead',
             rd'.pc \in {"sound", "cfg"} \cup Goals => rd.pc \in {"db", "sound", "cfg"}
      PROVE  VerifyKept
  BY <1>0, <1>1, <1>2, <1>6 DEF VerifyKept, BundleTypes
<1>7. CASE ScanEntries(Reading)
  <2>1. PICK pc \in {"manifest", "bad"} : rd.pc = "scan" /\ rd' = [rd EXCEPT !.pc = pc]
    BY <1>7 DEF ScanEntries
  <2>2. /\ rd' \in ReadRegs /\ rd'.pc = pc /\ rd'.quiet = rd.quiet /\ rd'.ret = rd.ret
        /\ rd'.man = rd.man
    BY <1>0, <2>1 DEF BundleTypes, ReadRegs, ReadPcs
  <2>3. ReadHonest' /\ OwnRead' BY <2>2 DEF ReadHonest, OwnRead, Goals
  <2> QED BY <1>6, <2>1, <2>2, <2>3 DEF OnItsWay, Goal, Goals
<1>8. CASE ReadManifest(Reading)
  <2>1. PICK pc \in {"db", "bad"} :
          /\ rd.pc = "manifest" /\ (pc = "db" => Valid(Reading.man))
          /\ rd' = IF pc = "db" THEN [rd EXCEPT !.man = Reading.man, !.pc = "db"]
                               ELSE [rd EXCEPT !.pc = "bad"]
    BY <1>8 DEF ReadManifest, ReadPayload
  <2>2. /\ rd' \in ReadRegs /\ rd'.pc = pc /\ rd'.quiet = rd.quiet /\ rd'.ret = rd.ret
        /\ pc = "db" => rd'.man = Reading.man
        /\ pc # "db" => rd'.man = rd.man
    <3>1. Reading.man \in ManRecs BY <1>4 DEF Dirs
    <3> QED BY <1>0, <2>1, <3>1 DEF BundleTypes, ReadRegs, ReadPcs
  <2>3. ReadHonest'
    <3>1. Valid(bundle.man) => bundle.man \in sealed BY DEF OpsInv, MakersHonest
    <3> QED BY <1>1, <1>4, <2>1, <2>2, <3>1 DEF ReadHonest, Goals
  <2>4. OwnRead' BY <2>2 DEF OwnRead
  <2> QED BY <1>6, <2>1, <2>2, <2>3, <2>4 DEF OnItsWay, Goal, Goals
<1>9. CASE ReadDb(Reading)
  <2>1. PICK pc \in {"sound", "bad"} :
          /\ rd.pc = "db" /\ (pc = "sound" => Reading.db = rd.man.db)
          /\ rd' = IF pc = "sound" THEN [rd EXCEPT !.db = Reading.db, !.pc = "sound"]
                                  ELSE [rd EXCEPT !.pc = "bad"]
    BY <1>9 DEF ReadDb, ReadPayload, SameBytes
  <2>2. /\ rd' \in ReadRegs /\ rd'.pc = pc /\ rd'.quiet = rd.quiet /\ rd'.ret = rd.ret
        /\ rd'.man = rd.man
        /\ pc = "sound" => rd'.db = Reading.db
    <3>1. Reading.db \in Int BY <1>4 DEF Dirs
    <3> QED BY <1>0, <2>1, <3>1 DEF BundleTypes, ReadRegs, ReadPcs
  <2>3. ReadHonest'
    BY <1>0, <1>1, <1>4, <2>1, <2>2 DEF ReadHonest, Goals
  <2>4. OwnRead' BY <1>4, <2>2 DEF OwnRead
  <2> QED BY <1>6, <2>1, <2>2, <2>3, <2>4 DEF OnItsWay, Goal, Goals
<1>10. CASE CheckDb(Reading)
  <2>1. PICK pc \in {"cfg", "bad"} : rd.pc = "sound" /\ rd' = [rd EXCEPT !.pc = pc]
    BY <1>10 DEF CheckDb
  <2>2. /\ rd' \in ReadRegs /\ rd'.pc = pc /\ rd'.quiet = rd.quiet /\ rd'.ret = rd.ret
        /\ rd'.man = rd.man /\ rd'.db = rd.db
    BY <1>0, <2>1 DEF BundleTypes, ReadRegs, ReadPcs
  <2>3. ReadHonest' BY <1>0, <1>1, <2>1, <2>2 DEF ReadHonest, Goals
  <2>4. opsCase = "seal" /\ rd.quiet => OwnRead'
    BY <1>4, <1>5, <2>1, <2>2 DEF OwnRead
  <2> QED BY <1>6, <2>1, <2>2, <2>3, <2>4 DEF OnItsWay, Goal, Goals
<1>11. CASE ReadCfg(Reading)
  <2>1. PICK pc \in {rd.ret, "bad"} :
          /\ rd.pc = "cfg" /\ (pc # "bad" => Reading.cfg = rd.man.cfg)
          /\ rd' = IF pc = "bad" THEN [rd EXCEPT !.pc = "bad"]
                                ELSE [rd EXCEPT !.cfg = Reading.cfg, !.pc = pc]
    <3>1. rd.ret # "bad" BY <1>3 DEF Goals
    <3> QED BY <1>11, <3>1 DEF ReadCfg, ReadPayload, SameBytes
  <2>2. /\ rd' \in ReadRegs /\ rd'.pc = pc /\ rd'.quiet = rd.quiet /\ rd'.ret = rd.ret
        /\ rd'.man = rd.man /\ rd'.db = rd.db
        /\ pc # "bad" => rd'.cfg = Reading.cfg
    <3>1. Reading.cfg \in Int BY <1>4 DEF Dirs
    <3>2. pc \in ReadPcs BY <1>0 DEF BundleTypes, ReadRegs, ReadPcs
    <3> QED BY <1>0, <2>1, <3>1, <3>2 DEF BundleTypes, ReadRegs, ReadPcs
  <2>3. rd'.pc \notin OnItsWay /\ rd'.pc # "rcfg" BY <1>3, <2>2 DEF OnItsWay, Goals
  <2>4. rd'.pc # "bad" => rd'.pc = rd.ret BY <2>2
  <2>5. ReadHonest'
    <3>1. CASE pc = "bad" \/ rd.ret = "bmanifest"
      BY <2>2, <3>1 DEF ReadHonest, Goals
    <3>2. CASE pc # "bad" /\ rd.ret # "bmanifest"
      <4>1. /\ rd.man \in sealed /\ (rd.quiet => rd.man = bundle.man /\ Valid(rd.man))
            /\ rd.db = rd.man.db /\ (rd.quiet => rd.db = bundle.db)
        BY <1>0, <2>1, <3>2 DEF ReadHonest
      <4>2. rd'.cfg = rd.man.cfg /\ rd'.cfg = bundle.cfg BY <1>4, <2>1, <2>2, <3>2
      <4> QED BY <1>1, <2>2, <2>3, <4>1, <4>2 DEF ReadHonest
    <3> QED BY <3>1, <3>2
  <2>6. opsCase = "seal" /\ rd.quiet => OwnRead'
    BY <1>4, <1>5, <2>1, <2>2, <2>3, <2>4 DEF OwnRead, OnItsWay
  <2>7. rd'.pc = "bad" \/ Goal' = Goal BY <1>1, <2>3, <2>4 DEF Goal
  <2>8. rd'.pc # "db" BY <2>3 DEF OnItsWay
  <2> QED BY <1>6, <2>1, <2>2, <2>5, <2>6, <2>7, <2>8
<1> QED BY <1>7, <1>8, <1>9, <1>10, <1>11 DEF VerifyBundle
-------------------------------------------------------------------------------
(* restore, the frames of a verification, and the world. *)

\* Frames, and where a verification starts from.
LEMMA MakersSame ==
    ASSUME MakersHonest, UNCHANGED <<maker, bundle, sealed, restored, foreign, opsCase>>
    PROVE  MakersHonest'
BY DEF MakersHonest
LEMMA NoReadingYet == NoReading \in ReadRegs
BY DEF NoReading, ReadRegs, ReadPcs, None, ManRecs, Absent
LEMMA VerifyingFacts ==
    ASSUME BundleTypes, NEW cmd \in ReadPcs
    PROVE  /\ Verifying(cmd) \in ReadRegs /\ Verifying(cmd).pc = "scan"
           /\ Verifying(cmd).ret = cmd /\ Verifying(cmd).quiet = rd.quiet
<1>1. None \in ManRecs /\ Absent \in Int BY ManRecValues DEF Absent
<1>2. "scan" \in ReadPcs BY DEF ReadPcs
<1> QED BY <1>1, <1>2 DEF Verifying, BundleTypes, ReadRegs
LEMMA NothingRead ==
    ASSUME rd'.pc \notin {"db", "sound", "cfg"} \cup Goals
    PROVE  ReadHonest'
BY DEF ReadHonest, Goals

\* A command that verifies or restores, but for the verification itself.
BundleKept ==
    /\ BundleTypes' /\ MakersHonest' /\ ReadHonest' /\ rd'.pc \in BundlePcs
    /\ rd'.pc \in OnItsWay => rd'.ret \in {"good", "mktarget"}

\* verify and restore begin to read; nothing of an earlier reading is left.
LEMMA BeginVerifyKeeps ==
    ASSUME OpsInv, opsCase = "bundle", opsCase' = opsCase,
           NEW cmd \in {"good", "mktarget"}, BeginVerify(cmd)
    PROVE  BundleKept
<1> USE DEF World
<1>0. BundleTypes /\ MakersHonest BY DEF OpsInv
<1>1. rd' \in ReadRegs /\ rd'.pc = "scan" /\ rd'.ret = cmd
  <2>1. cmd \in ReadPcs BY DEF ReadPcs
  <2>2. rd' = [Verifying(cmd) EXCEPT !.quiet = TRUE] BY DEF BeginVerify
  <2> QED BY <1>0, <2>1, <2>2, VerifyingFacts DEF ReadRegs
<1>2. ReadHonest' BY <1>1, NothingRead DEF Goals
<1>3. MakersHonest' BY <1>0, MakersSame DEF BeginVerify
<1> QED BY <1>0, <1>1, <1>2, <1>3 DEF BundleKept, BeginVerify, BundleTypes, BundlePcs, OnItsWay

\* restore makes a directory of its own.
LEMMA MakeTargetKeeps ==
    ASSUME OpsInv, opsCase = "bundle", opsCase' = opsCase, MakeTarget
    PROVE  BundleKept
<1> USE DEF World, RdGoes
<1>0. BundleTypes /\ MakersHonest /\ ReadHonest BY DEF OpsInv
<1>1. rd.pc = "mktarget" /\ \E pc \in {"rdb", "bad"} : rd' = [rd EXCEPT !.pc = pc]
  BY DEF MakeTarget
<1>2. PICK pc \in {"rdb", "bad"} : rd' = [rd EXCEPT !.pc = pc] BY <1>1
<1>3. /\ rd' \in ReadRegs /\ rd'.pc = pc /\ rd'.man = rd.man /\ rd'.db = rd.db
      /\ rd'.cfg = rd.cfg /\ rd'.quiet = rd.quiet
  BY <1>0, <1>2 DEF BundleTypes, ReadRegs, ReadPcs
<1>4. target' \in Dirs
  BY <1>0, ManRecValues DEF MakeTarget, BundleTypes, Dirs
<1>5. MakersHonest' BY <1>0, MakersSame DEF MakeTarget
<1>6. ReadHonest' BY <1>0, <1>1, <1>3 DEF MakeTarget, ReadHonest, Goals
<1> QED
  BY <1>0, <1>3, <1>4, <1>5, <1>6 DEF BundleKept, MakeTarget, BundleTypes, BundlePcs, OnItsWay

\* The database in it is the one that was verified.
LEMMA RestoreDbKeeps ==
    ASSUME OpsInv, opsCase = "bundle", opsCase' = opsCase, RestoreDb
    PROVE  BundleKept
<1> USE DEF World, RdGoes
<1>0. BundleTypes /\ MakersHonest /\ ReadHonest BY DEF OpsInv
<1>1. /\ rd.pc = "rdb" /\ target' = [target EXCEPT !.db = bundle.db]
      /\ rd' = [rd EXCEPT !.pc = IF target'.db = rd.db /\ Sound(target'.db) THEN "rcfg" ELSE "undo"]
  BY DEF RestoreDb, ReadPayload, SameBytes
<1>2. PICK pc \in {"rcfg", "undo"} : rd' = [rd EXCEPT !.pc = pc] /\ (pc = "rcfg" => target'.db = rd.db)
  BY <1>1
<1>3. /\ rd' \in ReadRegs /\ rd'.pc = pc /\ rd'.man = rd.man /\ rd'.db = rd.db
      /\ rd'.cfg = rd.cfg /\ rd'.quiet = rd.quiet
  BY <1>0, <1>2 DEF BundleTypes, ReadRegs, ReadPcs
<1>4. target' \in Dirs
  BY <1>0, <1>1 DEF BundleTypes, Dirs
<1>5. MakersHonest' BY <1>0, MakersSame DEF RestoreDb
<1>6. ReadHonest' BY <1>0, <1>1, <1>2, <1>3 DEF RestoreDb, ReadHonest, Goals
<1> QED
  BY <1>0, <1>3, <1>4, <1>5, <1>6 DEF BundleKept, RestoreDb, BundleTypes, BundlePcs, OnItsWay

\* Nothing is said to be restored but what one manifest describes.
LEMMA RestoreCfgKeeps ==
    ASSUME OpsInv, opsCase = "bundle", opsCase' = opsCase, RestoreCfg
    PROVE  BundleKept
<1> USE DEF World, RdGoes
<1>0. BundleTypes /\ MakersHonest /\ ReadHonest BY DEF OpsInv
<1>1. /\ rd.pc = "rcfg" /\ target' = [target EXCEPT !.cfg = bundle.cfg]
      /\ UNCHANGED <<liveDb, liveCfg, world, maker, bundle, sealed, foreign>>
  BY DEF RestoreCfg, ReadPayload
<1>2. target' \in Dirs /\ target'.cfg = bundle.cfg
  BY <1>0, <1>1 DEF BundleTypes, Dirs
<1>3. rd.man \in sealed /\ target.db = rd.man.db /\ rd.cfg = rd.man.cfg
  BY <1>0, <1>1 DEF ReadHonest, Goals
<1>4. CASE rd.cfg = target'.cfg
  <2>1. rd' = [rd EXCEPT !.pc = "good"]
        /\ restored' = restored \cup {[db |-> target.db, cfg |-> target'.cfg]}
    BY <1>4 DEF RestoreCfg, SameBytes
  <2>2. /\ rd' \in ReadRegs /\ rd'.pc = "good" /\ rd'.man = rd.man /\ rd'.db = rd.db
        /\ rd'.cfg = rd.cfg /\ rd'.quiet = rd.quiet
    BY <1>0, <2>1 DEF BundleTypes, ReadRegs, ReadPcs
  <2>3. [db |-> target.db, cfg |-> target'.cfg] \in [db : Int, cfg : Int]
    BY <1>0, <1>2 DEF BundleTypes, Dirs
  <2>4. BundleTypes' BY <1>0, <1>1, <1>2, <2>1, <2>2, <2>3 DEF BundleTypes
  <2>5. MakersHonest'
    <3>1. \A r \in restored' : \E s \in sealed : s.db = r.db /\ s.cfg = r.cfg
      <4>1. \A r \in restored : \E s \in sealed : s.db = r.db /\ s.cfg = r.cfg
        BY <1>0 DEF MakersHonest
      <4> DEFINE n == [db |-> target.db, cfg |-> target'.cfg]
      <4>2. rd.man.db = n.db /\ rd.man.cfg = n.cfg BY <1>3, <1>4
      <4> HIDE DEF n
      <4>3. restored' = restored \cup {n} BY <2>1 DEF n
      <4> QED BY <1>3, <4>1, <4>2, <4>3
    <3> QED BY <1>0, <1>1, <3>1 DEF MakersHonest
  <2>6. ReadHonest' BY <1>0, <1>1, <2>2 DEF ReadHonest, Goals
  <2> QED BY <2>2, <2>4, <2>5, <2>6 DEF BundleKept, BundlePcs, OnItsWay
<1>5. CASE rd.cfg # target'.cfg
  <2>1. rd' = [rd EXCEPT !.pc = "undo"] /\ restored' = restored
    BY <1>5 DEF RestoreCfg, SameBytes
  <2>2. rd' \in ReadRegs /\ rd'.pc = "undo"
    BY <1>0, <2>1 DEF BundleTypes, ReadRegs, ReadPcs
  <2>3. ReadHonest' BY <2>2, NothingRead DEF Goals
  <2>4. MakersHonest' BY <1>0, <1>1, <2>1, MakersSame
  <2>5. BundleTypes' BY <1>0, <1>1, <1>2, <2>1, <2>2 DEF BundleTypes
  <2> QED BY <2>2, <2>3, <2>4, <2>5 DEF BundleKept, BundlePcs, OnItsWay
<1> QED BY <1>4, <1>5

\* A command that fails, undoes or ends forgets what it read.
LEMMA ReadsEnd ==
    ASSUME OpsInv, opsCase = "bundle", opsCase' = opsCase,
           \/ FailRead({"scan", "manifest", "db", "sound", "cfg", "mktarget", "rdb", "rcfg"},
                       {"rdb", "rcfg"})
           \/ UndoTarget \/ EndRead
    PROVE  BundleKept
<1> USE DEF World, RdGoes
<1>0. BundleTypes /\ MakersHonest BY DEF OpsInv
<1>1. /\ UNCHANGED <<liveDb, liveCfg, world, maker, bundle, sealed, restored, foreign>>
      /\ target' \in {target, NoDir}
      /\ rd' = NoReading \/ rd' = [rd EXCEPT !.pc = "undo"] \/ rd' = [rd EXCEPT !.pc = "bad"]
  BY DEF FailRead, UndoTarget, EndRead
<1>2. rd' \in ReadRegs /\ rd'.pc \in {"idle", "undo", "bad"}
  BY <1>0, <1>1, NoReadingYet DEF BundleTypes, ReadRegs, ReadPcs, NoReading
<1>3. ReadHonest' BY <1>2, NothingRead DEF Goals
<1>4. MakersHonest' BY <1>0, <1>1, MakersSame
<1> QED
  BY <1>0, <1>1, <1>2, <1>3, <1>4, ManRecValues DEF BundleKept, BundleTypes, BundlePcs, OnItsWay

\* What the world does to the bundle takes the quiet from the command that reads it.
Disturbs == rd' = [rd EXCEPT !.quiet = FALSE] /\ target' = target

\* What was read before still goes with its manifest, though it may not lie there.
LEMMA Disturbed ==
    ASSUME BundleTypes, ReadHonest, Disturbs, sealed \subseteq sealed'
    PROVE  ReadHonest' /\ rd' \in ReadRegs /\ rd'.quiet = FALSE /\ rd'.pc = rd.pc
           /\ rd'.ret = rd.ret /\ rd'.man = rd.man /\ rd'.db = rd.db /\ rd'.cfg = rd.cfg
<1>1. /\ rd' \in ReadRegs /\ rd'.quiet = FALSE /\ rd'.pc = rd.pc /\ rd'.ret = rd.ret
      /\ rd'.man = rd.man /\ rd'.db = rd.db /\ rd'.cfg = rd.cfg
  BY DEF Disturbs, BundleTypes, ReadRegs
<1> QED BY <1>1 DEF ReadHonest, Disturbs

\* The service writes on, a bundle decays or is cleared away.
LEMMA WorldKeeps ==
    ASSUME OpsInv, opsCase = "bundle", opsCase' = opsCase,
           CommitLive \/ EditLive \/ Decay \/ ClearBundle
    PROVE  BundleKept
<1>0. BundleTypes /\ MakersHonest /\ ReadHonest /\ WhereItIs BY DEF OpsInv
<1>1. /\ Disturbs /\ world' \in Nat /\ UNCHANGED <<maker, sealed, restored, foreign>>
  BY <1>0 DEF CommitLive, EditLive, Decay, ClearBundle, Turns, Disturbs, BundleTypes
<1>2. liveDb' \in Nat /\ liveCfg' \in Nat \cup {Half}
  BY <1>0 DEF CommitLive, EditLive, Decay, ClearBundle, BundleTypes, Half
<1>3. bundle' \in Dirs
  BY <1>0, ManRecValues DEF CommitLive, EditLive, Decay, ClearBundle, BundleTypes, Dirs, Broken
<1>4. MakersHonest'
  <2>1. CASE ClearBundle
    <3>1. \A m \in Makers : maker[m].pc \notin Making \cup {"undo"}
      BY <1>0, <2>1 DEF MakersHonest, ClearBundle
    <3>2. bundle' = NoDir BY <2>1 DEF ClearBundle
    <3> QED BY <1>0, <1>1, <3>1, <3>2, ManRecValues DEF MakersHonest, Making, Unsealed
  <2>2. CASE CommitLive \/ EditLive \/ Decay
    <3>1. bundle'.man = bundle.man /\ bundle'.maker = bundle.maker
      BY <1>0, <2>2 DEF CommitLive, EditLive, Decay, BundleTypes, Dirs
    <3> QED BY <1>0, <1>1, <3>1 DEF MakersHonest
  <2> QED BY <2>1, <2>2
<1>5. ReadHonest' /\ rd' \in ReadRegs /\ rd'.pc = rd.pc /\ rd'.ret = rd.ret
  BY <1>0, <1>1, Disturbed
<1> QED BY <1>0, <1>1, <1>2, <1>3, <1>4, <1>5 DEF BundleKept, BundleTypes, WhereItIs, Disturbs

\* The whole behaviour about the bundle.
LEMMA BundleStepKeeps ==
    ASSUME OpsInv, opsCase = "bundle", BundleNext, UNCHANGED <<contractvars, sealvars>>
    PROVE  OpsInv'
<1>0. opsCase' = opsCase /\ WhereItIs BY DEF sealvars, OpsInv
<1>1. ASSUME BundleKept PROVE OpsInv'
  BY <1>1, BundleFrame DEF BundleKept
<1>2. ASSUME NEW m \in Makers,
             \/ MakeDir(m) \/ Snapshot(m) \/ CopyPayload(m) \/ ReadAgain(m) \/ CheckMade(m)
             \/ BeginManifest(m) \/ EndManifest(m) \/ EndMake(m) \/ FailMake(m)
             \/ RemoveCreatedDir(m) \/ KillMaker(m)
      PROVE  OpsInv'
  <2>1. BundleTypes' /\ MakersHonest' /\ ReadHonest'
    BY <1>0, <1>2, MakeDirKeeps, SnapshotKeeps, CopyPayloadKeeps, ReadAgainKeeps, CheckMadeKeeps,
       BeginManifestKeeps, EndManifestKeeps, OtherMakerStepsKeep, RemoveCreatedDirKeeps
  <2>2. rd'.pc = rd.pc /\ rd'.ret = rd.ret
    BY <1>2 DEF OpsInv, BundleTypes, ReadRegs, MakeDir, Snapshot, CopyPayload, ReadAgain,
       CheckMade, BeginManifest, EndManifest, EndMake, FailMake, RemoveCreatedDir, KillMaker
  <2> QED BY <1>0, <1>1, <2>1, <2>2 DEF BundleKept, WhereItIs
<1>3. CASE VerifyBundle(bundle)
  <2>0. rd.pc \in OnItsWay
    BY <1>3 DEF VerifyBundle, ScanEntries, ReadManifest, ReadDb, CheckDb, ReadCfg, OnItsWay
  <2>3. Reading = bundle BY <1>0, <2>0 DEF Reading, WhereItIs
  <2>1. VerifyKept BY <1>0, <1>3, <2>3, VerifyKeeps DEF sealvars
  <2>2. rd'.pc \in BundlePcs /\ (rd'.pc \in OnItsWay => rd'.ret \in {"good", "mktarget"})
    BY <1>0, <2>1 DEF VerifyKept, WhereItIs, Preparing, Goal, BundlePcs, OnItsWay
  <2> QED BY <1>1, <2>1, <2>2 DEF BundleKept, VerifyKept
<1> QED BY <1>0, <1>1, <1>2, <1>3, BeginVerifyKeeps, MakeTargetKeeps, RestoreDbKeeps,
           RestoreCfgKeeps, ReadsEnd, WorldKeeps DEF BundleNext
-------------------------------------------------------------------------------
(* The contract. *)

\* A step of a behaviour about the contract or the seal does nothing to the bundle
\* but read it, unless the world turns.
LEMMA BundleStill ==
    ASSUME OpsInv, UNCHANGED <<BundleSide, world, opsCase>>, rd' \in ReadRegs,
           rd'.pc \notin {"db", "sound", "cfg"} \cup Goals
    PROVE  BundleTypes' /\ MakersHonest' /\ ReadHonest'
<1>1. BundleTypes' BY DEF OpsInv, BundleTypes, BundleSide
<1>2. MakersHonest' BY MakersSame DEF OpsInv, BundleSide
<1> QED BY <1>1, <1>2, NothingRead

\* A step to another place keeps all the rest of the registers.
LEMMA RdGoesTo ==
    ASSUME BundleTypes, NEW pc \in ReadPcs, rd' = [rd EXCEPT !.pc = pc]
    PROVE  /\ rd' \in ReadRegs /\ rd'.pc = pc /\ rd'.ret = rd.ret /\ rd'.quiet = rd.quiet
           /\ rd'.man = rd.man /\ rd'.db = rd.db /\ rd'.cfg = rd.cfg
BY DEF BundleTypes, ReadRegs
\* Where nothing is said of a document.
FreePcs == {"idle", "bad", "mkseal", "ledger", "bmanifest", "seal", "swrite", "sgood"} \cup EarlyPcs
LEMMA NothingBound ==
    ASSUME rd'.pc \in FreePcs, contract'.doc.whole => Cites(contract.doc)'
    PROVE  SameTwice' /\ WalkHonest' /\ ContractsHonest'
BY DEF SameTwice, WalkHonest, ContractsHonest, Goal, FreePcs, EarlyPcs, OnItsWay
LEMMA CitesStill ==
    ASSUME OpsInv, UNCHANGED sealed, contract'.doc = contract.doc
    PROVE  contract'.doc.whole => Cites(contract.doc)'
BY DEF OpsInv, ContractsHonest, Cites

\* A command owns no more than before.
LEMMA NothingOwned ==
    ASSUME OpsInv, rd'.pc \in FreePcs \cup {"mkcontract", "kscan", "kgood"},
           kr'.mine => kr.mine /\ contract'.doc = contract.doc
    PROVE  OwnContract'
BY DEF OpsInv, OwnContract, Goal, FreePcs, EarlyPcs, OnItsWay

\* The empty document and the resting command.
LEMMA NoDocs ==
    /\ NoDoc \in Docs /\ KResting \in [cmd : {"none", "prepare", "check", "seal", "unseal"},
                                       mine : BOOLEAN, of : Releases, doc : Docs, check : Docs]
    /\ NoContract \in [there : BOOLEAN, doc : Docs] /\ ~NoContract.doc.whole
<1>1. None \in ManRecs /\ Absent \in Int BY ManRecValues DEF Absent
<1>2. NoDoc \in Docs /\ ~NoDoc.whole BY <1>1 DEF NoDoc, Docs, NoTree
<1> QED BY <1>2 DEF KResting, NoContract, Releases

ContractKept ==
    /\ BundleTypes' /\ ContractTypes' /\ WhereItIs' /\ MakersHonest' /\ ReadHonest'
    /\ SameTwice' /\ WalkHonest' /\ OwnContract' /\ ContractsHonest'

\* prepare begins with an empty document.
LEMMA BeginPrepareKeeps ==
    ASSUME OpsInv, opsCase = "contract", opsCase' = opsCase, BeginPrepare
    PROVE  ContractKept
<1>0. BundleTypes /\ ContractTypes BY DEF OpsInv
<1>1. PICK pc \in {"mkcontract", "bad"} : rd' = [NoReading EXCEPT !.pc = pc]
  BY DEF BeginPrepare
<1>2. rd' \in ReadRegs /\ rd'.pc = pc
  BY <1>1, NoReadingYet DEF ReadRegs, ReadPcs
<1>3. kr' = [KResting EXCEPT !.cmd = "prepare"] /\ UNCHANGED <<BundleSide, world, tree, contract>>
  BY DEF BeginPrepare
<1>4. ContractTypes' BY <1>0, <1>3, NoDocs DEF ContractTypes
<1>5. WhereItIs' BY <1>2, <1>3, NoDocs DEF WhereItIs, Preparing, Goal, OnItsWay, ContractPcs
<1>6. SameTwice' /\ WalkHonest'
  <2>1. kr'.of = "current" /\ kr'.doc = NoDoc /\ kr'.cmd = "prepare" BY <1>3 DEF KResting
  <2> QED BY <1>2, <2>1 DEF SameTwice, WalkHonest, Goal, OnItsWay, Preparing
<1>7. ContractsHonest'
  <2>1. contract'.doc.whole => Cites(contract.doc)' BY <1>3, CitesStill DEF BundleSide
  <2> QED BY <1>2, <2>1 DEF ContractsHonest
<1>8. BundleTypes' /\ MakersHonest' /\ ReadHonest'
  BY <1>2, <1>3, BundleStill DEF Goals
<1>9. OwnContract'
  <2>1. ~kr'.mine BY <1>3 DEF KResting
  <2> QED BY <1>2, <2>1, NothingOwned DEF FreePcs
<1> QED BY <1>4, <1>5, <1>6, <1>7, <1>8, <1>9 DEF ContractKept

\* The directory of the answer is its own, and empty.
LEMMA MakeContractDirKeeps ==
    ASSUME OpsInv, opsCase = "contract", opsCase' = opsCase, MakeContractDir
    PROVE  ContractKept
<1>0. BundleTypes /\ ContractTypes /\ WhereItIs BY DEF OpsInv
<1>1. /\ rd.pc = "mkcontract" /\ UNCHANGED <<BundleSide, world, tree>>
      /\ kr.of = "current" /\ kr.doc = NoDoc
  BY DEF MakeContractDir, OpsInv, WalkHonest
<1>2. CASE contract.there
  <2>1. rd' = [rd EXCEPT !.pc = "bad"] /\ kr' = kr /\ contract' = contract
    BY <1>2 DEF MakeContractDir, KGoes
  <2>2. rd' \in ReadRegs /\ rd'.pc = "bad" BY <1>0, <2>1, RdGoesTo DEF ReadPcs
  <2>3. SameTwice' /\ WalkHonest' /\ ContractsHonest'
    BY <1>1, <2>1, <2>2, NothingBound, CitesStill DEF FreePcs, BundleSide
  <2>4. BundleTypes' /\ MakersHonest' /\ ReadHonest'
    BY <1>1, <2>2, BundleStill DEF Goals
  <2>5. ContractTypes' /\ WhereItIs'
    BY <1>0, <1>1, <2>1, <2>2
       DEF ContractTypes, WhereItIs, Preparing, Goal, OnItsWay, ContractPcs
  <2>6. OwnContract' BY <2>1, <2>2, NothingOwned DEF FreePcs
  <2> QED BY <2>3, <2>4, <2>5, <2>6 DEF ContractKept
<1>3. CASE ~contract.there
  <2>1. /\ rd' = [rd EXCEPT !.pc = "walk"] /\ kr' = [kr EXCEPT !.mine = TRUE]
        /\ contract' = [NoContract EXCEPT !.there = TRUE]
    BY <1>3 DEF MakeContractDir, KGoes
  <2>2. rd' \in ReadRegs /\ rd'.pc = "walk" BY <1>0, <2>1, RdGoesTo DEF ReadPcs
  <2>3. kr'.of = "current" /\ kr'.doc = NoDoc /\ kr'.cmd = kr.cmd
    BY <1>0, <1>1, <2>1 DEF ContractTypes
  <2>4. ContractTypes' /\ ~contract'.doc.whole BY <1>0, <1>1, <2>1, NoDocs DEF ContractTypes
  <2>5. BundleTypes' /\ MakersHonest' /\ ReadHonest'
    BY <1>1, <2>2, BundleStill DEF Goals
  <2>6. WhereItIs' BY <1>0, <2>2, <2>3 DEF WhereItIs, Preparing, Goal, OnItsWay, ContractPcs
  <2>7. SameTwice' /\ ContractsHonest'
    BY <2>2, <2>4 DEF SameTwice, ContractsHonest, Goal, OnItsWay
  <2>8. WalkHonest'
    <3>1. kr'.doc[kr'.of] = <<>> /\ kr'.doc.candidate = <<>> BY <2>3 DEF NoDoc, NoTree
    <3>2. Len(TreeFiles) > 0 /\ Len(<<>>) = 0 BY TreeAssumption
    <3>3. kr'.cmd = "prepare"
      BY <1>0, <1>1, <2>3 DEF OpsInv, WalkHonest, Preparing
    <3> QED BY <2>2, <2>3, <3>1, <3>2, <3>3 DEF WalkHonest, Preparing, Goal, OnItsWay
  <2>9. OwnContract'
    <3>1. kr'.mine BY <1>0, <2>1 DEF ContractTypes
    <3> QED BY <2>2, <2>4, <3>1 DEF OwnContract
  <2> QED BY <2>4, <2>5, <2>6, <2>7, <2>8, <2>9 DEF ContractKept
<1> QED BY <1>2, <1>3
-------------------------------------------------------------------------------
(* The walk through a release. *)

\* A sequence of the same values is the function itself.
LEMMA SeqIs ==
    ASSUME NEW n \in Nat, NEW s \in Seq(Int), NEW f \in [1..n -> Int], Len(s) = n,
           \A i \in 1..n : s[i] = f[i]
    PROVE  s = f
<1>1. s \in [1..n -> Int] OBVIOUS
<1> QED BY <1>1

\* What was read so far agrees with what lies there; so it does one file later, and it
\* is all of it when it is as long.
LEMMA SeqNext ==
    ASSUME NEW n \in Nat, NEW s \in Seq(Int), NEW f \in [1..n -> Int], Len(s) < n
    PROVE  LET t == Append(s, f[Len(s) + 1])
           IN  /\ t \in Seq(Int) /\ Len(t) = Len(s) + 1 /\ Len(t) <= n
               /\ (\A i \in 1..Len(s) : s[i] = f[i]) => \A i \in 1..Len(t) : t[i] = f[i]
               /\ Len(t) >= n /\ (\A i \in 1..Len(t) : t[i] = f[i]) => t = f
<1> DEFINE v == f[Len(s) + 1]
<1>1. v \in Int /\ Len(s) \in Nat OBVIOUS
<1> HIDE DEF v
<1> DEFINE t == Append(s, v)
<1>2. /\ t \in Seq(Int) /\ Len(t) = Len(s) + 1 /\ Len(t) <= n
      /\ \A i \in 1..Len(t) : t[i] = IF i <= Len(s) THEN s[i] ELSE v
  BY <1>1
<1> HIDE DEF t
<1>3. (\A i \in 1..Len(s) : s[i] = f[i]) => \A i \in 1..Len(t) : t[i] = f[i]
  <2>1. ASSUME \A i \in 1..Len(s) : s[i] = f[i], NEW i \in 1..Len(t) PROVE t[i] = f[i]
    <3>1. CASE i <= Len(s)
      <4>1. i \in 1..Len(s) /\ t[i] = s[i] BY <1>1, <1>2, <3>1
      <4> QED BY <2>1, <4>1
    <3>2. CASE ~(i <= Len(s))
      <4>1. i = Len(s) + 1 BY <1>1, <1>2, <3>2
      <4> QED BY <1>2, <3>2, <4>1 DEF v
    <3> QED BY <3>1, <3>2
  <2> QED BY <2>1
<1>4. Len(t) >= n /\ (\A i \in 1..Len(t) : t[i] = f[i]) => t = f
  BY <1>1, <1>2, SeqIs
<1> QED BY <1>2, <1>3, <1>4 DEF t, v

\* What a walk makes of the document: one release is read one file further.
Files == Len(TreeFiles)
LEMMA FilesCount == Files \in Nat /\ Files > 0
BY TreeAssumption DEF Files
Walked(t) ==
    /\ t \in Seq(Int) /\ Len(t) <= Files /\ Len(t) = Len(kr.doc[kr.of]) + 1
    /\ rd.quiet => \A i \in 1..Len(t) : t[i] = tree[kr.of][i]
    /\ rd.quiet /\ Len(t) >= Files => t = tree[kr.of]
WalksOn(t) ==
    /\ Len(t) < Files /\ rd' = [rd EXCEPT !.pc = "walk"]
    /\ \/ kr.of = "current" /\ kr' = [kr EXCEPT !.doc.current = t]
       \/ kr.of = "candidate" /\ kr' = [kr EXCEPT !.doc.candidate = t]
WalksOver(t) ==
    /\ Len(t) >= Files /\ kr.of = "current" /\ rd' = [rd EXCEPT !.pc = "walk"]
    /\ kr' = [kr EXCEPT !.doc.current = t, !.of = "candidate"]
    /\ Preparing \/ t = kr.check.current
WalkEnds(t) ==
    /\ Len(t) >= Files /\ kr.of = "candidate" /\ kr' = [kr EXCEPT !.doc.candidate = t]
    /\ rd' = Verifying(IF Preparing THEN "digest" ELSE "kcheck")
    /\ Preparing \/ t = kr.check.candidate
WalkFails(t) ==
    /\ rd' = [rd EXCEPT !.pc = "bad"]
    /\ kr' = [kr EXCEPT !.doc.current = t] \/ kr' = [kr EXCEPT !.doc.candidate = t]

\* A walk goes on, passes to the other release, ends or fails.
LEMMA WalkTreeCases ==
    ASSUME OpsInv, WalkTree
    PROVE  \E t : Walked(t) /\ (WalksOn(t) \/ WalksOver(t) \/ WalkEnds(t) \/ WalkFails(t))
<1>0. ContractTypes /\ WalkHonest BY DEF OpsInv
<1> DEFINE s == kr.doc[kr.of]
           f == tree[kr.of]
           t == Append(s, f[Len(s) + 1])
<1>1. rd.pc = "walk" BY DEF WalkTree
<1>2. Files \in Nat /\ s \in Seq(Int) /\ f \in [1..Files -> Int] /\ Len(s) < Files
  <2>1. kr.of \in Releases /\ kr.doc \in Docs BY <1>0 DEF ContractTypes
  <2>2. s \in Seq(Int) BY <2>1 DEF Releases, Docs
  <2>3. f \in [1..Files -> Int] BY <1>0, <2>1 DEF ContractTypes, Files
  <2> QED BY <1>0, <1>1, <2>2, <2>3, FilesCount DEF WalkHonest, Files
<1>3. rd.quiet => \A i \in 1..Len(s) : s[i] = f[i]
  BY <1>0, <1>1 DEF WalkHonest
<1>4. /\ t \in Seq(Int) /\ Len(t) = Len(s) + 1 /\ Len(t) <= Files
      /\ (\A i \in 1..Len(s) : s[i] = f[i]) => \A i \in 1..Len(t) : t[i] = f[i]
      /\ Len(t) >= Files /\ (\A i \in 1..Len(t) : t[i] = f[i]) => t = f
  <2> HIDE DEF s, f
  <2> QED BY <1>2, SeqNext DEF t
<1>5. Walked(t) BY <1>3, <1>4 DEF Walked
<1>6. kr.of = "current" \/ kr.of = "candidate" BY <1>0 DEF ContractTypes, Releases
<1> DEFINE regs == [kr EXCEPT !.doc[kr.of] = t]
<1>7. \/ Len(t) < Files /\ rd' = [rd EXCEPT !.pc = "walk"] /\ kr' = regs
      \/ /\ Len(t) >= Files /\ (Preparing \/ t = kr.check[kr.of])
         /\ IF kr.of = "current"
            THEN rd' = [rd EXCEPT !.pc = "walk"] /\ kr' = [regs EXCEPT !.of = "candidate"]
            ELSE rd' = Verifying(IF Preparing THEN "digest" ELSE "kcheck") /\ kr' = regs
      \/ rd' = [rd EXCEPT !.pc = "bad"] /\ kr' = regs
  <2>1. LET t0 == HashFile(kr.doc[kr.of], Len(kr.doc[kr.of]) + 1) IN t0 = t BY DEF HashFile
  <2>2. Len(t) \in Nat BY <1>2, <1>4
  <2> HIDE DEF t, s, f
  <2> QED
    BY <1>2, <2>1, <2>2 DEF WalkTree, AfterWalk, KGoes, ReleaseHolds, Files, HashFile, t, s, f
<1> HIDE DEF t, s, f
<1>8. CASE kr.of = "current"
  <2>1. regs = [kr EXCEPT !.doc.current = t] BY <1>8
  <2>2. [regs EXCEPT !.of = "candidate"] = [kr EXCEPT !.doc.current = t, !.of = "candidate"]
    BY <1>0, <2>1 DEF ContractTypes
  <2> QED BY <1>5, <1>7, <1>8, <2>1, <2>2 DEF WalksOn, WalksOver, WalkFails
<1>9. CASE kr.of = "candidate"
  <2>1. regs = [kr EXCEPT !.doc.candidate = t] BY <1>9
  <2> QED BY <1>5, <1>7, <1>9, <2>1 DEF WalksOn, WalkEnds, WalkFails
<1> QED BY <1>6, <1>8, <1>9

\* Undisturbed, the document has so far what lies in the releases.
LEMMA WalkTreeKeeps ==
    ASSUME OpsInv, opsCase # "bundle", WalkTree, UNCHANGED opsCase
    PROVE  ContractKept /\ rd'.pc \in {"walk", "scan", "bad"}
           /\ (rd'.pc = "scan" => rd'.ret = IF Preparing THEN "digest" ELSE "kcheck")
           /\ rd'.quiet = rd.quiet
<1>0. BundleTypes /\ ContractTypes /\ SealTypes /\ WhereItIs /\ WalkHonest BY DEF OpsInv
<1>1. rd.pc = "walk" /\ UNCHANGED <<BundleSide, world, tree, contract>> BY DEF WalkTree
<1>2. PICK t : Walked(t) /\ (WalksOn(t) \/ WalksOver(t) \/ WalkEnds(t) \/ WalkFails(t))
  BY WalkTreeCases
<1>3. t \in Seq(Int) /\ kr.doc \in Docs BY <1>0, <1>2 DEF Walked, ContractTypes
<1>4. ContractTypes' /\ kr'.cmd = kr.cmd /\ kr'.check = kr.check /\ kr'.mine = kr.mine
  <2>1. [kr.doc EXCEPT !.current = t] \in Docs /\ [kr.doc EXCEPT !.candidate = t] \in Docs
    BY <1>3 DEF Docs
  <2>2. /\ kr'.cmd = kr.cmd /\ kr'.check = kr.check /\ kr'.mine = kr.mine
        /\ kr' \in [cmd : {"none", "prepare", "check", "seal", "unseal"}, mine : BOOLEAN,
                    of : Releases, doc : Docs, check : Docs]
    BY <1>0, <1>2, <2>1 DEF WalksOn, WalksOver, WalkEnds, WalkFails, ContractTypes, Releases
  <2> QED BY <1>0, <1>1, <2>2 DEF ContractTypes
<1>5. contract'.doc.whole => Cites(contract.doc)' BY <1>1, CitesStill DEF BundleSide
<1>6. ASSUME rd' \in ReadRegs, rd'.pc \in {"walk", "scan", "bad"}
      PROVE  BundleTypes' /\ MakersHonest' /\ ReadHonest'
  BY <1>1, <1>6, BundleStill DEF Goals
<1>7. ASSUME rd'.pc \in {"walk", "bad"} PROVE WhereItIs' /\ SameTwice' /\ ContractsHonest'
  <2>1. WhereItIs'
    BY <1>0, <1>1, <1>4, <1>7
       DEF WhereItIs, Preparing, Goal, OnItsWay, ContractPcs, SealPcs, LatePcs
  <2>2. SameTwice' /\ ContractsHonest'
    BY <1>5, <1>7 DEF SameTwice, ContractsHonest, Goal, OnItsWay
  <2> QED BY <2>1, <2>2
<1>12. rd'.pc \in {"walk", "bad"} \/ Goal' = (IF Preparing THEN "digest" ELSE "kcheck") => OwnContract'
  <2>1. OwnContract BY DEF OpsInv
  <2> QED BY <1>1, <1>4, <2>1 DEF OwnContract, Goal, OnItsWay, Preparing
<1>8. CASE WalkFails(t)
  <2>1. rd' \in ReadRegs /\ rd'.pc = "bad" /\ rd'.quiet = rd.quiet
    BY <1>0, <1>8, RdGoesTo DEF WalkFails, ReadPcs
  <2>2. WalkHonest' BY <1>5, <2>1, NothingBound DEF FreePcs
  <2> QED BY <1>4, <1>6, <1>7, <1>12, <2>1, <2>2 DEF ContractKept
<1>9. CASE WalksOn(t)
  <2>1. rd' \in ReadRegs /\ rd'.pc = "walk" /\ rd'.quiet = rd.quiet
    BY <1>0, <1>9, RdGoesTo DEF WalksOn, ReadPcs
  <2>2. /\ kr'.of = kr.of /\ kr'.doc[kr.of] = t
        /\ kr.of = "current" => kr'.doc.candidate = kr.doc.candidate
        /\ kr.of = "candidate" => kr'.doc.current = kr.doc.current
    BY <1>0, <1>3, <1>9 DEF WalksOn, ContractTypes, Docs
  <2>3. WalkHonest'
    <3>1. Len(kr'.doc[kr'.of]) < Len(TreeFiles)
          /\ (rd'.quiet => \A i \in 1..Len(kr'.doc[kr'.of]) : kr'.doc[kr'.of][i] = tree[kr'.of][i])
      BY <1>2, <1>9, <2>1, <2>2 DEF Walked, WalksOn, Files
    <3>2. /\ kr'.of = "current" => kr'.doc.candidate = <<>>
          /\ rd'.quiet /\ kr'.of = "candidate" => kr'.doc.current = tree["current"]
      BY <1>0, <1>1, <2>1, <2>2 DEF WalkHonest
    <3>3. rd'.quiet /\ ~Preparing' =>
            kr'.check = contract.doc /\ (kr'.of = "candidate" => kr'.check.current = tree["current"])
      BY <1>0, <1>1, <1>4, <2>1, <2>2 DEF WalkHonest, Preparing
    <3> QED BY <1>1, <2>1, <3>1, <3>2, <3>3 DEF WalkHonest, Goal, OnItsWay
  <2> QED BY <1>4, <1>6, <1>7, <1>12, <2>1, <2>3 DEF ContractKept
<1>10. CASE WalksOver(t)
  <2>1. rd' \in ReadRegs /\ rd'.pc = "walk" /\ rd'.quiet = rd.quiet
    BY <1>0, <1>10, RdGoesTo DEF WalksOver, ReadPcs
  <2>2. /\ kr.of = "current" /\ kr'.of = "candidate" /\ kr'.doc.current = t
        /\ kr'.doc.candidate = kr.doc.candidate
    BY <1>0, <1>3, <1>10 DEF WalksOver, ContractTypes, Docs
  <2>3. WalkHonest'
    <3>1. kr'.doc.candidate = <<>> BY <1>0, <1>1, <2>2 DEF WalkHonest
    <3>2. kr'.doc[kr'.of] = <<>> BY <2>2, <3>1
    <3>3. Len(<<>>) = 0 /\ Len(TreeFiles) > 0 BY FilesCount DEF Files
    <3>4. rd'.quiet => kr'.doc.current = tree["current"]
      BY <1>2, <1>10, <2>1, <2>2 DEF Walked, WalksOver
    <3>5. rd'.quiet /\ ~Preparing' => kr'.check = contract.doc /\ kr'.check.current = tree["current"]
      BY <1>0, <1>1, <1>2, <1>4, <1>10, <2>1, <2>2 DEF WalkHonest, Preparing, WalksOver, Walked
    <3> QED BY <1>1, <2>1, <2>2, <3>2, <3>3, <3>4, <3>5 DEF WalkHonest, Goal, OnItsWay
  <2> QED BY <1>4, <1>6, <1>7, <1>12, <2>1, <2>3 DEF ContractKept
<1>11. CASE WalkEnds(t)
  <2> DEFINE goal == IF Preparing THEN "digest" ELSE "kcheck"
  <2>1. goal \in ReadPcs BY DEF ReadPcs
  <2>2. /\ rd' \in ReadRegs /\ rd'.pc = "scan" /\ rd'.ret = goal /\ rd'.quiet = rd.quiet
    BY <1>0, <1>11, <2>1, VerifyingFacts DEF WalkEnds
  <2>3. /\ kr.of = "candidate" /\ kr'.doc.candidate = t /\ kr'.doc.current = kr.doc.current
    BY <1>0, <1>3, <1>11 DEF WalkEnds, ContractTypes, Docs
  <2>4. Goal' = goal BY <2>2 DEF Goal, OnItsWay
  <2>5. WalkHonest'
    <3>1. rd'.quiet => kr'.doc.candidate = tree["candidate"] /\ kr'.doc.current = tree["current"]
      BY <1>0, <1>1, <1>2, <1>11, <2>2, <2>3 DEF Walked, WalkHonest, WalkEnds
    <3>2. rd'.quiet /\ goal = "kcheck" =>
            /\ kr'.check = contract.doc /\ kr'.check.current = tree["current"]
            /\ kr'.check.candidate = tree["candidate"]
      BY <1>0, <1>1, <1>4, <1>11, <2>2, <2>3, <3>1 DEF WalkHonest, WalkEnds
    <3>3. goal # "again" OBVIOUS
    <3> HIDE DEF goal
    <3> QED BY <1>1, <2>2, <2>4, <3>1, <3>2, <3>3 DEF WalkHonest, TreesHold, Releases
  <2>6. SameTwice' /\ ContractsHonest'
    BY <1>5, <2>2, <2>4 DEF SameTwice, ContractsHonest
  <2>7. WhereItIs'
    <3>1. opsCase = "contract" => kr.cmd \in {"none", "prepare", "check"}
      BY <1>0 DEF WhereItIs
    <3>2. opsCase = "seal" => kr.cmd \in {"none", "seal", "unseal"} /\ goal = "kcheck"
      BY <1>0 DEF WhereItIs, Preparing
    <3>3. goal = "digest" \/ (goal = "kcheck" /\ kr.cmd # "prepare") BY DEF Preparing
    <3> HIDE DEF goal
    <3> QED
      BY <1>0, <1>4, <2>2, <2>4, <3>1, <3>2, <3>3
         DEF WhereItIs, Preparing, OnItsWay, ContractPcs, SealPcs
  <2> QED BY <1>4, <1>6, <1>12, <2>2, <2>4, <2>5, <2>6, <2>7 DEF ContractKept
<1> QED BY <1>2, <1>8, <1>9, <1>10, <1>11

\* The bundle is verified on the way, for the first or the second time.
LEMMA VerifyOfContract ==
    ASSUME OpsInv, opsCase # "bundle", VerifyBundle(Reading),
           UNCHANGED <<contractvars, opsCase, spare>>
    PROVE  ContractKept /\ VerifyKept
<1>0. ContractTypes /\ SealTypes /\ WhereItIs /\ SameTwice /\ WalkHonest BY DEF OpsInv
<1>1. VerifyKept BY VerifyKeeps
<1>2. ContractTypes' BY <1>0 DEF ContractTypes, contractvars
<1>3. opsCase = "contract" => rd.ret \in {"digest", "again", "kcheck"}
  BY <1>0, <1>1 DEF WhereItIs, VerifyKept
<1>4. opsCase = "seal" => rd.ret \in {"bmanifest", "kcheck"}
  BY <1>0, <1>1 DEF WhereItIs, VerifyKept
<1>5. Goal = rd.ret /\ (rd'.pc = "bad" \/ rd'.pc \in OnItsWay \/ rd'.pc = rd.ret)
  BY <1>1 DEF VerifyKept, Goal
<1>6. opsCase = "contract" \/ opsCase = "seal" BY <1>0 DEF SealTypes
<1>7. WhereItIs'
  <2>1. kr'.cmd = kr.cmd /\ opsCase' = opsCase BY DEF contractvars
  <2>2. Goal' = "kcheck" => Goal = "kcheck"
    BY <1>1, <1>5 DEF VerifyKept, Goal, OnItsWay
  <2>3. rd'.ret = rd.ret BY <1>1 DEF VerifyKept
  <2>4. rd'.pc # "kscan" BY <1>3, <1>4, <1>5, <1>6 DEF OnItsWay
  <2> QED BY <1>0, <1>3, <1>4, <1>5, <1>6, <2>1, <2>2, <2>3, <2>4
       DEF WhereItIs, Preparing, ContractPcs, SealPcs, LatePcs
<1>8. SameTwice'
  <2>1. Goal' = "again" => Goal = "again" BY <1>1 DEF VerifyKept, Goal, OnItsWay
  <2>2. Goal' = "again" => Reading = bundle BY <1>5, <2>1 DEF Reading
  <2> QED BY <1>0, <1>1, <2>1, <2>2 DEF SameTwice, VerifyKept, Goals, contractvars
<1>9. WalkHonest'
  <2>1. rd'.pc \notin {"kscan", "mkcontract", "walk"}
    BY <1>3, <1>4, <1>5, <1>6 DEF OnItsWay
  <2>2. \A g \in {"digest", "again", "kcheck"} : Goal' = g => Goal = g
    BY <1>1 DEF VerifyKept, Goal, OnItsWay
  <2> QED BY <1>0, <1>1, <2>1, <2>2 DEF WalkHonest, VerifyKept, contractvars, TreesHold
<1>10. ContractsHonest'
  <2>1. contract'.doc.whole => Cites(contract.doc)'
    BY <1>1, CitesStill DEF VerifyKept, contractvars
  <2>2. rd'.pc \notin {"document", "kwrite", "kgood"}
    BY <1>3, <1>4, <1>5, <1>6 DEF OnItsWay
  <2> QED BY <2>1, <2>2 DEF ContractsHonest
<1>11. OwnContract'
  <2>1. OwnContract BY DEF OpsInv
  <2>2. rd'.pc # "walk" BY <1>3, <1>4, <1>5, <1>6 DEF OnItsWay
  <2>3. \A g \in {"digest", "again", "document", "kwrite"} : Goal' = g => Goal = g
    BY <1>1 DEF VerifyKept, Goal, OnItsWay
  <2> QED BY <2>1, <2>2, <2>3 DEF OwnContract, contractvars
<1> QED BY <1>1, <1>2, <1>7, <1>8, <1>9, <1>10, <1>11 DEF ContractKept, VerifyKept

\* The digest is taken of what the first verification read, or of a later bundle, whose
\* manifest no reader has seen before.
LEMMA BindDigestKeeps ==
    ASSUME OpsInv, opsCase = "contract", opsCase' = opsCase, BindDigest
    PROVE  ContractKept
<1>0. BundleTypes /\ ContractTypes /\ WhereItIs /\ MakersHonest /\ ReadHonest /\ WalkHonest
  BY DEF OpsInv
<1>1. rd.pc = "digest" /\ UNCHANGED <<BundleSide, world, tree, contract>> BY DEF BindDigest
<1>2. contract'.doc.whole => Cites(contract.doc)' BY <1>1, CitesStill DEF BundleSide
<1>3. CASE bundle.man = None
  <2>1. rd' = [rd EXCEPT !.pc = "bad"] /\ kr' = kr BY <1>3 DEF BindDigest, KGoes, Digest
  <2>2. rd' \in ReadRegs /\ rd'.pc = "bad" BY <1>0, <2>1, RdGoesTo DEF ReadPcs
  <2>3. ContractTypes' /\ WhereItIs'
    BY <1>0, <1>1, <2>1, <2>2
       DEF ContractTypes, WhereItIs, Preparing, Goal, OnItsWay, ContractPcs
  <2>4. OwnContract' BY <1>1, <2>1, <2>2, NothingOwned DEF FreePcs
  <2> QED
    BY <1>1, <1>2, <2>2, <2>3, <2>4, NothingBound, BundleStill DEF ContractKept, FreePcs, Goals
<1>4. CASE bundle.man # None
  <2>1. /\ rd' = Verifying("again")
        /\ kr' = [kr EXCEPT !.doc.man = bundle.man, !.doc.db = rd.db, !.doc.cfg = rd.cfg]
    BY <1>4 DEF BindDigest, Digest, Fingerprint
  <2>2. /\ rd' \in ReadRegs /\ rd'.pc = "scan" /\ rd'.ret = "again" /\ rd'.quiet = rd.quiet
        /\ Goal' = "again"
    BY <1>0, <2>1, VerifyingFacts DEF ReadPcs, Goal, OnItsWay
  <2>3. /\ kr'.doc.man = bundle.man /\ kr'.doc.db = rd.db /\ kr'.doc.cfg = rd.cfg
        /\ kr'.doc.current = kr.doc.current /\ kr'.doc.candidate = kr.doc.candidate
        /\ kr'.cmd = kr.cmd /\ kr'.mine = kr.mine /\ ContractTypes'
    <3>1. /\ kr' = [kr EXCEPT !.doc = [kr.doc EXCEPT !.man = bundle.man, !.db = rd.db, !.cfg = rd.cfg]]
      BY <1>0, <2>1 DEF ContractTypes, Docs
    <3>2. [kr.doc EXCEPT !.man = bundle.man, !.db = rd.db, !.cfg = rd.cfg] \in Docs
      BY <1>0 DEF ContractTypes, Docs, BundleTypes, Dirs, ReadRegs
    <3> QED BY <1>0, <1>1, <3>1, <3>2 DEF ContractTypes, Docs
  <2>4. WhereItIs' BY <1>0, <2>2, <2>3 DEF WhereItIs, Preparing, OnItsWay, ContractPcs
  <2>5. SameTwice' BY <1>0, <1>1, <2>2, <2>3 DEF SameTwice, MakersHonest, BundleSide
  <2>6. WalkHonest'
    <3>1. rd'.quiet => TreesHold(kr'.doc)
      BY <1>0, <1>1, <2>2, <2>3 DEF WalkHonest, TreesHold, Goal, OnItsWay, Releases
    <3>2. rd'.quiet => kr'.doc.db = bundle.db /\ kr'.doc.cfg = bundle.cfg
      BY <1>0, <1>1, <2>2, <2>3 DEF ReadHonest, Goals
    <3> QED BY <1>1, <2>2, <2>3, <3>1, <3>2 DEF WalkHonest, TreesHold, BundleSide
  <2>7. ContractsHonest' BY <1>2, <2>2 DEF ContractsHonest
  <2>8. OwnContract'
    <3>1. kr.mine /\ ~contract.doc.whole
      BY <1>1 DEF OpsInv, OwnContract, Goal, OnItsWay
    <3> QED BY <1>1, <2>2, <2>3, <3>1 DEF OwnContract
  <2> QED BY <1>1, <2>2, <2>3, <2>4, <2>5, <2>6, <2>7, <2>8, BundleStill DEF ContractKept, Goals
<1> QED BY <1>3, <1>4

\* The second verification binds contents and manifest: either it read the manifest of
\* the digest, or that one has gone and cannot come back.
LEMMA BindAgainKeeps ==
    ASSUME OpsInv, opsCase = "contract", opsCase' = opsCase, BindAgain
    PROVE  ContractKept
<1>0. /\ BundleTypes /\ ContractTypes /\ WhereItIs /\ MakersHonest /\ ReadHonest /\ WalkHonest
      /\ SameTwice
  BY DEF OpsInv
<1>1. rd.pc = "again" /\ UNCHANGED <<BundleSide, world, tree, contract, kr>>
  BY DEF BindAgain, KGoes
<1>2. contract'.doc.whole => Cites(contract.doc)' BY <1>1, CitesStill DEF BundleSide
<1>3. PICK pc \in {"document", "bad"} : /\ rd' = [rd EXCEPT !.pc = pc]
                                        /\ pc = "document" => BoundTwice(kr.doc)
  BY DEF BindAgain, KGoes
<1>4. rd' \in ReadRegs /\ rd'.pc = pc /\ rd'.quiet = rd.quiet
  BY <1>0, <1>3, RdGoesTo DEF ReadPcs
<1>5. ContractTypes' /\ WhereItIs'
  BY <1>0, <1>1, <1>4 DEF ContractTypes, WhereItIs, Preparing, Goal, OnItsWay, ContractPcs
<1>6. SameTwice' /\ WalkHonest' BY <1>4 DEF SameTwice, WalkHonest, Goal, OnItsWay
<1>7. pc = "document" => Cites(kr.doc) /\ (rd.quiet => ContractMatches(kr.doc))
  <2>1. Goal = "again" BY <1>1 DEF Goal, OnItsWay
  <2>2. pc = "document" => rd.db = kr.doc.db /\ rd.cfg = kr.doc.cfg /\ bundle.man = kr.doc.man
    BY <1>3 DEF BoundTwice, Fingerprint, Digest
  <2>3. /\ rd.db = rd.man.db /\ rd.cfg = rd.man.cfg /\ kr.doc.man \in sealed
        /\ rd.man = kr.doc.man \/ bundle.man # kr.doc.man
    BY <1>0, <1>1, <2>1 DEF ReadHonest, SameTwice, Goals
  <2>4. rd.quiet => TreesHold(kr.doc) /\ kr.doc.db = bundle.db /\ kr.doc.cfg = bundle.cfg
    BY <1>0, <2>1 DEF WalkHonest
  <2> QED BY <2>2, <2>3, <2>4 DEF Cites, ContractMatches, TreesHold
<1>8. ContractsHonest'
  BY <1>1, <1>2, <1>4, <1>7 DEF ContractsHonest, Cites, ContractMatches, BundleSide
<1>9. BundleTypes' /\ MakersHonest' /\ ReadHonest'
  BY <1>1, <1>4, BundleStill DEF Goals
<1>10. OwnContract'
  <2>1. kr.mine /\ ~contract.doc.whole
    BY <1>1 DEF OpsInv, OwnContract, Goal, OnItsWay
  <2> QED BY <1>1, <1>4, <2>1 DEF OwnContract, Goal, OnItsWay
<1> QED BY <1>5, <1>6, <1>8, <1>9, <1>10 DEF ContractKept

\* The document is written where nobody else writes.
LEMMA WriteContractKeeps ==
    ASSUME OpsInv, opsCase = "contract", opsCase' = opsCase, BeginContract \/ EndContract
    PROVE  ContractKept
<1>0. BundleTypes /\ ContractTypes /\ WhereItIs /\ ContractsHonest /\ OwnContract BY DEF OpsInv
<1>1. /\ rd.pc \in {"document", "kwrite"} /\ UNCHANGED <<BundleSide, world, tree>>
      /\ Cites(kr.doc) /\ (rd.quiet => ContractMatches(kr.doc))
  BY <1>0 DEF BeginContract, EndContract, KGoes, ContractsHonest
<1>2. kr.mine /\ ~contract.doc.whole BY <1>0, <1>1 DEF OwnContract, Goal, OnItsWay
<1>3. CASE BeginContract
  <2>1. /\ rd' = [rd EXCEPT !.pc = "kwrite"] /\ kr' = kr
        /\ contract' = [contract EXCEPT !.doc.db = Half]
    BY <1>3 DEF BeginContract, KGoes
  <2>2. rd' \in ReadRegs /\ rd'.pc = "kwrite" /\ rd'.quiet = rd.quiet
    BY <1>0, <2>1, RdGoesTo DEF ReadPcs
  <2>3. ~contract'.doc.whole /\ ContractTypes'
    <3>1. contract' = [contract EXCEPT !.doc = [contract.doc EXCEPT !.db = Half]]
      BY <2>1
    <3>2. [contract.doc EXCEPT !.db = Half] \in Docs
      <4>1. Half \in Int BY DEF Half
      <4> QED BY <1>0, <4>1 DEF ContractTypes, Docs
    <3> QED BY <1>0, <1>1, <1>2, <2>1, <3>1, <3>2 DEF ContractTypes, Docs
  <2>4. WhereItIs' BY <1>0, <2>1, <2>2 DEF WhereItIs, Preparing, Goal, OnItsWay, ContractPcs
  <2>5. SameTwice' /\ WalkHonest' BY <2>2 DEF SameTwice, WalkHonest, Goal, OnItsWay
  <2>6. OwnContract' BY <1>2, <2>1, <2>2, <2>3 DEF OwnContract
  <2>7. ContractsHonest'
    BY <1>1, <2>1, <2>2, <2>3 DEF ContractsHonest, Cites, ContractMatches, BundleSide
  <2>8. BundleTypes' /\ MakersHonest' /\ ReadHonest' BY <1>1, <2>2, BundleStill DEF Goals
  <2> QED BY <2>3, <2>4, <2>5, <2>6, <2>7, <2>8 DEF ContractKept
<1>4. CASE EndContract
  <2>1. /\ rd' = [rd EXCEPT !.pc = "kgood"] /\ kr' = [kr EXCEPT !.mine = FALSE]
        /\ contract' = [contract EXCEPT !.doc = [kr.doc EXCEPT !.whole = TRUE]]
    BY <1>4 DEF EndContract, KGoes
  <2>2. rd' \in ReadRegs /\ rd'.pc = "kgood" /\ rd'.quiet = rd.quiet
    BY <1>0, <2>1, RdGoesTo DEF ReadPcs
  <2>3. /\ ContractTypes' /\ contract'.doc = [kr.doc EXCEPT !.whole = TRUE] /\ kr'.cmd = kr.cmd
        /\ ~kr'.mine
    BY <1>0, <1>1, <2>1 DEF ContractTypes, Docs
  <2>4. /\ contract'.doc.current = kr.doc.current /\ contract'.doc.candidate = kr.doc.candidate
        /\ contract'.doc.man = kr.doc.man /\ contract'.doc.db = kr.doc.db
        /\ contract'.doc.cfg = kr.doc.cfg
    BY <1>0, <2>3 DEF ContractTypes, Docs
  <2>5. WhereItIs' BY <1>0, <2>2, <2>3 DEF WhereItIs, Preparing, Goal, OnItsWay, ContractPcs
  <2>6. SameTwice' /\ WalkHonest' BY <2>2 DEF SameTwice, WalkHonest, Goal, OnItsWay
  <2>7. OwnContract' BY <2>2, <2>3, NothingOwned
  <2>8. ContractsHonest'
    <3>1. Cites(contract.doc)' BY <1>1, <2>4 DEF Cites, BundleSide
    <3>2. rd.quiet => ContractMatches(contract.doc)'
      BY <1>1, <2>4 DEF ContractMatches, Releases, BundleSide
    <3> QED BY <2>2, <3>1, <3>2 DEF ContractsHonest
  <2>9. BundleTypes' /\ MakersHonest' /\ ReadHonest' BY <1>1, <2>2, BundleStill DEF Goals
  <2> QED BY <2>3, <2>5, <2>6, <2>7, <2>8, <2>9 DEF ContractKept
<1> QED BY <1>3, <1>4

\* verify reads the document once and walks the releases anew.
LEMMA ScanContractKeeps ==
    ASSUME OpsInv, opsCase # "bundle", opsCase' = opsCase, ScanContract
    PROVE  ContractKept /\ rd'.pc \in {"walk", "bad"} /\ rd'.quiet = rd.quiet
<1>0. BundleTypes /\ ContractTypes /\ SealTypes /\ WhereItIs /\ WalkHonest BY DEF OpsInv
<1>1. /\ rd.pc = "kscan" /\ UNCHANGED <<BundleSide, world, tree, contract>>
      /\ kr.of = "current" /\ kr.doc = NoDoc
  BY <1>0 DEF ScanContract, WalkHonest
<1>2. PICK pc \in {"walk", "bad"} : rd' = [rd EXCEPT !.pc = pc]
                               /\ kr' = IF pc = "walk" THEN [kr EXCEPT !.check = contract.doc] ELSE kr
  BY DEF ScanContract, KGoes
<1>3. rd' \in ReadRegs /\ rd'.pc = pc /\ rd'.quiet = rd.quiet
  BY <1>0, <1>2, RdGoesTo DEF ReadPcs
<1>4. /\ ContractTypes' /\ kr'.of = "current" /\ kr'.doc = NoDoc /\ kr'.cmd = kr.cmd
      /\ kr'.mine = kr.mine /\ (pc = "walk" => kr'.check = contract.doc)
  BY <1>0, <1>1, <1>2 DEF ContractTypes
<1>5. WhereItIs' /\ ~Preparing
  <2>1. ~Preparing BY <1>0, <1>1 DEF WhereItIs, Preparing, SealTypes
  <2> QED BY <1>0, <1>1, <1>3, <1>4, <2>1
      DEF WhereItIs, Preparing, Goal, OnItsWay, ContractPcs, SealPcs, LatePcs, SealTypes
<1>6. SameTwice' BY <1>3 DEF SameTwice, Goal, OnItsWay
<1>7. WalkHonest'
  <2>1. kr'.doc[kr'.of] = <<>> /\ kr'.doc.candidate = <<>> BY <1>4 DEF NoDoc, NoTree
  <2>2. Len(TreeFiles) > 0 /\ Len(<<>>) = 0 BY TreeAssumption
  <2> QED BY <1>1, <1>3, <1>4, <2>1, <2>2 DEF WalkHonest, Goal, OnItsWay
<1>8. OwnContract'
  <2>1. OwnContract BY DEF OpsInv
  <2> QED BY <1>1, <1>3, <1>4, <1>5, <2>1 DEF OwnContract, Preparing, Goal, OnItsWay
<1>9. ContractsHonest'
  <2>1. contract'.doc.whole => Cites(contract.doc)' BY <1>1, CitesStill DEF BundleSide
  <2> QED BY <1>3, <2>1 DEF ContractsHonest
<1>10. BundleTypes' /\ MakersHonest' /\ ReadHonest' BY <1>1, <1>3, BundleStill DEF Goals
<1> QED BY <1>3, <1>4, <1>5, <1>6, <1>7, <1>8, <1>9, <1>10 DEF ContractKept

\* Undisturbed, a contract that is found good is true of what lies there.
LEMMA CheckBackupKeeps ==
    ASSUME OpsInv, opsCase # "bundle", opsCase' = opsCase, CheckBackup
    PROVE  ContractKept /\ rd'.pc \in {"kgood", "bad"} /\ rd'.quiet = rd.quiet
<1>0. BundleTypes /\ ContractTypes /\ SealTypes /\ WhereItIs /\ WalkHonest /\ ReadHonest
  BY DEF OpsInv
<1>1. /\ rd.pc = "kcheck" /\ UNCHANGED <<BundleSide, world, tree, contract, kr>>
  BY DEF CheckBackup, KGoes
<1>2. PICK pc \in {"kgood", "bad"} :
        rd' = [rd EXCEPT !.pc = pc] /\ (pc = "kgood" => BackupHolds(kr.check))
  BY DEF CheckBackup, KGoes
<1>3. rd' \in ReadRegs /\ rd'.pc = pc /\ rd'.quiet = rd.quiet
  BY <1>0, <1>2, RdGoesTo DEF ReadPcs
<1>4. ContractTypes' BY <1>0, <1>1 DEF ContractTypes
<1>5. WhereItIs'
  BY <1>0, <1>1, <1>3 DEF WhereItIs, Preparing, Goal, OnItsWay, ContractPcs, SealPcs, LatePcs
<1>6. SameTwice' /\ WalkHonest' BY <1>3 DEF SameTwice, WalkHonest, Goal, OnItsWay
<1>7. OwnContract' BY <1>1, <1>3, NothingOwned DEF FreePcs
<1>8. ContractsHonest'
  <2>1. contract'.doc.whole => Cites(contract.doc)' BY <1>1, CitesStill DEF BundleSide
  <2>2. Goal = "kcheck" BY <1>1 DEF Goal, OnItsWay
  <2>3. rd.quiet => kr.check = contract.doc /\ TreesHold(kr.check) BY <1>0, <2>2 DEF WalkHonest
  <2>4. rd.quiet => rd.db = bundle.db /\ rd.cfg = bundle.cfg
    BY <1>0, <1>1 DEF ReadHonest, Goals
  <2>5. rd.quiet /\ pc = "kgood" => ContractMatches(contract.doc)
    BY <1>2, <2>3, <2>4 DEF BackupHolds, Fingerprint, Digest, ContractMatches, TreesHold
  <2> QED BY <1>1, <1>3, <2>1, <2>5 DEF ContractsHonest, ContractMatches, BundleSide
<1>9. BundleTypes' /\ MakersHonest' /\ ReadHonest' BY <1>1, <1>3, BundleStill DEF Goals
<1> QED BY <1>3, <1>4, <1>5, <1>6, <1>7, <1>8, <1>9 DEF ContractKept

\* Only what prepare made is removed.
LEMMA UndoContractKeeps ==
    ASSUME OpsInv, opsCase = "contract", opsCase' = opsCase, UndoContract
    PROVE  ContractKept
<1>0. BundleTypes /\ ContractTypes /\ WhereItIs BY DEF OpsInv
<1>1. /\ rd.pc = "bad" /\ rd' = rd /\ UNCHANGED <<BundleSide, world, tree>>
      /\ kr' = [kr EXCEPT !.mine = FALSE] /\ contract' \in {contract, NoContract}
  BY DEF UndoContract
<1>2. ContractTypes' /\ ~kr'.mine /\ kr'.cmd = kr.cmd
  BY <1>0, <1>1, NoDocs DEF ContractTypes
<1>3. contract'.doc.whole => Cites(contract.doc)'
  BY <1>1, CitesStill, NoDocs DEF BundleSide
<1>4. SameTwice' /\ WalkHonest' /\ ContractsHonest' BY <1>1, <1>3, NothingBound DEF FreePcs
<1>5. OwnContract' BY <1>1, <1>2, NothingOwned DEF FreePcs
<1>6. WhereItIs'
  BY <1>0, <1>1, <1>2 DEF WhereItIs, Preparing, Goal, OnItsWay
<1>7. BundleTypes' /\ MakersHonest' /\ ReadHonest'
  <2>1. rd' \in ReadRegs BY <1>0, <1>1 DEF BundleTypes
  <2> QED BY <1>1, <2>1, BundleStill DEF Goals
<1> QED BY <1>2, <1>4, <1>5, <1>6, <1>7 DEF ContractKept

\* verify of the contract begins with nothing in hand.
LEMMA BeginVerifyContractKeeps ==
    ASSUME OpsInv, opsCase = "contract", opsCase' = opsCase, BeginVerifyContract
    PROVE  ContractKept
<1>0. BundleTypes /\ ContractTypes /\ WhereItIs BY DEF OpsInv
<1>1. /\ rd' = [NoReading EXCEPT !.pc = "kscan"] /\ UNCHANGED <<BundleSide, world, tree, contract>>
      /\ kr' = [KResting EXCEPT !.cmd = "check"]
  BY DEF BeginVerifyContract, ContractSide
<1>2. rd' \in ReadRegs /\ rd'.pc = "kscan" BY <1>1, NoReadingYet DEF ReadRegs, ReadPcs
<1>3. kr'.of = "current" /\ kr'.doc = NoDoc /\ kr'.cmd = "check" /\ ~kr'.mine
  BY <1>1 DEF KResting
<1>4. ContractTypes' BY <1>0, <1>1, NoDocs DEF ContractTypes
<1>5. WhereItIs' BY <1>2, <1>3 DEF WhereItIs, Preparing, Goal, OnItsWay, ContractPcs
<1>6. SameTwice' /\ WalkHonest' BY <1>2, <1>3 DEF SameTwice, WalkHonest, Goal, OnItsWay
<1>7. OwnContract' BY <1>2, <1>3, NothingOwned
<1>8. ContractsHonest'
  <2>1. contract'.doc.whole => Cites(contract.doc)' BY <1>1, CitesStill DEF BundleSide
  <2> QED BY <1>2, <2>1 DEF ContractsHonest
<1>9. BundleTypes' /\ MakersHonest' /\ ReadHonest' BY <1>1, <1>2, BundleStill DEF Goals
<1> QED BY <1>4, <1>5, <1>6, <1>7, <1>8, <1>9 DEF ContractKept

\* A command that fails, ends or is killed, of the contract or of the seal.
LEMMA CommandStops ==
    ASSUME OpsInv, opsCase # "bundle", FailCommand \/ EndCommand
    PROVE  ContractKept /\ SealsHonest' /\ SealTypes'
<1>0. BundleTypes /\ ContractTypes /\ SealTypes /\ WhereItIs BY DEF OpsInv
<1>1. /\ UNCHANGED <<BundleSide, world, tree, contract, inputs, evidence, spare, seal, opsCase>>
      /\ kr' \in {kr, KResting} /\ sr' \in {sr, SResting}
      /\ rd' = NoReading \/ rd' = [rd EXCEPT !.pc = "bad"]
  BY DEF FailCommand, EndCommand, RdGoes, contractvars, sealvars, ContractSide, OpsSide
<1>2. rd' \in ReadRegs /\ rd'.pc \in {"idle", "bad"}
  <2>1. CASE rd' = NoReading BY <2>1, NoReadingYet DEF NoReading
  <2>2. CASE rd' = [rd EXCEPT !.pc = "bad"]
    <3>1. "bad" \in ReadPcs BY DEF ReadPcs
    <3> QED BY <1>0, <2>2, <3>1, RdGoesTo
  <2> QED BY <1>1, <2>1, <2>2
<1>3. ContractTypes' /\ kr'.cmd \in {kr.cmd, "none"} /\ (kr'.mine => kr.mine)
  BY <1>0, <1>1, NoDocs DEF ContractTypes, KResting
<1>4. contract'.doc.whole => Cites(contract.doc)' BY <1>1, CitesStill DEF BundleSide
<1>5. SameTwice' /\ WalkHonest' /\ ContractsHonest' BY <1>2, <1>4, NothingBound DEF FreePcs
<1>6. OwnContract' BY <1>1, <1>2, <1>3, NothingOwned DEF FreePcs
<1>7. WhereItIs'
  BY <1>0, <1>1, <1>2, <1>3
     DEF WhereItIs, Preparing, Goal, OnItsWay, ContractPcs, SealPcs
<1>8. BundleTypes' /\ MakersHonest' /\ ReadHonest' BY <1>1, <1>2, BundleStill DEF Goals
<1>9. SealsHonest' BY <1>2 DEF SealsHonest, OwnRead, Goal, OnItsWay, EarlyPcs, LatePcs
<1>10. SResting \in [mine : BOOLEAN, doc : SealDocs]
  <2>1. None \in ManRecs /\ Absent \in Int BY ManRecValues DEF Absent
  <2> QED BY <2>1, NoDocs DEF SResting, NoSeal, SealDocs
<1>11. SealTypes' BY <1>0, <1>1, <1>10 DEF SealTypes
<1> QED BY <1>3, <1>5, <1>6, <1>7, <1>8, <1>9, <1>11 DEF ContractKept

\* What the world does to the releases, the bundle and the contract.
LEMMA DisturbedContract ==
    ASSUME OpsInv, opsCase # "bundle",
           UNCHANGED <<kr, opsCase, maker, restored, foreign, liveDb, liveCfg>>,
           Disturbs, world' \in Nat, bundle' \in Dirs, sealed \subseteq sealed',
           sealed' \in SUBSET ManRecs, \A s \in sealed' : Sound(s.db) /\ s.cfg # Broken,
           bundle'.man \in sealed', bundle'.man = bundle.man \/ bundle'.man \notin sealed,
           ContractTypes', contract'.doc = contract.doc \/ (~kr.mine /\ ~contract'.doc.whole)
    PROVE  ContractKept
<1>0. /\ BundleTypes /\ ContractTypes /\ WhereItIs /\ MakersHonest /\ ReadHonest /\ SameTwice
      /\ WalkHonest /\ OwnContract /\ ContractsHonest
  BY DEF OpsInv
<1>1. /\ ReadHonest' /\ rd' \in ReadRegs /\ rd'.quiet = FALSE /\ rd'.pc = rd.pc
      /\ rd'.ret = rd.ret /\ rd'.man = rd.man
  BY <1>0, Disturbed
<1>2. BundleTypes' BY <1>0, <1>1 DEF BundleTypes, Disturbs
<1>3. Goal' = Goal BY <1>1 DEF Goal
<1>4. WhereItIs' BY <1>0, <1>1, <1>3 DEF WhereItIs, Preparing
<1>5. MakersHonest'
  <2>1. \A m \in Makers : maker[m].pc = "idle" BY <1>0 DEF MakersHonest
  <2> QED BY <1>0, <2>1 DEF MakersHonest, Making, Unsealed
<1>6. SameTwice' BY <1>0, <1>1, <1>3 DEF SameTwice
<1>7. WalkHonest' BY <1>0, <1>1, <1>3 DEF WalkHonest, Preparing
<1>8. OwnContract' BY <1>0, <1>1, <1>3 DEF OwnContract, Preparing
<1>9. ContractsHonest' BY <1>0, <1>1 DEF ContractsHonest, Cites
<1> QED BY <1>1, <1>2, <1>4, <1>5, <1>6, <1>7, <1>8, <1>9 DEF ContractKept

\* A file is upgraded, the bundle is made anew or decays, the contract is cleared away.
LEMMA WorldOfContractKeeps ==
    ASSUME OpsInv, opsCase # "bundle", opsCase' = opsCase, WorldOfContract
    PROVE  ContractKept /\ rd' = [rd EXCEPT !.quiet = FALSE]
<1>0. BundleTypes /\ ContractTypes /\ MakersHonest BY DEF OpsInv
<1>1. Turns => world' \in Nat /\ rd' = [rd EXCEPT !.quiet = FALSE]
  BY <1>0 DEF Turns, BundleTypes
<1>2. bundle.man \in sealed /\ bundle \in Dirs /\ sealed \in SUBSET ManRecs
      /\ \A s \in sealed : Sound(s.db) /\ s.cfg # Broken
  BY <1>0 DEF MakersHonest, BundleTypes
<1>3. ASSUME NEW r \in Releases, NEW i \in 1..Len(TreeFiles), Upgrade(r, i)
      PROVE  ContractKept /\ rd' = [rd EXCEPT !.quiet = FALSE]
  <2>1. /\ Turns /\ UNCHANGED <<BundleSide, contract, kr>>
        /\ tree' = [tree EXCEPT ![r][i] = IF @ = 2 THEN Absent ELSE 2]
    BY <1>3 DEF Upgrade
  <2>2. tree' \in [Releases -> [1..Len(TreeFiles) -> Int]]
    <3>1. Absent \in Int BY DEF Absent
    <3> QED BY <1>0, <2>1, <3>1 DEF ContractTypes
  <2>3. ContractTypes' BY <1>0, <2>1, <2>2 DEF ContractTypes
  <2> QED BY <1>1, <1>2, <2>1, <2>3, DisturbedContract DEF BundleSide, Disturbs
<1>4. CASE Remake
  <2>1. PICK m \in Makers, v \in {0, 1} :
          /\ \A s \in sealed : m # s.maker
          /\ LET man == [db |-> v, cfg |-> 0, maker |-> m]
             IN  /\ bundle' = [db |-> v, cfg |-> 0, man |-> man, maker |-> m]
                 /\ sealed' = sealed \cup {man}
    BY <1>4 DEF Remake
  <2>2. /\ Turns /\ UNCHANGED <<liveDb, liveCfg, maker, target, restored, foreign, tree, contract, kr>>
    BY <1>4 DEF Remake
  <2> DEFINE man == [db |-> v, cfg |-> 0, maker |-> m]
  <2>3. /\ man \in ManRecs /\ Sound(man.db) /\ man.cfg # Broken /\ man.maker = m
    BY MakersPositive DEF ManRecs, Sound, Broken
  <2>4. man \notin sealed BY <2>1, <2>3
  <2>5. bundle' \in Dirs /\ bundle'.man = man /\ sealed' = sealed \cup {man}
    BY <2>1, <2>3, MakersPositive DEF Dirs
  <2>6. ContractTypes' BY <1>0, <2>2 DEF ContractTypes
  <2> HIDE DEF man
  <2> QED BY <1>1, <1>2, <2>2, <2>3, <2>4, <2>5, <2>6, DisturbedContract DEF Disturbs
<1>5. CASE DecayWorld
  <2>1. /\ Turns /\ UNCHANGED <<liveDb, liveCfg, maker, target, sealed, restored, foreign, tree>>
        /\ UNCHANGED <<contract, kr>>
        /\ \/ bundle' = [bundle EXCEPT !.db = Broken]
           \/ bundle' = [bundle EXCEPT !.cfg = Broken]
    BY <1>5 DEF DecayWorld, Decay, contractvars
  <2>2. bundle' \in Dirs /\ bundle'.man = bundle.man
    BY <1>2, <2>1 DEF Dirs, Broken
  <2>3. ContractTypes' BY <1>0, <2>1 DEF ContractTypes
  <2> QED BY <1>1, <1>2, <2>1, <2>2, <2>3, DisturbedContract DEF Disturbs
<1>6. CASE ClearContract
  <2>1. Turns /\ ~kr.mine /\ contract' = NoContract /\ UNCHANGED <<BundleSide, tree, kr>>
    BY <1>6 DEF ClearContract
  <2>2. ContractTypes' BY <1>0, <2>1, NoDocs DEF ContractTypes
  <2> QED BY <1>1, <1>2, <2>1, <2>2, NoDocs, DisturbedContract DEF BundleSide, Disturbs
<1> QED BY <1>3, <1>4, <1>5, <1>6 DEF WorldOfContract

\* The whole behaviour about the contract.
LEMMA ContractStepKeeps ==
    ASSUME OpsInv, opsCase = "contract", PrepareAndCheck \/ WorldOfContract, UNCHANGED sealvars
    PROVE  OpsInv'
<1>1. opsCase' = opsCase /\ SealTypes' /\ SealsHonest'
  BY DEF sealvars, OpsInv, SealTypes, SealsHonest
<1>2. CASE VerifyBundle(bundle) /\ UNCHANGED contractvars
  <2>1. rd.pc \in OnItsWay
    BY <1>2 DEF VerifyBundle, ScanEntries, ReadManifest, ReadDb, CheckDb, ReadCfg, OnItsWay
  <2>2. Reading = bundle BY <2>1 DEF Reading, OpsInv, WhereItIs
  <2>3. ContractKept BY <1>1, <1>2, <2>2, VerifyOfContract DEF sealvars
  <2> QED BY <1>1, <2>3 DEF OpsInv, ContractKept
<1>3. CASE ~(VerifyBundle(bundle) /\ UNCHANGED contractvars)
  <2>1. ContractKept
    BY <1>1, <1>3, BeginPrepareKeeps, MakeContractDirKeeps, WalkTreeKeeps, BindDigestKeeps,
       BindAgainKeeps, WriteContractKeeps, ScanContractKeeps, CheckBackupKeeps,
       UndoContractKeeps, BeginVerifyContractKeeps, WorldOfContractKeeps DEF PrepareAndCheck
  <2> QED BY <1>1, <2>1 DEF OpsInv, ContractKept
<1> QED BY <1>2, <1>3
-------------------------------------------------------------------------------
(* The seal. *)

\* Steps of the seal that leave the bundle, the releases and the contract alone.
LEMMA SealFrame ==
    ASSUME OpsInv, opsCase = "seal", UNCHANGED <<BundleSide, world, tree, contract, opsCase>>,
           rd' \in ReadRegs, rd'.pc \in FreePcs \ {"bmanifest"},
           kr' = kr \/ (\E c \in {"seal", "unseal"} : kr' = [KResting EXCEPT !.cmd = c])
    PROVE  ContractKept
<1>0. BundleTypes /\ ContractTypes /\ WhereItIs BY DEF OpsInv
<1>1. ContractTypes' /\ (kr'.mine => kr.mine) /\ kr'.cmd \in {"none", "seal", "unseal"}
  <2>1. CASE kr' = kr BY <1>0, <2>1 DEF ContractTypes, WhereItIs
  <2>2. ASSUME NEW c \in {"seal", "unseal"}, kr' = [KResting EXCEPT !.cmd = c]
        PROVE  ContractTypes' /\ (kr'.mine => kr.mine) /\ kr'.cmd \in {"none", "seal", "unseal"}
    BY <1>0, <2>2, NoDocs DEF ContractTypes, KResting
  <2> QED BY <2>1, <2>2
<1>2. contract'.doc.whole => Cites(contract.doc)' BY CitesStill DEF BundleSide
<1>3. SameTwice' /\ WalkHonest' /\ ContractsHonest' BY <1>2, NothingBound
<1>4. OwnContract' BY <1>1, NothingOwned
<1>5. WhereItIs'
  BY <1>0, <1>1 DEF WhereItIs, FreePcs, SealPcs, EarlyPcs, LatePcs, OnItsWay
<1>6. BundleTypes' /\ MakersHonest' /\ ReadHonest'
  <2>1. rd'.pc \notin {"db", "sound", "cfg"} \cup Goals BY DEF FreePcs, EarlyPcs, Goals
  <2> QED BY <2>1, BundleStill
<1> QED BY <1>1, <1>3, <1>4, <1>5, <1>6 DEF ContractKept

SealKept == ContractKept /\ SealTypes' /\ SealsHonest'
SRegs == [mine : BOOLEAN, doc : SealDocs]

\* The command of the seal at rest.
LEMMA SRestingRegs == SResting \in SRegs /\ NoSeal \in SealDocs
<1>1. None \in ManRecs /\ Absent \in Int BY ManRecValues DEF Absent
<1> QED BY <1>1, NoDocs DEF SResting, NoSeal, SealDocs, SRegs

\* prepare and verify of the seal begin with nothing bound.
LEMMA BeginSealKeeps ==
    ASSUME OpsInv, opsCase = "seal", BeginSeal \/ BeginUnseal
    PROVE  SealKept
<1>1. /\ UNCHANGED <<BundleSide, world, tree, contract, inputs, evidence, spare, seal, opsCase>>
      /\ sr' = SResting /\ \E c \in {"seal", "unseal"} : kr' = [KResting EXCEPT !.cmd = c]
      /\ \E pc \in {"mkseal", "ledger", "bad"} : rd' = [NoReading EXCEPT !.pc = pc]
  BY DEF BeginSeal, BeginUnseal, ContractSide, OpsSide
<1>2. rd' \in ReadRegs /\ rd'.pc \in {"mkseal", "ledger", "bad"}
  BY <1>1, NoReadingYet DEF ReadRegs, ReadPcs
<1>3. ContractKept BY <1>1, <1>2, SealFrame DEF FreePcs
<1>4. SealTypes' BY <1>1, SRestingRegs DEF OpsInv, SealTypes, SRegs
<1>5. SealsHonest'
  <2>1. sr'.doc.evidence = <<>> BY <1>1 DEF SResting, NoSeal
  <2> QED BY <1>2, <2>1 DEF SealsHonest, OwnRead, Goal, OnItsWay, EarlyPcs, LatePcs
<1> QED BY <1>3, <1>4, <1>5 DEF SealKept

\* A step to another place with other registers.
LEMMA SGoesTo ==
    ASSUME OpsInv, opsCase = "seal", UNCHANGED <<BundleSide, world, tree, contract, opsCase, kr>>,
           NEW pc \in (FreePcs \ {"bmanifest"}) \cap ReadPcs, NEW regs, SGoes(pc, regs)
    PROVE  /\ ContractKept /\ rd'.pc = pc /\ rd'.quiet = rd.quiet /\ sr' = regs /\ Goal' = pc
           /\ rd' \in ReadRegs
<1>1. rd' = [rd EXCEPT !.pc = pc] /\ sr' = regs BY DEF SGoes
<1>2. rd' \in ReadRegs /\ rd'.pc = pc /\ rd'.quiet = rd.quiet BY <1>1, RdGoesTo DEF OpsInv
<1>3. ContractKept BY <1>2, SealFrame
<1>4. Goal' = pc BY <1>2 DEF Goal, FreePcs, EarlyPcs, OnItsWay
<1> QED BY <1>1, <1>2, <1>3, <1>4
LEMMA FreePlaces == FreePcs \subseteq ReadPcs
BY DEF FreePcs, EarlyPcs, ReadPcs

\* What cannot be bound ends the command.
LEMMA SealGivesUp ==
    ASSUME OpsInv, opsCase = "seal", UNCHANGED <<BundleSide, world, tree, contract, opsCase, kr>>,
           UNCHANGED <<inputs, evidence, spare, seal>>, SGoes("bad", sr)
    PROVE  SealKept
<1>1. "bad" \in (FreePcs \ {"bmanifest"}) \cap ReadPcs BY FreePlaces DEF FreePcs
<1>2. ContractKept /\ rd'.pc = "bad" /\ sr' = sr /\ Goal' = "bad" BY <1>1, SGoesTo
<1>3. SealTypes' BY <1>2 DEF OpsInv, SealTypes
<1>4. SealsHonest' BY <1>2 DEF SealsHonest, OwnRead, EarlyPcs, LatePcs
<1> QED BY <1>2, <1>3, <1>4 DEF SealKept

\* The directory of the seal; nothing is bound yet.
LEMMA MakeSealDirKeeps ==
    ASSUME OpsInv, opsCase = "seal", MakeSealDir
    PROVE  SealKept
<1>1. /\ UNCHANGED <<BundleSide, world, tree, contract, opsCase, kr, inputs, evidence, spare>>
      /\ rd.pc = "mkseal"
  BY DEF MakeSealDir, ContractSide
<1>2. CASE seal.there BY <1>1, <1>2, SealGivesUp DEF MakeSealDir
<1>3. CASE ~seal.there
  <2>1. /\ seal' = [there |-> TRUE, doc |-> NoSeal]
        /\ SGoes("ledger", [sr EXCEPT !.mine = TRUE])
    BY <1>3 DEF MakeSealDir
  <2>2. "ledger" \in (FreePcs \ {"bmanifest"}) \cap ReadPcs BY FreePlaces DEF FreePcs
  <2>3. /\ ContractKept /\ rd'.pc = "ledger" /\ sr' = [sr EXCEPT !.mine = TRUE]
        /\ Goal' = "ledger"
    BY <1>1, <2>1, <2>2, SGoesTo
  <2>4. SealTypes' /\ sr'.doc = sr.doc
    BY <1>1, <2>1, <2>3, SRestingRegs DEF OpsInv, SealTypes
  <2>5. sr.doc.evidence = <<>> BY <1>1 DEF OpsInv, SealsHonest
  <2>6. SealsHonest' BY <2>3, <2>4, <2>5 DEF SealsHonest, OwnRead, EarlyPcs, LatePcs
  <2> QED BY <2>3, <2>4, <2>6 DEF SealKept
<1> QED BY <1>2, <1>3

\* A document is bound: it is read at one moment and is sound.
LEMMA BindLedgerKeeps ==
    ASSUME OpsInv, opsCase = "seal", BindLedger
    PROVE  SealKept
<1>1. /\ UNCHANGED <<BundleSide, world, tree, contract, opsCase, kr, inputs, evidence, spare, seal>>
      /\ rd.pc = "ledger"
  BY DEF BindLedger, ContractSide, OpsSide
<1> DEFINE v == inputs["operations_ledger"]
           regs == [sr EXCEPT !.doc.ledger = v]
<1>2. CASE ~Sound(v) BY <1>1, <1>2, SealGivesUp DEF BindLedger, Stream, LedgerValid
<1>3. CASE Sound(v)
  <2>1. SGoes("evidence", regs) BY <1>3 DEF BindLedger, Stream, LedgerValid
  <2>2. "evidence" \in (FreePcs \ {"bmanifest"}) \cap ReadPcs
    BY FreePlaces DEF FreePcs, EarlyPcs
  <2>3. /\ ContractKept /\ rd'.pc = "evidence" /\ sr' = regs /\ Goal' = "evidence"
        /\ rd'.quiet = rd.quiet
    <3> HIDE DEF regs
    <3> QED BY <1>1, <2>1, <2>2, SGoesTo
  <2>4. v \in Int BY DEF OpsInv, SealTypes, Inputs
  <2>5. SealTypes' /\ sr'.doc.ledger = v /\ sr'.doc.evidence = sr.doc.evidence
    <3>1. sr \in SRegs BY DEF OpsInv, SealTypes, SRegs
    <3>2. sr' \in SRegs /\ sr'.doc.ledger = v /\ sr'.doc.evidence = sr.doc.evidence
      BY <2>3, <2>4, <3>1 DEF SRegs, SealDocs
    <3> QED BY <1>1, <3>2 DEF OpsInv, SealTypes, SRegs
  <2>6. sr.doc.evidence = <<>> BY <1>1 DEF OpsInv, SealsHonest
  <2>7. Len(<<>>) = 0 /\ Len(EvidenceFiles) > 1 /\ Len(EvidenceFiles) \in Nat
    BY EvidenceAssumption
  <2>8. SealsHonest'
    <3>1. Len(sr'.doc.evidence) < Len(EvidenceFiles) /\ 1..Len(sr'.doc.evidence) = {}
      BY <2>5, <2>6, <2>7
    <3>2. sr'.doc.ledger = inputs'["operations_ledger"] /\ Sound(inputs'["operations_ledger"])
      BY <1>1, <1>3, <2>5
    <3> QED BY <2>3, <3>1, <3>2 DEF SealsHonest, OwnRead, EarlyPcs, LatePcs, Bound
  <2> QED BY <2>3, <2>5, <2>8 DEF SealKept
<1> QED BY <1>2, <1>3

\* The files of the evidence, one after the other, as the releases are walked.
LEMMA WalkEvidenceKeeps ==
    ASSUME OpsInv, opsCase = "seal", WalkEvidence
    PROVE  SealKept
<1>1. /\ UNCHANGED <<BundleSide, world, tree, contract, opsCase, kr, inputs, evidence, spare, seal>>
      /\ rd.pc = "evidence"
  BY DEF WalkEvidence, ContractSide, OpsSide
<1> DEFINE n == Len(EvidenceFiles)
           s == sr.doc.evidence
           e == Append(s, evidence[Len(s) + 1])
           regs == [sr EXCEPT !.doc.evidence = e]
<1>2. /\ n \in Nat /\ s \in Seq(Int) /\ evidence \in [1..n -> Int] /\ Len(s) < n
      /\ rd.quiet => \A i \in 1..Len(s) : s[i] = evidence[i]
      /\ rd.quiet => Bound("ledger", "operations_ledger")
  BY <1>1, EvidenceAssumption DEF OpsInv, SealTypes, SealDocs, SealsHonest, EarlyPcs
<1>3. /\ e \in Seq(Int) /\ Len(e) = Len(s) + 1 /\ Len(e) <= n
      /\ (\A i \in 1..Len(s) : s[i] = evidence[i]) => \A i \in 1..Len(e) : e[i] = evidence[i]
      /\ Len(e) >= n /\ (\A i \in 1..Len(e) : e[i] = evidence[i]) => e = evidence
  <2> HIDE DEF n, s
  <2> QED BY <1>2, SeqNext
<1>4. \/ SGoes("bad", sr)
      \/ Len(e) < n /\ SGoes("evidence", regs)
      \/ Len(e) >= n /\ SGoes("host", regs)
  <2>1. Len(e) \in Nat BY <1>3
  <2> QED BY <1>2, <2>1 DEF WalkEvidence
<1> HIDE DEF e
<1>5. regs \in SRegs /\ regs.doc.evidence = e /\ regs.doc.ledger = sr.doc.ledger
  <2>1. sr \in SRegs BY DEF OpsInv, SealTypes, SRegs
  <2> QED BY <1>3, <2>1 DEF SRegs, SealDocs
<1> HIDE DEF regs
<1>6. CASE SGoes("bad", sr) BY <1>1, <1>6, SealGivesUp
<1>7. CASE Len(e) < n /\ SGoes("evidence", regs)
  <2>1. "evidence" \in (FreePcs \ {"bmanifest"}) \cap ReadPcs
    BY FreePlaces DEF FreePcs, EarlyPcs
  <2>2. /\ ContractKept /\ rd'.pc = "evidence" /\ sr' = regs /\ Goal' = "evidence"
        /\ rd'.quiet = rd.quiet
    BY <1>1, <1>7, <2>1, SGoesTo
  <2>3. SealTypes' BY <1>1, <1>5, <2>2 DEF OpsInv, SealTypes, SRegs
  <2>4. SealsHonest'
    <3>1. rd.quiet => \A i \in 1..Len(e) : e[i] = evidence[i] BY <1>2, <1>3
    <3>2. rd.quiet => Bound("ledger", "operations_ledger")'
      BY <1>1, <1>2, <1>5, <2>2 DEF Bound
    <3> QED BY <1>1, <1>5, <1>7, <2>2, <3>1, <3>2 DEF SealsHonest, OwnRead, EarlyPcs, LatePcs
  <2> QED BY <2>2, <2>3, <2>4 DEF SealKept
<1>8. CASE Len(e) >= n /\ SGoes("host", regs)
  <2>1. "host" \in (FreePcs \ {"bmanifest"}) \cap ReadPcs
    BY FreePlaces DEF FreePcs, EarlyPcs
  <2>2. /\ ContractKept /\ rd'.pc = "host" /\ sr' = regs /\ Goal' = "host"
        /\ rd'.quiet = rd.quiet
    BY <1>1, <1>8, <2>1, SGoesTo
  <2>3. SealTypes' BY <1>1, <1>5, <2>2 DEF OpsInv, SealTypes, SRegs
  <2>4. SealsHonest'
    <3>1. rd.quiet => e = evidence BY <1>2, <1>3, <1>8
    <3>2. rd.quiet => Bound("ledger", "operations_ledger")'
      BY <1>1, <1>2, <1>5, <2>2 DEF Bound
    <3> QED BY <1>1, <1>5, <2>2, <3>1, <3>2 DEF SealsHonest, OwnRead, EarlyPcs, LatePcs
  <2> QED BY <2>2, <2>3, <2>4 DEF SealKept
<1> QED BY <1>4, <1>6, <1>7, <1>8

\* The probe of the host, and the report of the acceptance.
LEMMA BindHostProbeKeeps ==
    ASSUME OpsInv, opsCase = "seal", BindHostProbe
    PROVE  SealKept
<1>1. /\ UNCHANGED <<BundleSide, world, tree, contract, opsCase, kr, inputs, evidence, spare, seal>>
      /\ rd.pc = "host"
  BY DEF BindHostProbe, ContractSide, OpsSide
<1> DEFINE v == inputs["host_probe"]
           regs == [sr EXCEPT !.doc.host = v]
<1>2. CASE ~Sound(v) BY <1>1, <1>2, SealGivesUp DEF BindHostProbe, Stream, HostProbeValid
<1>3. CASE Sound(v)
  <2>1. SGoes("acceptance", regs) BY <1>3 DEF BindHostProbe, Stream, HostProbeValid
  <2>2. v \in Int BY DEF OpsInv, SealTypes, Inputs
  <2>3. /\ regs \in SRegs /\ regs.doc.host = v /\ regs.doc.ledger = sr.doc.ledger
        /\ regs.doc.evidence = sr.doc.evidence
    <3>1. sr \in SRegs BY DEF OpsInv, SealTypes, SRegs
    <3> QED BY <2>2, <3>1 DEF SRegs, SealDocs
  <2> HIDE DEF regs
  <2>4. "acceptance" \in (FreePcs \ {"bmanifest"}) \cap ReadPcs
    BY FreePlaces DEF FreePcs, EarlyPcs
  <2>5. /\ ContractKept /\ rd'.pc = "acceptance" /\ sr' = regs /\ Goal' = "acceptance"
        /\ rd'.quiet = rd.quiet
    BY <1>1, <2>1, <2>4, SGoesTo
  <2>6. SealTypes' BY <1>1, <2>3, <2>5 DEF OpsInv, SealTypes, SRegs
  <2>7. SealsHonest'
    <3>1. rd.quiet => Bound("ledger", "operations_ledger") /\ sr.doc.evidence = evidence
      BY <1>1 DEF OpsInv, SealsHonest, EarlyPcs
    <3>2. Bound("host", "host_probe")' BY <1>1, <1>3, <2>3, <2>5 DEF Bound
    <3>3. rd.quiet => Bound("ledger", "operations_ledger")' /\ sr'.doc.evidence = evidence
      BY <1>1, <2>3, <2>5, <3>1 DEF Bound
    <3> QED BY <1>1, <2>5, <3>2, <3>3 DEF SealsHonest, OwnRead, EarlyPcs, LatePcs
  <2> QED BY <2>5, <2>6, <2>7 DEF SealKept
<1> QED BY <1>2, <1>3
LEMMA BindAcceptanceKeeps ==
    ASSUME OpsInv, opsCase = "seal", BindAcceptance
    PROVE  SealKept
<1>1. /\ UNCHANGED <<BundleSide, world, tree, contract, opsCase, kr, inputs, evidence, spare, seal>>
      /\ rd.pc = "acceptance"
  BY DEF BindAcceptance, ContractSide, OpsSide
<1> DEFINE v == inputs["acceptance_report"]
           regs == [sr EXCEPT !.doc.acceptance = v]
<1>2. CASE ~Sound(v) BY <1>1, <1>2, SealGivesUp DEF BindAcceptance, Stream, AcceptanceValid
<1>3. CASE Sound(v)
  <2>1. SGoes("soak", regs) BY <1>3 DEF BindAcceptance, Stream, AcceptanceValid
  <2>2. v \in Int BY DEF OpsInv, SealTypes, Inputs
  <2>3. /\ regs \in SRegs /\ regs.doc.acceptance = v /\ regs.doc.ledger = sr.doc.ledger
        /\ regs.doc.evidence = sr.doc.evidence /\ regs.doc.host = sr.doc.host
    <3>1. sr \in SRegs BY DEF OpsInv, SealTypes, SRegs
    <3> QED BY <2>2, <3>1 DEF SRegs, SealDocs
  <2> HIDE DEF regs
  <2>4. "soak" \in (FreePcs \ {"bmanifest"}) \cap ReadPcs
    BY FreePlaces DEF FreePcs, EarlyPcs
  <2>5. /\ ContractKept /\ rd'.pc = "soak" /\ sr' = regs /\ Goal' = "soak"
        /\ rd'.quiet = rd.quiet
    BY <1>1, <2>1, <2>4, SGoesTo
  <2>6. SealTypes' BY <1>1, <2>3, <2>5 DEF OpsInv, SealTypes, SRegs
  <2>7. SealsHonest'
    <3>1. rd.quiet => /\ Bound("ledger", "operations_ledger") /\ sr.doc.evidence = evidence
                      /\ Bound("host", "host_probe")
      BY <1>1 DEF OpsInv, SealsHonest, EarlyPcs
    <3>2. Bound("acceptance", "acceptance_report")' BY <1>1, <1>3, <2>3, <2>5 DEF Bound
    <3>3. rd.quiet => /\ Bound("ledger", "operations_ledger")' /\ sr'.doc.evidence = evidence
                      /\ Bound("host", "host_probe")'
      BY <1>1, <2>3, <2>5, <3>1 DEF Bound
    <3> QED BY <1>1, <2>5, <3>2, <3>3 DEF SealsHonest, OwnRead, EarlyPcs, LatePcs
  <2> QED BY <2>5, <2>6, <2>7 DEF SealKept
<1> QED BY <1>2, <1>3

\* The soak is verified first and read then; undisturbed it is the same.
LEMMA VerifySoakKeeps ==
    ASSUME OpsInv, opsCase = "seal", VerifySoak
    PROVE  SealKept
<1>1. /\ UNCHANGED <<BundleSide, world, tree, contract, opsCase, kr, inputs, evidence, spare, seal>>
      /\ rd.pc = "soak"
  BY DEF VerifySoak, ContractSide, OpsSide
<1>2. CASE ~Sound(inputs["soak"]) BY <1>1, <1>2, SealGivesUp DEF VerifySoak, Stream
<1>3. CASE Sound(inputs["soak"])
  <2>1. SGoes("soakread", sr) BY <1>3 DEF VerifySoak, Stream
  <2>2. "soakread" \in (FreePcs \ {"bmanifest"}) \cap ReadPcs
    BY FreePlaces DEF FreePcs, EarlyPcs
  <2>3. /\ ContractKept /\ rd'.pc = "soakread" /\ sr' = sr /\ Goal' = "soakread"
        /\ rd'.quiet = rd.quiet
    BY <1>1, <2>1, <2>2, SGoesTo
  <2>4. SealTypes' BY <1>1, <2>3 DEF OpsInv, SealTypes
  <2>5. SealsHonest'
    <3>1. rd.quiet => /\ Bound("ledger", "operations_ledger") /\ sr.doc.evidence = evidence
                      /\ Bound("host", "host_probe") /\ Bound("acceptance", "acceptance_report")
      BY <1>1 DEF OpsInv, SealsHonest, EarlyPcs
    <3> QED BY <1>1, <1>3, <2>3, <3>1 DEF SealsHonest, OwnRead, EarlyPcs, LatePcs, Bound
  <2> QED BY <2>3, <2>4, <2>5 DEF SealKept
<1> QED BY <1>2, <1>3

\* The four documents and the files of the evidence are bound.
AllBound ==
    /\ Bound("ledger", "operations_ledger") /\ sr.doc.evidence = evidence
    /\ Bound("host", "host_probe") /\ Bound("acceptance", "acceptance_report")
    /\ Bound("soak", "soak")
BundleBound == sr.doc.man = Own.man /\ sr.doc.db = Own.db /\ sr.doc.cfg = Own.cfg
LEMMA LateBound ==
    ASSUME OpsInv, opsCase = "seal", rd.quiet
    PROVE  /\ rd.pc \in LatePcs \/ Goal \in {"bmanifest", "kcheck"} => AllBound
           /\ rd.pc \in LatePcs \/ Goal = "kcheck" => BundleBound
BY DEF OpsInv, SealsHonest, AllBound, BundleBound, EarlyPcs, LatePcs
\* What a step late in the seal has to keep.
LEMMA LateSteps ==
    ASSUME opsCase' = "seal", rd'.pc \notin EarlyPcs \cup {"mkseal", "ledger"},
           rd'.quiet => AllBound' /\ OwnRead',
           rd'.quiet /\ (rd'.pc \in LatePcs \/ Goal' = "kcheck") => BundleBound',
           rd'.quiet /\ rd'.pc \in {"seal", "swrite", "sgood"} => ContractMatches(sr.doc.contract)',
           rd'.pc = "sgood" => seal'.doc = [sr'.doc EXCEPT !.whole = TRUE]
    PROVE  SealsHonest'
<1>1. rd'.pc \notin {"mkseal", "ledger", "evidence", "soakread"} BY DEF EarlyPcs
<1>2. rd'.quiet => /\ Bound("ledger", "operations_ledger")' /\ sr'.doc.evidence = evidence'
                   /\ Bound("host", "host_probe")' /\ Bound("acceptance", "acceptance_report")'
                   /\ Bound("soak", "soak")'
  BY DEF AllBound
<1>3. rd'.quiet /\ (rd'.pc \in LatePcs \/ Goal' = "kcheck") =>
        sr'.doc.man = Own'.man /\ sr'.doc.db = Own'.db /\ sr'.doc.cfg = Own'.cfg
  BY DEF BundleBound
<1> QED BY <1>1, <1>2, <1>3 DEF SealsHonest
LEMMA BindSoakKeeps ==
    ASSUME OpsInv, opsCase = "seal", BindSoak
    PROVE  SealKept
<1>0. BundleTypes /\ ContractTypes /\ WhereItIs BY DEF OpsInv
<1>1. /\ UNCHANGED <<BundleSide, world, tree, contract, opsCase, kr, inputs, evidence, spare, seal>>
      /\ rd.pc = "soakread" /\ rd' = Verifying("bmanifest")
      /\ sr' = [sr EXCEPT !.doc.soak = inputs["soak"]]
  BY DEF BindSoak, ContractSide, OpsSide, Stream
<1>2. /\ rd' \in ReadRegs /\ rd'.pc = "scan" /\ rd'.ret = "bmanifest" /\ rd'.quiet = rd.quiet
      /\ Goal' = "bmanifest"
  <2>1. "bmanifest" \in ReadPcs BY DEF ReadPcs
  <2> QED BY <1>0, <1>1, <2>1, VerifyingFacts DEF Goal, OnItsWay
<1>3. /\ sr' \in SRegs /\ sr'.doc.soak = inputs["soak"] /\ sr'.doc.ledger = sr.doc.ledger
      /\ sr'.doc.evidence = sr.doc.evidence /\ sr'.doc.host = sr.doc.host
      /\ sr'.doc.acceptance = sr.doc.acceptance
  <2>1. sr \in SRegs /\ inputs["soak"] \in Int BY DEF OpsInv, SealTypes, SRegs, Inputs
  <2> QED BY <1>1, <2>1 DEF SRegs, SealDocs
<1>4. SealTypes' BY <1>1, <1>3 DEF OpsInv, SealTypes, SRegs
<1>5. rd.quiet => AllBound'
  <2>1. rd.quiet => /\ Bound("ledger", "operations_ledger") /\ sr.doc.evidence = evidence
                    /\ Bound("host", "host_probe") /\ Bound("acceptance", "acceptance_report")
                    /\ Sound(inputs["soak"])
    BY <1>1 DEF OpsInv, SealsHonest, EarlyPcs
  <2> QED BY <1>1, <1>3, <2>1 DEF AllBound, Bound
<1>6. SealsHonest'
  <2>1. rd'.pc \notin EarlyPcs \cup {"mkseal", "ledger"} \cup LatePcs
    BY <1>2 DEF EarlyPcs, LatePcs
  <2>2. rd'.pc \notin {"seal", "swrite", "sgood"} /\ Goal' # "kcheck" /\ opsCase' = "seal"
    BY <1>1, <1>2
  <2>3. OwnRead' BY <1>2 DEF OwnRead
  <2> QED BY <1>2, <1>5, <2>1, <2>2, <2>3, LateSteps
<1>7. BundleTypes' /\ MakersHonest' /\ ReadHonest' BY <1>1, <1>2, BundleStill DEF Goals
<1>8. ContractTypes' /\ WhereItIs'
  BY <1>0, <1>1, <1>2 DEF ContractTypes, WhereItIs, Preparing, OnItsWay, SealPcs
<1>9. SameTwice' /\ WalkHonest' BY <1>2 DEF SameTwice, WalkHonest
<1>10. ContractsHonest'
  <2>1. contract'.doc.whole => Cites(contract.doc)' BY <1>1, CitesStill DEF BundleSide
  <2> QED BY <1>2, <2>1 DEF ContractsHonest
<1>11. OwnContract'
  <2>1. OwnContract BY DEF OpsInv
  <2> QED BY <1>1, <1>2, <2>1 DEF OwnContract
<1> QED BY <1>4, <1>6, <1>7, <1>8, <1>9, <1>10, <1>11 DEF SealKept, ContractKept

\* The manifest read last is the one that was verified, undisturbed.
LEMMA BindBundleKeeps ==
    ASSUME OpsInv, opsCase = "seal", BindBundle
    PROVE  SealKept
<1>0. BundleTypes /\ ContractTypes /\ WhereItIs BY DEF OpsInv
<1>1. /\ UNCHANGED <<BundleSide, world, tree, contract, opsCase, inputs, evidence, spare, seal>>
      /\ rd.pc = "bmanifest"
  BY DEF BindBundle, ContractSide, OpsSide
<1>2. CASE Own.man = None BY <1>1, <1>2, SealGivesUp DEF BindBundle
<1>3. CASE Own.man # None
  <2>1. /\ sr' = [sr EXCEPT !.doc.man = Own.man, !.doc.db = rd.db, !.doc.cfg = rd.cfg]
        /\ rd' = [rd EXCEPT !.pc = "kscan"]
        /\ kr' = [kr EXCEPT !.cmd = kr.cmd, !.of = "current", !.doc = NoDoc, !.check = NoDoc]
    BY <1>3 DEF BindBundle, BeginCheck
  <2>2. /\ rd' \in ReadRegs /\ rd'.pc = "kscan" /\ rd'.quiet = rd.quiet /\ Goal' = "kscan"
    BY <1>0, <2>1, RdGoesTo DEF ReadPcs, Goal, OnItsWay
  <2>3. /\ sr' \in SRegs /\ sr'.doc.man = Own.man /\ sr'.doc.db = rd.db
        /\ sr'.doc.cfg = rd.cfg /\ sr'.doc.ledger = sr.doc.ledger
        /\ sr'.doc.evidence = sr.doc.evidence /\ sr'.doc.host = sr.doc.host
        /\ sr'.doc.acceptance = sr.doc.acceptance /\ sr'.doc.soak = sr.doc.soak
    <3>1. sr \in SRegs /\ Own.man \in ManRecs /\ rd.db \in Int /\ rd.cfg \in Int
      BY <1>0 DEF OpsInv, SealTypes, SRegs, BundleTypes, Dirs, ReadRegs, Own
    <3>2. sr' = [sr EXCEPT !.doc = [sr.doc EXCEPT !.man = Own.man, !.db = rd.db, !.cfg = rd.cfg]]
      BY <2>1, <3>1 DEF SRegs, SealDocs
    <3> QED BY <3>1, <3>2 DEF SRegs, SealDocs
  <2>4. SealTypes' BY <1>1, <2>3 DEF OpsInv, SealTypes, SRegs
  <2>5. rd.quiet => AllBound' /\ BundleBound'
    <3>1. Goal = "bmanifest" BY <1>1 DEF Goal, OnItsWay
    <3>2. rd.quiet => AllBound BY <3>1, LateBound
    <3>3. rd.quiet => rd.db = Own.db /\ rd.cfg = Own.cfg
      BY <1>1 DEF OpsInv, SealsHonest, OwnRead
    <3>4. Own' = Own BY <1>1 DEF Own, BundleSide
    <3> QED BY <1>1, <2>3, <3>2, <3>3, <3>4 DEF AllBound, BundleBound, Bound, BundleSide
  <2>6. SealsHonest'
    <3>1. rd'.pc \notin EarlyPcs \cup {"mkseal", "ledger", "seal", "swrite", "sgood"}
          /\ opsCase' = "seal"
      BY <1>1, <2>2 DEF EarlyPcs
    <3>2. OwnRead' BY <2>2 DEF OwnRead
    <3> QED BY <2>2, <2>5, <3>1, <3>2, LateSteps
  <2>7. ContractTypes' /\ kr'.of = "current" /\ kr'.doc = NoDoc /\ kr'.cmd = kr.cmd /\ kr'.mine = kr.mine
    BY <1>0, <1>1, <2>1, NoDocs DEF ContractTypes, Releases
  <2>8. BundleTypes' /\ MakersHonest' /\ ReadHonest' BY <1>1, <2>2, BundleStill DEF Goals
  <2>9. WhereItIs'
    BY <1>0, <1>1, <2>2, <2>7 DEF WhereItIs, OnItsWay, SealPcs, LatePcs
  <2>10. SameTwice' /\ WalkHonest' BY <2>2, <2>7 DEF SameTwice, WalkHonest
  <2>11. ContractsHonest'
    <3>1. contract'.doc.whole => Cites(contract.doc)' BY <1>1, CitesStill DEF BundleSide
    <3> QED BY <2>2, <3>1 DEF ContractsHonest
  <2>12. OwnContract' BY <1>1, <2>2, <2>7, NothingOwned
  <2> QED BY <2>4, <2>6, <2>7, <2>8, <2>9, <2>10, <2>11, <2>12 DEF SealKept, ContractKept
<1> QED BY <1>2, <1>3

\* The contract was verified against the bundle it is over; a seal that is verified has
\* to be what was bound again.
LEMMA BindContractKeeps ==
    ASSUME OpsInv, opsCase = "seal", BindContract
    PROVE  SealKept
<1>1. /\ UNCHANGED <<BundleSide, world, tree, contract, opsCase, kr, inputs, evidence, spare, seal>>
      /\ rd.pc = "kgood"
  BY DEF BindContract, ContractSide, OpsSide
<1> DEFINE bound == [sr.doc EXCEPT !.contract = contract.doc]
           regs == [sr EXCEPT !.doc = bound]
<1>2. CASE ~contract.there BY <1>1, <1>2, SealGivesUp DEF BindContract
<1>3. CASE contract.there
  <2>1. PICK pc \in {"seal", "sgood", "bad"} :
          SGoes(pc, regs) /\ (pc = "sgood" => [bound EXCEPT !.whole = TRUE] = seal.doc)
    BY <1>3 DEF BindContract, SealHolds
  <2>2. /\ regs \in SRegs /\ regs.doc = bound /\ bound.contract = contract.doc
        /\ bound.man = sr.doc.man /\ bound.db = sr.doc.db
        /\ bound.cfg = sr.doc.cfg /\ bound.ledger = sr.doc.ledger
        /\ bound.evidence = sr.doc.evidence /\ bound.host = sr.doc.host
        /\ bound.acceptance = sr.doc.acceptance /\ bound.soak = sr.doc.soak
    <3>1. sr \in SRegs /\ contract.doc \in Docs
      BY DEF OpsInv, SealTypes, SRegs, ContractTypes
    <3> QED BY <3>1 DEF SRegs, SealDocs
  <2> HIDE DEF regs, bound
  <2>3. pc \in (FreePcs \ {"bmanifest"}) \cap ReadPcs BY FreePlaces DEF FreePcs
  <2>4. /\ ContractKept /\ rd'.pc = pc /\ sr' = regs /\ Goal' = pc /\ rd'.quiet = rd.quiet
    BY <1>1, <2>1, <2>3, SGoesTo
  <2>5. SealTypes' BY <1>1, <2>2, <2>4 DEF OpsInv, SealTypes, SRegs
  <2>6. rd.quiet => AllBound' /\ BundleBound'
    <3>1. rd.pc \in LatePcs BY <1>1 DEF LatePcs
    <3>2. rd.quiet => AllBound /\ BundleBound BY <3>1, LateBound
    <3>3. Own' = Own BY <1>1 DEF Own, BundleSide
    <3> QED BY <1>1, <2>2, <2>4, <3>2, <3>3 DEF AllBound, BundleBound, Bound, BundleSide
  <2>7. rd.quiet => ContractMatches(sr.doc.contract)'
    <3>1. rd.quiet => ContractMatches(contract.doc) BY <1>1, <1>3 DEF OpsInv, ContractsHonest
    <3> QED BY <1>1, <2>2, <2>4, <3>1 DEF ContractMatches, BundleSide
  <2>8. SealsHonest'
    <3>1. rd'.pc \notin EarlyPcs \cup {"mkseal", "ledger"} /\ opsCase' = "seal"
      BY <1>1, <2>4 DEF EarlyPcs
    <3>2. rd'.pc = "sgood" => seal'.doc = [sr'.doc EXCEPT !.whole = TRUE]
      BY <1>1, <2>1, <2>2, <2>4
    <3>3. OwnRead' BY <2>1, <2>4 DEF OwnRead
    <3> QED BY <2>4, <2>6, <2>7, <3>1, <3>2, <3>3, LateSteps
  <2> QED BY <2>4, <2>5, <2>8 DEF SealKept
<1> QED BY <1>2, <1>3

\* What is written is what was bound.
LEMMA WriteSealKeeps ==
    ASSUME OpsInv, opsCase = "seal", BeginSealWrite \/ EndSealWrite
    PROVE  SealKept
<1>1. /\ UNCHANGED <<BundleSide, world, tree, contract, opsCase, kr, inputs, evidence, spare>>
      /\ rd.pc \in {"seal", "swrite"}
  BY DEF BeginSealWrite, EndSealWrite, ContractSide
<1>2. rd.quiet => AllBound /\ BundleBound /\ ContractMatches(sr.doc.contract)
  <2>1. rd.pc \in LatePcs BY <1>1 DEF LatePcs
  <2> QED BY <1>1, <2>1, LateBound DEF OpsInv, SealsHonest
<1>3. PICK pc \in {"swrite", "sgood"}, regs \in SRegs :
        /\ SGoes(pc, regs) /\ regs.doc = sr.doc
        /\ pc = "swrite" => seal' = [seal EXCEPT !.doc.db = Half]
        /\ pc = "sgood" => seal' = [seal EXCEPT !.doc = [sr.doc EXCEPT !.whole = TRUE]]
  <2>1. sr \in SRegs /\ [sr EXCEPT !.mine = FALSE] \in SRegs /\ [sr EXCEPT !.mine = FALSE].doc = sr.doc
    BY DEF OpsInv, SealTypes, SRegs
  <2> QED BY <2>1 DEF BeginSealWrite, EndSealWrite
<1>4. pc \in (FreePcs \ {"bmanifest"}) \cap ReadPcs BY FreePlaces DEF FreePcs
<1>5. /\ ContractKept /\ rd'.pc = pc /\ sr' = regs /\ Goal' = pc /\ rd'.quiet = rd.quiet
  BY <1>1, <1>3, <1>4, SGoesTo
<1>6. SealTypes' /\ (pc = "sgood" => seal'.doc = [sr.doc EXCEPT !.whole = TRUE])
  <2>1. sr.doc \in SealDocs /\ seal \in [there : BOOLEAN, doc : SealDocs] /\ Half \in Int
    BY DEF OpsInv, SealTypes, Half
  <2>2. [seal.doc EXCEPT !.db = Half] \in SealDocs /\ [sr.doc EXCEPT !.whole = TRUE] \in SealDocs
    BY <2>1 DEF SealDocs
  <2>3. /\ seal' \in [there : BOOLEAN, doc : SealDocs]
        /\ pc = "sgood" => seal'.doc = [sr.doc EXCEPT !.whole = TRUE]
    BY <1>3, <2>1, <2>2
  <2> QED BY <1>1, <1>3, <1>5, <2>3 DEF OpsInv, SealTypes, SRegs
<1>7. SealsHonest'
  <2>1. rd'.pc \notin EarlyPcs \cup {"mkseal", "ledger"} /\ opsCase' = "seal"
    BY <1>1, <1>5 DEF EarlyPcs
  <2>2. rd.quiet => AllBound' /\ BundleBound' /\ ContractMatches(sr.doc.contract)'
    <3>1. Own' = Own BY <1>1 DEF Own, BundleSide
    <3> QED BY <1>1, <1>2, <1>3, <1>5, <3>1
            DEF AllBound, BundleBound, Bound, BundleSide, ContractMatches
  <2>3. OwnRead' BY <1>5 DEF OwnRead
  <2> QED BY <1>3, <1>5, <1>6, <2>1, <2>2, <2>3, LateSteps
<1> QED BY <1>5, <1>6, <1>7 DEF SealKept

\* Only what prepare made is removed.
LEMMA UndoSealKeeps ==
    ASSUME OpsInv, opsCase = "seal", UndoSeal
    PROVE  SealKept
<1>1. /\ UNCHANGED <<BundleSide, world, tree, contract, opsCase, kr, inputs, evidence, spare, rd>>
      /\ rd.pc = "bad" /\ sr' = [sr EXCEPT !.mine = FALSE]
      /\ seal' = [there |-> FALSE, doc |-> NoSeal] \/ seal' = [seal EXCEPT !.doc = NoSeal]
  BY DEF UndoSeal, ContractSide
<1>2. rd' \in ReadRegs BY <1>1 DEF OpsInv, BundleTypes
<1>3. ContractKept
  <2>1. rd'.pc \in FreePcs \ {"bmanifest"} /\ kr' = kr BY <1>1 DEF FreePcs
  <2> QED BY <1>1, <1>2, <2>1, SealFrame
<1>4. SealTypes'
  <2>1. seal' \in [there : BOOLEAN, doc : SealDocs]
    <3>1. NoSeal \in SealDocs /\ seal \in [there : BOOLEAN, doc : SealDocs]
      BY SRestingRegs DEF OpsInv, SealTypes
    <3>2. CASE seal' = [there |-> FALSE, doc |-> NoSeal] BY <3>1, <3>2
    <3>3. CASE seal' = [seal EXCEPT !.doc = NoSeal] BY <3>1, <3>3
    <3> QED BY <1>1, <3>2, <3>3
  <2>2. sr' \in [mine : BOOLEAN, doc : SealDocs] BY <1>1 DEF OpsInv, SealTypes
  <2> QED BY <1>1, <2>1, <2>2 DEF OpsInv, SealTypes
<1>5. SealsHonest' BY <1>1 DEF SealsHonest, OwnRead, Goal, OnItsWay, EarlyPcs, LatePcs
<1> QED BY <1>3, <1>4, <1>5 DEF SealKept

\* The verification of the bundle and of the contract on the way of the seal.
LEMMA SealReadsKeep ==
    ASSUME OpsInv, opsCase = "seal", UNCHANGED sealvars,
           \/ WalkTree \/ ScanContract \/ CheckBackup
           \/ VerifyBundle(Reading) /\ UNCHANGED contractvars
    PROVE  SealKept
<1>1. UNCHANGED <<inputs, evidence, seal, sr, spare, opsCase>> BY DEF sealvars
<1>2. SealTypes' BY <1>1 DEF OpsInv, SealTypes
<1>3. ContractKept /\ rd'.quiet = rd.quiet /\ UNCHANGED bundle
  BY <1>1, WalkTreeKeeps, ScanContractKeeps, CheckBackupKeeps, VerifyOfContract
     DEF WalkTree, ScanContract, CheckBackup, BundleSide, VerifyKept
<1>4. \/ rd'.pc \in {"walk", "kgood"} /\ rd.pc \in LatePcs
      \/ rd'.pc = "scan" /\ rd'.ret = "kcheck" /\ rd.pc \in LatePcs
      \/ rd'.pc = "bad"
      \/ rd'.pc \in OnItsWay \cup {"bmanifest", "kcheck"} /\ Goal' = Goal
         /\ Goal \in {"bmanifest", "kcheck"} /\ (rd.quiet => OwnRead')
  <2>1. CASE WalkTree
    <3>1. ~Preparing /\ rd.pc = "walk" BY <2>1 DEF OpsInv, WhereItIs, Preparing, WalkTree
    <3> QED BY <1>1, <2>1, <3>1, WalkTreeKeeps DEF LatePcs
  <2>2. CASE ScanContract BY <1>1, <2>2, ScanContractKeeps DEF LatePcs, ScanContract
  <2>3. CASE CheckBackup BY <1>1, <2>3, CheckBackupKeeps DEF LatePcs, CheckBackup
  <2>4. CASE VerifyBundle(Reading) /\ UNCHANGED contractvars
    <3>1. VerifyKept BY <1>1, <2>4, VerifyOfContract
    <3>2. rd.pc \in OnItsWay /\ Goal = rd.ret /\ rd.ret \in {"bmanifest", "kcheck"}
      BY <3>1 DEF VerifyKept, Goal, OpsInv, WhereItIs
    <3> QED BY <3>1, <3>2 DEF VerifyKept, Goal
  <2> QED BY <2>1, <2>2, <2>3, <2>4
<1>5. CASE rd'.pc = "bad"
  <2>1. SealsHonest' BY <1>5 DEF SealsHonest, OwnRead, Goal, OnItsWay, EarlyPcs, LatePcs
  <2> QED BY <1>2, <1>3, <2>1 DEF SealKept
<1>6. CASE rd'.pc # "bad"
  <2>1. /\ rd.pc \in LatePcs \/ Goal \in {"bmanifest", "kcheck"}
        /\ rd'.pc \in LatePcs \/ Goal' = "kcheck" => rd.pc \in LatePcs \/ Goal = "kcheck"
    BY <1>4, <1>6 DEF OnItsWay, LatePcs, Goal
  <2>2. /\ rd.quiet => AllBound
        /\ rd.quiet /\ (rd'.pc \in LatePcs \/ Goal' = "kcheck") => BundleBound
    BY <2>1, LateBound
  <2>3. rd'.pc \notin EarlyPcs \cup {"mkseal", "ledger", "seal", "swrite", "sgood"}
    BY <1>4, <1>6 DEF EarlyPcs, OnItsWay
  <2>4. /\ rd'.quiet => AllBound'
        /\ rd'.quiet /\ (rd'.pc \in LatePcs \/ Goal' = "kcheck") => BundleBound'
    <3>1. Own' = Own BY <1>1, <1>3 DEF Own
    <3> QED BY <1>1, <1>3, <2>2, <3>1 DEF AllBound, BundleBound, Bound
  <2>6. rd.quiet => OwnRead' BY <1>4 DEF OwnRead
  <2>5. SealsHonest' BY <1>1, <1>3, <2>3, <2>4, <2>6, LateSteps
  <2> QED BY <1>2, <1>3, <2>5 DEF SealKept
<1> QED BY <1>5, <1>6

\* What the world does takes the quiet: of what was bound only its order is said.
LEMMA DisturbedSeal ==
    ASSUME OpsInv, UNCHANGED <<sr, seal, opsCase>>, rd' = [rd EXCEPT !.quiet = FALSE]
    PROVE  SealsHonest'
<1>1. rd'.quiet = FALSE /\ rd'.pc = rd.pc BY DEF OpsInv, BundleTypes, ReadRegs
<1> QED BY <1>1 DEF OpsInv, SealsHonest

\* A document or a file of the evidence changes, or what the contract is about.
LEMMA WorldOfSealKeeps ==
    ASSUME OpsInv, opsCase = "seal",
           \/ \E i \in Inputs : InputChanges(i)
           \/ \E i \in 1..Len(EvidenceFiles) : EvidenceChanges(i)
           \/ SpareDecays
           \/ WorldOfContract /\ UNCHANGED sealvars
    PROVE  SealKept
<1>1. CASE WorldOfContract /\ UNCHANGED sealvars
  <2>1. UNCHANGED <<inputs, evidence, seal, sr, spare, opsCase>> BY <1>1 DEF sealvars
  <2>2. ContractKept /\ rd' = [rd EXCEPT !.quiet = FALSE]
    BY <1>1, <2>1, WorldOfContractKeeps
  <2>3. SealTypes' BY <2>1 DEF OpsInv, SealTypes
  <2> QED BY <2>1, <2>2, <2>3, DisturbedSeal DEF SealKept
<1>2. ASSUME \/ \E i \in Inputs : InputChanges(i)
             \/ \E i \in 1..Len(EvidenceFiles) : EvidenceChanges(i)
             \/ SpareDecays
      PROVE  SealKept
  <2>1. Turns /\ UNCHANGED <<BundleSide, tree, contract, kr, seal, sr, opsCase>>
    BY <1>2 DEF InputChanges, EvidenceChanges, SpareDecays, ContractSide
  <2>2. inputs' \in [Inputs -> Int] /\ evidence' \in [1..Len(EvidenceFiles) -> Int]
    <3>1. /\ inputs \in [Inputs -> Int] /\ evidence \in [1..Len(EvidenceFiles) -> Int]
          /\ Broken \in Int /\ Absent \in Int
      BY DEF OpsInv, SealTypes, Broken, Absent
    <3>2. ASSUME NEW i \in Inputs, InputChanges(i)
          PROVE  inputs' \in [Inputs -> Int] /\ evidence' = evidence
      BY <3>1, <3>2 DEF InputChanges
    <3>3. ASSUME NEW i \in 1..Len(EvidenceFiles), EvidenceChanges(i)
          PROVE  inputs' = inputs /\ evidence' \in [1..Len(EvidenceFiles) -> Int]
      BY <3>1, <3>3 DEF EvidenceChanges
    <3>4. ASSUME SpareDecays PROVE inputs' = inputs /\ evidence' = evidence
      BY <3>4 DEF SpareDecays
    <3> QED BY <1>2, <3>1, <3>2, <3>3, <3>4
  <2>6. spare' \in Dirs
    BY <1>2 DEF InputChanges, EvidenceChanges, SpareDecays, OpsInv, SealTypes, Dirs, Broken
  <2>3. SealTypes' BY <2>1, <2>2, <2>6 DEF OpsInv, SealTypes
  <2>4. rd' = [rd EXCEPT !.quiet = FALSE] /\ world' \in Nat
    BY <2>1 DEF Turns, OpsInv, BundleTypes
  <2>5. ContractKept
    <3>1. /\ bundle \in Dirs /\ sealed \in SUBSET ManRecs /\ bundle.man \in sealed
          /\ \A s \in sealed : Sound(s.db) /\ s.cfg # Broken
      BY DEF OpsInv, BundleTypes, MakersHonest
    <3>2. ContractTypes' BY <2>1 DEF OpsInv, ContractTypes
    <3> QED BY <2>1, <2>4, <3>1, <3>2, DisturbedContract DEF BundleSide, Disturbs
  <2> QED BY <2>1, <2>3, <2>4, <2>5, DisturbedSeal DEF SealKept
<1> QED BY <1>1, <1>2

\* The whole behaviour about the seal.
LEMMA SealStepKeeps ==
    ASSUME OpsInv, opsCase = "seal",
           SealAndUnseal \/ (WorldOfContract /\ UNCHANGED sealvars)
    PROVE  OpsInv'
<1>1. SealKept
  <2>1. CASE \/ BeginSeal \/ MakeSealDir \/ BindLedger \/ WalkEvidence \/ BindHostProbe
             \/ BindAcceptance \/ VerifySoak \/ BindSoak \/ BindBundle \/ BindContract
             \/ BeginSealWrite \/ EndSealWrite \/ UndoSeal \/ BeginUnseal
    BY <2>1, BeginSealKeeps, MakeSealDirKeeps, BindLedgerKeeps, WalkEvidenceKeeps,
       BindHostProbeKeeps, BindAcceptanceKeeps, VerifySoakKeeps, BindSoakKeeps, BindBundleKeeps,
       BindContractKeeps, WriteSealKeeps, UndoSealKeeps
  <2>2. CASE \/ (WalkTree \/ ScanContract \/ CheckBackup) /\ UNCHANGED sealvars
             \/ VerifyBundle(Reading) /\ UNCHANGED <<contractvars, sealvars>>
    BY <2>2, SealReadsKeep
  <2>3. CASE \/ \E i \in Inputs : InputChanges(i)
             \/ \E i \in 1..Len(EvidenceFiles) : EvidenceChanges(i)
             \/ SpareDecays
             \/ WorldOfContract /\ UNCHANGED sealvars
    BY <2>3, WorldOfSealKeeps
  <2> QED BY <2>1, <2>2, <2>3 DEF SealAndUnseal
<1> QED BY <1>1 DEF OpsInv, SealKept, ContractKept
-------------------------------------------------------------------------------
(* All of it. *)

\* What the commands have read, bound and written holds at first and after every step.
LEMMA OpsNextKeeps ==
    ASSUME OpsInv, [OpsNext]_opsvars
    PROVE  OpsInv'
<1>1. CASE OpsNext
  <2>1. ASSUME opsCase # "bundle", FailCommand \/ EndCommand PROVE OpsInv'
    BY <2>1, CommandStops DEF ContractKept, OpsInv
  <2> QED BY <1>1, <2>1, BundleStepKeeps, ContractStepKeeps, SealStepKeeps DEF OpsNext
<1>2. CASE UNCHANGED opsvars
  <2>1. /\ UNCHANGED <<liveDb, liveCfg, world, mishaps, maker, bundle, target, rd, sealed>>
        /\ UNCHANGED <<restored, foreign>>
        /\ UNCHANGED <<tree, contract, kr, inputs, evidence, seal, sr, spare, opsCase>>
    BY <1>2 DEF opsvars, bundlevars, contractvars, sealvars
  <2>2. BundleTypes' /\ ContractTypes' /\ SealTypes' /\ WhereItIs'
    BY <2>1 DEF OpsInv, BundleTypes, ContractTypes, SealTypes, WhereItIs, Goal, Preparing
  <2>3. MakersHonest' /\ ReadHonest' /\ SameTwice'
    BY <2>1 DEF OpsInv, MakersHonest, ReadHonest, SameTwice, Goal
  <2>4. WalkHonest' /\ OwnContract'
    BY <2>1 DEF OpsInv, WalkHonest, OwnContract, Goal, Preparing, TreesHold
  <2>5. ContractsHonest' /\ SealsHonest'
    BY <2>1 DEF OpsInv, ContractsHonest, SealsHonest, OwnRead, Own, Goal, Cites, ContractMatches, Bound
  <2> QED BY <2>2, <2>3, <2>4, <2>5 DEF OpsInv
<1> QED BY <1>1, <1>2

\* At first nothing was read, and what lies there was made whole.
LEMMA OpsBegins ==
    ASSUME OpsInit
    PROVE  OpsInv
<1>1. /\ opsCase \in {"bundle", "contract", "seal"} /\ rd = NoReading /\ kr = KResting
      /\ rd.pc = "idle" /\ kr.cmd = "none" /\ ~kr.mine /\ Goal = "idle"
  BY DEF OpsInit, AllIdle, TwoReleases, NoReading, KResting, Goal, OnItsWay
<1>2. /\ bundle \in Dirs /\ sealed \in SUBSET ManRecs
      /\ opsCase = "bundle" => bundle = NoDir /\ sealed = {}
      /\ opsCase # "bundle" => bundle.man \in sealed /\ bundle.db = 0 /\ bundle.cfg = 0
      /\ \A s \in sealed : s.db = 0 /\ s.cfg = 0
  <2>1. CASE opsCase = "bundle"
    BY <2>1, ManRecValues DEF OpsInit, NothingMade
  <2>2. CASE opsCase # "bundle"
    BY <2>2 DEF OpsInit, MadeBundle, Dirs, ManRecs
  <2> QED BY <2>1, <2>2
<1>3. BundleTypes
  <2>1. \A m \in Makers : maker[m] = [pc |-> "idle", cfg |-> Absent, db |-> Absent]
    BY DEF OpsInit, AllIdle
  <2>2. maker \in [Makers -> [pc : MakerPcs, cfg : Int, db : Int]]
    BY DEF OpsInit, AllIdle, MakerPcs, Absent
  <2> QED BY <1>1, <1>2, <2>2, ManRecValues, NoReadingYet DEF OpsInit, AllIdle, BundleTypes
<1>4. tree \in [Releases -> [1..Len(TreeFiles) -> Int]]
  BY DEF OpsInit, TwoReleases, Release
<1>5. contract \in [there : BOOLEAN, doc : Docs]
      /\ (contract.doc.whole => opsCase = "seal" /\ Cites(contract.doc))
  <2>1. CASE opsCase # "seal" BY <2>1, NoDocs DEF OpsInit
  <2>2. CASE opsCase = "seal"
    <3>1. tree["current"] \in Seq(Int) /\ tree["candidate"] \in Seq(Int)
      <4>1. Len(TreeFiles) \in Nat BY TreeAssumption
      <4>2. \A f \in [1..Len(TreeFiles) -> Int] : f \in Seq(Int) BY <4>1
      <4> QED BY <1>4, <4>2 DEF Releases
    <3>2. bundle.man \in ManRecs /\ bundle.db = bundle.man.db /\ bundle.cfg = bundle.man.cfg
          /\ bundle.db \in Int /\ bundle.cfg \in Int
      BY <1>2, <2>2
    <3>3. MadeContract \in Docs /\ Cites(MadeContract)
      BY <1>2, <2>2, <3>1, <3>2 DEF MadeContract, Docs, Cites
    <3> QED BY <2>2, <3>3 DEF OpsInit
  <2> QED BY <2>1, <2>2
<1>6. ContractTypes BY <1>1, <1>4, <1>5, NoDocs DEF ContractTypes
<1>7. SealTypes
  <2>1. inputs \in [Inputs -> Int] /\ evidence \in [1..Len(EvidenceFiles) -> Int]
    BY DEF OpsInit
  <2>2. spare \in Dirs
    BY ManRecValues DEF OpsInit, MadeElsewhere, Dirs, ManRecs
  <2> QED BY <1>1, <2>1, <2>2, SRestingRegs DEF OpsInit, SealTypes, SRegs
<1>8. WhereItIs
  BY <1>1, <1>5 DEF WhereItIs, Preparing, BundlePcs, ContractPcs, SealPcs, OnItsWay
<1>9. MakersHonest
  <2>1. \A m \in Makers : maker[m].pc = "idle" BY DEF OpsInit, AllIdle
  <2>2. restored = {} /\ ~foreign BY DEF OpsInit, AllIdle
  <2>3. \A s \in sealed : Sound(s.db) /\ s.cfg # Broken BY <1>2 DEF Sound, Broken
  <2> QED BY <1>2, <2>1, <2>2, <2>3, ManRecValues DEF MakersHonest, Making, Unsealed
<1>10. ReadHonest /\ SameTwice /\ WalkHonest /\ OwnContract
  BY <1>1 DEF ReadHonest, SameTwice, WalkHonest, OwnContract, Goals
<1>11. ContractsHonest BY <1>1, <1>5 DEF ContractsHonest
<1>12. SealsHonest BY <1>1 DEF SealsHonest, OwnRead, EarlyPcs, LatePcs
<1> QED BY <1>3, <1>6, <1>7, <1>8, <1>9, <1>10, <1>11, <1>12 DEF OpsInv

\* The invariant says what the property says.
LEMMA OpsSays ==
    ASSUME OpsInv
    PROVE  OperationsHonest
<1>1. RestoreHonest
  BY DEF OpsInv, MakersHonest, ReadHonest, RestoreHonest, Goals
<1>2. ContractHonest
  BY DEF OpsInv, ContractsHonest, ContractHonest, Cites
<1>3. ASSUME rd.pc = "sgood", rd.quiet
      PROVE  SealHonest
  <2>1. opsCase = "seal"
    BY <1>3 DEF OpsInv, WhereItIs, SealTypes, BundlePcs, ContractPcs, OnItsWay
  <2>2. rd.pc \in LatePcs BY <1>3 DEF LatePcs
  <2>3. AllBound /\ BundleBound BY <1>3, <2>1, <2>2, LateBound
  <2>4. seal.doc = [sr.doc EXCEPT !.whole = TRUE] /\ ContractMatches(sr.doc.contract)
    BY <1>3, <2>1 DEF OpsInv, SealsHonest
  <2>5. sr.doc \in SealDocs BY DEF OpsInv, SealTypes
  <2>6. /\ seal.doc.ledger = sr.doc.ledger /\ seal.doc.host = sr.doc.host
        /\ seal.doc.acceptance = sr.doc.acceptance /\ seal.doc.soak = sr.doc.soak
        /\ seal.doc.evidence = sr.doc.evidence /\ seal.doc.man = sr.doc.man
        /\ seal.doc.db = sr.doc.db /\ seal.doc.cfg = sr.doc.cfg
        /\ seal.doc.contract = sr.doc.contract
    BY <2>4, <2>5 DEF SealDocs
  <2>7. \A i \in Inputs : Sound(inputs[i]) BY <2>3 DEF AllBound, Bound, Inputs
  <2> QED BY <2>3, <2>4, <2>6, <2>7 DEF SealHonest, AllBound, BundleBound, Bound
<1>4. SealHonest BY <1>3 DEF SealHonest
<1> QED BY <1>1, <1>2, <1>4 DEF OperationsHonest

\* What the tools of the operations say of the files they made or read is true: what
\* was restored is one create's, a contract that was made or verified undisturbed is
\* true of the releases and of the bundle it cites, and so is a seal of all it binds: its
\* own bundle, and the one its contract cites, which need not be the same.
THEOREM OperationsStayHonest == OpsSpec => []OperationsHonest
<1>1. OpsInit => OpsInv BY OpsBegins
<1>2. OpsInv /\ [OpsNext]_opsvars => OpsInv' BY OpsNextKeeps
<1>3. OpsInv => OperationsHonest BY OpsSays
<1> QED BY <1>1, <1>2, <1>3, PTL DEF OpsSpec
===============================================================================
