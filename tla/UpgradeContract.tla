---------------------------- MODULE UpgradeContract ----------------------------
(***************************************************************************)
(* The contract of an upgrade (linux_upgrade_contract.py): prepare records *)
(* the files of the current and of the candidate release and the bundle of *)
(* the state in one document in a directory of its own; verify reads all   *)
(* of it again. Both read file by file while the releases are upgraded and *)
(* the bundle decays or is replaced by a later one.                        *)
(***************************************************************************)
EXTENDS StateBundle, Sequences

CONSTANT TreeFiles   \* files of a release, in the order they are walked: the manifest
                     \* of the release and its sources

ASSUME TreeAssumption == TreeFiles \in Seq(STRING) /\ Len(TreeFiles) > 0

Releases == {"current", "candidate"}
NoTree == <<>>
NoDoc == [current |-> NoTree, candidate |-> NoTree, man |-> None, db |-> Absent,
          cfg |-> Absent, whole |-> FALSE]

VARIABLES
    tree,           \* the two releases: content by file
    contract,       \* the directory of the contract: there, doc
    outAt,          \* where the directory for the answer is asked for
    kr              \* the reading command: cmd; mine, the directory it made; at, the
                    \* release and how much of it was walked; the document in the
                    \* making, and the one that is checked

contractvars == <<tree, contract, outAt, kr>>

KResting == [cmd |-> "none", mine |-> FALSE, of |-> "current", doc |-> NoDoc,
             check |-> NoDoc]
NoContract == [there |-> FALSE, doc |-> NoDoc]
Release(v) == [i \in 1..Len(TreeFiles) |-> v]
TwoReleases ==
    /\ tree = [r \in Releases |-> Release(IF r = "current" THEN 0 ELSE 1)]
    /\ kr = KResting

BundleSide == <<liveDb, liveCfg, maker, bundle, target, sealed, restored, foreign>>
-------------------------------------------------------------------------------
(* Where the answer goes *)

\* _is_inside: a path is inside another that is a part of it.
InsideOf(child, parent) ==
    Len(child) > Len(parent) /\ SubSeq(child, 1, Len(parent)) = parent
DisjointPaths(p, q) == p # q /\ ~InsideOf(p, q) /\ ~InsideOf(q, p)
Roots == {<<"current">>, <<"candidate">>, <<"bundle">>}
\* _check_root_relation: current and candidate differ and are not nested.
RootsApart == DisjointPaths(<<"current">>, <<"candidate">>)
\* _check_output_location
OutputApart(at) == \A r \in Roots : DisjointPaths(at, r)
\* _check_bundle_shape: the three entries are there.
BundleShape == Complete(bundle)

KGoes(pc, regs) == rd' = [rd EXCEPT !.pc = pc] /\ kr' = regs

\* prepare_contract, before anything is created.
BeginPrepare ==
    /\ rd.pc = "idle"
    /\ rd' = [NoReading EXCEPT !.pc = IF RootsApart /\ BundleShape /\ OutputApart(outAt)
                                    THEN "mkcontract" ELSE "bad"]
    /\ kr' = [KResting EXCEPT !.cmd = "prepare"]
    /\ UNCHANGED <<BundleSide, world, mishaps, tree, contract, outAt>>
MakeContractDir ==
    /\ rd.pc = "mkcontract"
    /\ IF contract.there
       THEN KGoes("bad", kr) /\ UNCHANGED contract
       ELSE /\ contract' = [NoContract EXCEPT !.there = TRUE]
            /\ KGoes("walk", [kr EXCEPT !.mine = TRUE])
    /\ UNCHANGED <<BundleSide, world, mishaps, tree, outAt>>
-------------------------------------------------------------------------------
(* The releases *)

\* _has_required_release_files: no part is missing.
RequiredFiles(t) == \A i \in 1..Len(t) : t[i] # Absent
\* _tree_summary: count, bytes and digest of the list are the list.
Summary(t) == t

\* _hash_file: the content of one file at one moment, the files in their order.
HashFile(t, i) == Append(t, tree[kr.of][i])

\* Mutant: a release is not compared with the contract.
MutantReleaseHolds(scanned, recorded) == TRUE

\* _verify_release_content: the files and their summary are those of the contract.
ReleaseHolds(scanned, recorded) ==
    scanned = recorded /\ Summary(scanned) = Summary(recorded)

Preparing == kr.cmd = "prepare"
\* What follows a release that was walked: the other one, or the bundle.
AfterWalk(regs) ==
    IF kr.of = "current" THEN KGoes("walk", [regs EXCEPT !.of = "candidate"])
    ELSE rd' = Verifying(IF Preparing THEN "digest" ELSE "kcheck") /\ kr' = regs

\* _scan_tree, _walk_tree: one file after the other.
WalkTree ==
    /\ rd.pc = "walk"
    /\ LET t == HashFile(kr.doc[kr.of], Len(kr.doc[kr.of]) + 1)
           regs == [kr EXCEPT !.doc[kr.of] = t]
       IN  IF Len(t) < Len(TreeFiles) THEN KGoes("walk", regs)
           ELSE IF /\ RequiredFiles(t)
                   /\ Preparing \/ ReleaseHolds(t, kr.check[kr.of])
                THEN AfterWalk(regs)
                ELSE KGoes("bad", regs)
    /\ UNCHANGED <<BundleSide, world, mishaps, tree, contract, outAt>>
-------------------------------------------------------------------------------
(* The bundle, bound by verifying it twice *)

\* _manifest_digest: the manifest at one moment; there has to be one.
Digest == bundle.man
\* _payload_fingerprint
Fingerprint == [db |-> rd.db, cfg |-> rd.cfg]

\* _backup_document: verified; its digest taken; verified again with the same contents,
\* and the digest is still the same.
BindDigest ==
    /\ rd.pc = "digest"
    /\ IF Digest = None THEN KGoes("bad", kr)
       ELSE /\ rd' = Verifying("again")
            /\ kr' = [kr EXCEPT !.doc.man = Digest, !.doc.db = Fingerprint.db,
                                !.doc.cfg = Fingerprint.cfg]
    /\ UNCHANGED <<BundleSide, world, mishaps, tree, contract, outAt>>

\* Mutant: the bundle is not verified again after its digest was taken.
MutantBoundTwice(d) == TRUE
BoundTwice(d) == Fingerprint = [db |-> d.db, cfg |-> d.cfg] /\ Digest = d.man
BindAgain ==
    /\ rd.pc = "again" /\ KGoes(IF BoundTwice(kr.doc) THEN "document" ELSE "bad", kr)
    /\ UNCHANGED <<BundleSide, world, mishaps, tree, contract, outAt>>

\* _contract_document, _write_contract: the entry is there before it is whole.
BeginContract ==
    /\ rd.pc = "document" /\ KGoes("kwrite", kr)
    /\ contract' = [contract EXCEPT !.doc.db = Half]
    /\ UNCHANGED <<BundleSide, world, mishaps, tree, outAt>>
EndContract ==
    /\ rd.pc = "kwrite"
    /\ contract' = [contract EXCEPT !.doc = [kr.doc EXCEPT !.whole = TRUE]]
    /\ KGoes("kgood", [kr EXCEPT !.mine = FALSE])
    /\ UNCHANGED <<BundleSide, world, mishaps, tree, outAt>>
-------------------------------------------------------------------------------
(* verify_contract *)

\* _validate_release, _validate_backup, _validate_checklist and the order of its
\* rollback: the document is whole, has both releases with their files, and cites a
\* bundle that was good, by the digests of its manifest and its contents.
ReleaseValid(t) == Len(t) = Len(TreeFiles) /\ RequiredFiles(t)
BackupValid(d) == d.man # None /\ d.db # Absent /\ d.cfg # Absent
ContractValid(d) ==
    d.whole /\ BackupValid(d) /\ \A r \in Releases : ReleaseValid(d[r])

BeginCheck(cmd, regs) ==
    /\ rd' = [rd EXCEPT !.pc = "kscan"]
    /\ kr' = [regs EXCEPT !.cmd = cmd, !.of = "current", !.doc = NoDoc, !.check = NoDoc]
\* _scan_contract_entries: the one entry, which is read at one moment.
ScanContract ==
    /\ rd.pc = "kscan"
    /\ IF contract.there /\ ContractValid(contract.doc)
       THEN KGoes("walk", [kr EXCEPT !.check = contract.doc])
       ELSE KGoes("bad", kr)
    /\ UNCHANGED <<BundleSide, world, mishaps, tree, contract, outAt>>
\* _verify_backup_content
BackupHolds(d) == Fingerprint = [db |-> d.db, cfg |-> d.cfg] /\ Digest = d.man
CheckBackup ==
    /\ rd.pc = "kcheck" /\ KGoes(IF BackupHolds(kr.check) THEN "kgood" ELSE "bad", kr)
    /\ UNCHANGED <<BundleSide, world, mishaps, tree, contract, outAt>>

\* _remove_created_dir, _fail: only what this run made is removed; it may fail.
UndoContract ==
    /\ rd.pc = "bad" /\ kr.cmd = "prepare" /\ kr.mine
    /\ \/ contract' = NoContract /\ UNCHANGED mishaps
       \/ UNCHANGED contract /\ Mishap
    /\ kr' = [kr EXCEPT !.mine = FALSE]
    /\ UNCHANGED <<BundleSide, rd, world, tree, outAt>>
-------------------------------------------------------------------------------
(* The world *)

Upgrade(r, i) ==
    /\ Turns /\ tree' = [tree EXCEPT ![r][i] = IF @ = 2 THEN Absent ELSE 2]
    /\ UNCHANGED <<BundleSide, mishaps, contract, outAt, kr>>
\* Another bundle is made at the path, once the first was cleared away (StateBundle);
\* its manifest says when it was created, so no two makers write the same one.
Remake ==
    /\ Turns /\ \E m \in Makers :
        /\ bundle.man # None /\ \A s \in sealed : m # s.maker
        /\ \E v \in {0, 1} :
             LET man == [db |-> v, cfg |-> 0, maker |-> m]
             IN  /\ bundle' = [db |-> v, cfg |-> 0, man |-> man, maker |-> m]
                 /\ sealed' = sealed \cup {man}
    /\ UNCHANGED <<liveDb, liveCfg, mishaps, maker, target, restored, foreign,
                   tree, contract, outAt, kr>>
DecayWorld == Decay /\ UNCHANGED contractvars
ClearContract ==
    /\ Turns /\ contract.there /\ ~kr.mine /\ contract' = NoContract
    /\ UNCHANGED <<BundleSide, mishaps, tree, outAt, kr>>
-------------------------------------------------------------------------------
(* Properties *)

ContractMatches(d) ==
    /\ \A r \in Releases : d[r] = tree[r]
    /\ d.man = bundle.man /\ d.db = bundle.db /\ d.cfg = bundle.cfg

\* A contract cites the contents of the bundle whose manifest it cites, though the
\* bundle is replaced or decays while it is bound; and a contract that was made, or
\* verified, while nothing changed is true of what lies there.
ContractHonest ==
    /\ contract.doc.whole =>
        LET d == contract.doc
        IN  d.man \in sealed /\ d.db = d.man.db /\ d.cfg = d.man.cfg
    /\ rd.pc = "kgood" /\ rd.quiet /\ contract.there => ContractMatches(contract.doc)
===============================================================================
