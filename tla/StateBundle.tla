------------------------------ MODULE StateBundle ------------------------------
(***************************************************************************)
(* Backup and restore of the state (linux_backup.py). A bundle is a        *)
(* directory of a database, a configuration and a manifest, which is       *)
(* written last. Commands make one at one path, verify it, and restore it  *)
(* into a new directory, while the service commits to its database, the    *)
(* configuration is edited, files decay and an administrator clears        *)
(* directories away; any step may fail, and a command may be killed.       *)
(*                                                                         *)
(* A file is its content: a number, Broken, or Half while it is written.   *)
(* A reading is bound to the identity of its file from before it is opened *)
(* until after it is closed and is refused if anything changed meanwhile:  *)
(* it yields the content of one moment, or fails. Digest and size of a     *)
(* content are the content.                                                *)
(***************************************************************************)
EXTENDS Integers, FiniteSets

CONSTANTS
    Makers,         \* processes of `create`
    MaxWorld,       \* bound: changes of the world, each of one thing
    MaxMishaps      \* bound: failing steps, and processes that are killed

ASSUME BundleAssumption ==
    /\ IsFiniteSet(Makers) /\ Makers \subseteq Nat \ {0}
    /\ MaxWorld \in Nat /\ MaxMishaps \in Nat

Absent == -3
Half == -2
Broken == -1
None == [db |-> Absent, cfg |-> Absent, maker |-> 0]    \* no manifest
NoDir == [db |-> Absent, cfg |-> Absent, man |-> None, maker |-> 0]

VARIABLES
    liveDb,         \* what is committed to the database of the service
    liveCfg,        \* its configuration
    world,          \* bound: changes of the world so far
    mishaps,        \* bound: failures and kills so far
    maker,          \* each create: pc, what it copied and what it read again
    bundle,         \* the directory of the bundle, NoDir when there is none
    target,         \* the directory restored into
    rd,             \* the reading command: pc, ret (where a verification returns
                    \* to), man, db, cfg as verified, quiet: nothing was changed
                    \* or removed since it began
    sealed,         \* every manifest that was written as a whole
    restored,       \* what restore answered "restored" for
    foreign         \* a process removed a directory it had not made

bundlevars == <<liveDb, liveCfg, world, mishaps, maker, bundle, target, rd, sealed,
                restored, foreign>>

NoReading == [pc |-> "idle", ret |-> "idle", man |-> None, db |-> Absent, cfg |-> Absent,
            quiet |-> TRUE]
NothingMade == bundle = NoDir /\ sealed = {}
AllIdle ==
    /\ liveDb = 0 /\ liveCfg = 0 /\ world = 0 /\ mishaps = 0
    /\ maker = [m \in Makers |-> [pc |-> "idle", cfg |-> Absent, db |-> Absent]]
    /\ target = NoDir /\ rd = NoReading /\ restored = {} /\ foreign = FALSE
BundleInit == AllIdle /\ NothingMade

World == <<liveDb, liveCfg, world>>
Mishap == mishaps < MaxMishaps /\ mishaps' = mishaps + 1
Sound(v) == v >= 0
-------------------------------------------------------------------------------
(* create *)

Reaches(m, pc) == maker' = [maker EXCEPT ![m].pc = pc]

\* _check_source_file, _stat_regular: both sources are there and plain; the database
\* begins like one.
SourcesChecked == Sound(liveDb) /\ liveCfg # Absent

\* os.mkdir: exclusive; an existing path is refused and left alone.
MakeDir(m) ==
    /\ maker[m].pc = "idle" /\ SourcesChecked
    /\ IF bundle = NoDir
       THEN bundle' = [NoDir EXCEPT !.maker = m] /\ Reaches(m, "snapshot")
       ELSE bundle' = bundle /\ Reaches(m, "refused")
    /\ UNCHANGED <<World, mishaps, target, rd, sealed, restored, foreign>>

\* _snapshot_database: the online backup of SQLite yields what is committed, checked
\* for integrity before it counts.
Snapshot(m) ==
    /\ maker[m].pc = "snapshot"
    /\ bundle' = [bundle EXCEPT !.db = liveDb] /\ Reaches(m, "copy")
    /\ UNCHANGED <<World, mishaps, target, rd, sealed, restored, foreign>>

\* _copy_payload: the configuration is copied chunk by chunk as it is read.
CopyPayload(m) ==
    /\ maker[m].pc = "copy" /\ liveCfg # Absent
    /\ bundle' = [bundle EXCEPT !.cfg = liveCfg]
    /\ maker' = [maker EXCEPT ![m] = [@ EXCEPT !.cfg = liveCfg, !.pc = "reread"]]
    /\ UNCHANGED <<World, mishaps, target, rd, sealed, restored, foreign>>

\* _read_payload: the content of one moment.
ReadPayload(dir, entry) == dir[entry]

\* Mutant: what was copied is not compared with what lies in the bundle.
MutantSameBytes(read, known) == TRUE

SameBytes(read, known) == read = known

\* _read_payload of both entries; what was copied is what lies there.
ReadAgain(m) ==
    /\ maker[m].pc = "reread"
    /\ IF SameBytes(ReadPayload(bundle, "cfg"), maker[m].cfg)
       THEN maker' = [maker EXCEPT ![m] = [pc |-> "integrity",
                                           db |-> ReadPayload(bundle, "db"),
                                           cfg |-> ReadPayload(bundle, "cfg")]]
       ELSE Reaches(m, "undo")
    /\ UNCHANGED <<World, mishaps, bundle, target, rd, sealed, restored, foreign>>

\* _sqlite_integrity: the database is the one that was read, and it is sound.
Integrity(read, now) == read = now /\ Sound(now)
CheckMade(m) ==
    /\ maker[m].pc = "integrity"
    /\ Reaches(m, IF Integrity(maker[m].db, bundle.db) THEN "manifest" ELSE "undo")
    /\ UNCHANGED <<World, mishaps, bundle, target, rd, sealed, restored, foreign>>

\* _manifest_document, _write_manifest: the entry is there before it is whole.
ManifestOf(m) == [db |-> maker[m].db, cfg |-> maker[m].cfg, maker |-> m]
BeginManifest(m) ==
    /\ maker[m].pc = "manifest"
    /\ bundle' = [bundle EXCEPT !.man = [None EXCEPT !.maker = Half]] /\ Reaches(m, "written")
    /\ UNCHANGED <<World, mishaps, target, rd, sealed, restored, foreign>>
EndManifest(m) ==
    /\ maker[m].pc = "written"
    /\ bundle' = [bundle EXCEPT !.man = ManifestOf(m)]
    /\ sealed' = sealed \cup {ManifestOf(m)} /\ Reaches(m, "made")
    /\ UNCHANGED <<World, mishaps, target, rd, restored, foreign>>
\* _read_payload of the manifest, and the answer.
EndMake(m) ==
    /\ maker[m].pc = "made" /\ Reaches(m, "done")
    /\ UNCHANGED <<World, mishaps, bundle, target, rd, sealed, restored, foreign>>

Making == {"snapshot", "copy", "reread", "integrity", "manifest", "written", "made"}
\* Any of these steps fails: the directory goes, if it can.
FailMake(m) ==
    /\ maker[m].pc \in Making /\ Mishap /\ Reaches(m, "undo")
    /\ UNCHANGED <<World, bundle, target, rd, sealed, restored, foreign>>
\* _remove_created_dir; when it fails a part of the bundle remains.
RemoveCreatedDir(m) ==
    /\ maker[m].pc = "undo"
    /\ \/ bundle' = NoDir /\ UNCHANGED mishaps
       \/ bundle' = [bundle EXCEPT !.cfg = Absent] /\ Mishap
    /\ foreign' = (foreign \/ bundle.maker # m) /\ Reaches(m, "failed")
    /\ rd' = [rd EXCEPT !.quiet = FALSE]
    /\ UNCHANGED <<World, target, sealed, restored>>
KillMaker(m) ==
    /\ maker[m].pc \in Making \cup {"undo"} /\ Mishap /\ Reaches(m, "killed")
    /\ UNCHANGED <<World, bundle, target, rd, sealed, restored, foreign>>
-------------------------------------------------------------------------------
(* verify *)

RdGoes(pc) == rd' = [rd EXCEPT !.pc = pc]
\* A command, or one that verifies on its way, begins to verify; cmd is where it goes
\* on when the bundle is good.
Verifying(cmd) == [rd EXCEPT !.pc = "scan", !.ret = cmd, !.man = None,
                             !.db = Absent, !.cfg = Absent]

BeginVerify(cmd) ==
    /\ rd.pc = "idle" /\ rd' = [Verifying(cmd) EXCEPT !.quiet = TRUE]
    /\ UNCHANGED <<World, mishaps, maker, bundle, target, sealed, restored, foreign>>

\* The steps of verify_bundle, on whatever directory it is given.
\* _check_bundle_root, _scan_bundle_entries: exactly the three entries.
Complete(d) == d.db # Absent /\ d.cfg # Absent /\ d.man # None
ScanEntries(dir) ==
    /\ rd.pc = "scan" /\ RdGoes(IF Complete(dir) THEN "manifest" ELSE "bad")
    /\ UNCHANGED <<World, mishaps, maker, bundle, target, sealed, restored, foreign>>

\* _validate_manifest: every field, the two contents with size and digest among them;
\* a manifest half written is no document.
Valid(man) == man # None /\ man.maker # Half /\ man.db # Absent /\ man.cfg # Absent
ReadManifest(dir) ==
    /\ rd.pc = "manifest"
    /\ LET man == ReadPayload(dir, "man")
       IN  IF Valid(man) THEN rd' = [rd EXCEPT !.man = man, !.pc = "db"] ELSE RdGoes("bad")
    /\ UNCHANGED <<World, mishaps, maker, bundle, target, sealed, restored, foreign>>
ReadDb(dir) ==
    /\ rd.pc = "db"
    /\ IF SameBytes(ReadPayload(dir, "db"), rd.man.db) /\ dir.db # Absent
       THEN rd' = [rd EXCEPT !.db = dir.db, !.pc = "sound"] ELSE RdGoes("bad")
    /\ UNCHANGED <<World, mishaps, maker, bundle, target, sealed, restored, foreign>>
CheckDb(dir) ==
    /\ rd.pc = "sound" /\ RdGoes(IF Integrity(rd.db, dir.db) THEN "cfg" ELSE "bad")
    /\ UNCHANGED <<World, mishaps, maker, bundle, target, sealed, restored, foreign>>
ReadCfg(dir) ==
    /\ rd.pc = "cfg"
    /\ IF SameBytes(ReadPayload(dir, "cfg"), rd.man.cfg)
       THEN rd' = [rd EXCEPT !.cfg = dir.cfg, !.pc = rd.ret] ELSE RdGoes("bad")
    /\ UNCHANGED <<World, mishaps, maker, bundle, target, sealed, restored, foreign>>
VerifyBundle(dir) ==
    ScanEntries(dir) \/ ReadManifest(dir) \/ ReadDb(dir) \/ CheckDb(dir) \/ ReadCfg(dir)
-------------------------------------------------------------------------------
(* restore: verify first, then copy into a directory that was not there *)

MakeTarget ==
    /\ rd.pc = "mktarget"
    /\ IF target = NoDir THEN target' = [NoDir EXCEPT !.maker = 1] /\ RdGoes("rdb")
                         ELSE target' = target /\ RdGoes("bad")
    /\ UNCHANGED <<World, mishaps, maker, bundle, sealed, restored, foreign>>

\* _materialise, for each entry: copied, compared with what was verified, read again
\* and compared once more; the database is checked for integrity.
RestoreDb ==
    /\ rd.pc = "rdb" /\ bundle.db # Absent
    /\ target' = [target EXCEPT !.db = ReadPayload(bundle, "db")]
    /\ RdGoes(IF SameBytes(target'.db, rd.db) /\ Sound(target'.db)
              THEN "rcfg" ELSE "undo")
    /\ UNCHANGED <<World, mishaps, maker, bundle, sealed, restored, foreign>>
RestoreCfg ==
    /\ rd.pc = "rcfg" /\ bundle.cfg # Absent
    /\ target' = [target EXCEPT !.cfg = ReadPayload(bundle, "cfg")]
    /\ IF SameBytes(target'.cfg, rd.cfg)
       THEN RdGoes("good") /\ restored' = restored \cup {[db |-> target.db, cfg |-> target'.cfg]}
       ELSE RdGoes("undo") /\ UNCHANGED restored
    /\ UNCHANGED <<World, mishaps, maker, bundle, sealed, foreign>>

\* A step of the command fails; an entry that has gone is a failure as well.
FailRead(pcs, undo) ==
    /\ rd.pc \in pcs /\ RdGoes(IF rd.pc \in undo THEN "undo" ELSE "bad")
    /\ \/ Mishap
       \/ rd.pc = "rdb" /\ bundle.db = Absent /\ UNCHANGED mishaps
       \/ rd.pc = "rcfg" /\ bundle.cfg = Absent /\ UNCHANGED mishaps
    /\ UNCHANGED <<World, maker, bundle, target, sealed, restored, foreign>>
UndoTarget ==
    /\ rd.pc = "undo" /\ RdGoes("bad")
    /\ \/ target' = NoDir /\ UNCHANGED mishaps
       \/ UNCHANGED target /\ Mishap
    /\ UNCHANGED <<World, maker, bundle, sealed, restored, foreign>>
\* The command has answered, or is killed; what it wrote stays.
EndRead ==
    /\ rd' = NoReading
    /\ \/ rd.pc \in {"good", "bad"} /\ UNCHANGED mishaps
       \/ rd.pc \notin {"idle", "good", "bad"} /\ Mishap
    /\ UNCHANGED <<World, maker, bundle, target, sealed, restored, foreign>>
-------------------------------------------------------------------------------
(* The world *)

Turns == world < MaxWorld /\ world' = world + 1 /\ rd' = [rd EXCEPT !.quiet = FALSE]
CommitLive ==
    /\ Turns /\ liveDb' = liveDb + 1
    /\ UNCHANGED <<liveCfg, mishaps, maker, bundle, target, sealed, restored, foreign>>
\* The configuration is edited; for a while half of it lies there.
EditLive ==
    /\ Turns /\ liveCfg' = IF liveCfg = Half THEN world ELSE Half
    /\ UNCHANGED <<liveDb, mishaps, maker, bundle, target, sealed, restored, foreign>>
\* A file of the bundle decays.
Decay ==
    /\ Turns
    /\ \/ bundle.db # Absent /\ bundle' = [bundle EXCEPT !.db = Broken]
       \/ bundle.cfg # Absent /\ bundle' = [bundle EXCEPT !.cfg = Broken]
    /\ UNCHANGED <<liveDb, liveCfg, mishaps, maker, target, sealed, restored, foreign>>
\* An administrator clears away a bundle whose maker has come to its end.
ClearBundle ==
    /\ Turns /\ bundle # NoDir /\ maker[bundle.maker].pc \notin Making \cup {"undo"}
    /\ bundle' = NoDir
    /\ UNCHANGED <<liveDb, liveCfg, mishaps, maker, target, sealed, restored, foreign>>

BundleNext ==
    \/ \E m \in Makers :
        \/ MakeDir(m) \/ Snapshot(m) \/ CopyPayload(m) \/ ReadAgain(m) \/ CheckMade(m)
        \/ BeginManifest(m) \/ EndManifest(m) \/ EndMake(m) \/ FailMake(m)
        \/ RemoveCreatedDir(m) \/ KillMaker(m)
    \/ BeginVerify("good") \/ BeginVerify("mktarget") \/ VerifyBundle(bundle)
    \/ MakeTarget \/ RestoreDb \/ RestoreCfg
    \/ FailRead({"scan", "manifest", "db", "sound", "cfg", "mktarget", "rdb", "rcfg"},
                {"rdb", "rcfg"})
    \/ UndoTarget \/ EndRead
    \/ CommitLive \/ EditLive \/ Decay \/ ClearBundle
BundleSpec == BundleInit /\ [][BundleNext]_bundlevars
-------------------------------------------------------------------------------
(* Properties *)

BundleTypeOK ==
    /\ world \in 0..MaxWorld /\ mishaps \in 0..MaxMishaps
    /\ \A s \in sealed : Valid(s) /\ s.maker \in Makers
    /\ bundle.maker \in Makers \cup {0} /\ rd.quiet \in BOOLEAN

\* A restored directory, and a bundle said to be good while nothing in the world
\* changed, hold the database and the configuration of one and the same create, both as
\* they were read from the service, whatever changed, decayed, failed, was killed or was
\* cleared away in between; no directory is removed but by the process that made it.
RestoreHonest ==
    /\ ~foreign
    /\ \A s \in sealed : Sound(s.db) /\ s.cfg # Broken
    /\ \A r \in restored :
        \E s \in sealed : s.db = r.db /\ s.cfg = r.cfg
    /\ rd.pc = "good" /\ rd.quiet => bundle.man \in sealed
===============================================================================
