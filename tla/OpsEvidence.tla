------------------------------ MODULE OpsEvidence ------------------------------
(***************************************************************************)
(* The seal of the evidence of operations (linux_ops_evidence.py): prepare *)
(* binds a ledger with the files it refers to, the probe of the host, the  *)
(* report of the acceptance, the soak, the bundle of the state and the     *)
(* contract of the upgrade by their digests in one document; verify binds  *)
(* all of it again and compares. Bundle and contract are verified by their *)
(* own commands (StateBundle, UpgradeContract), each on its own: nothing   *)
(* compares the bundle of the seal with the one the contract is over, and  *)
(* the two may lie in different places.                                    *)
(***************************************************************************)
EXTENDS UpgradeContract

CONSTANT EvidenceFiles  \* files under the root of the evidence, in their order

\* The bundle that is there at first, where there is one, is of the first process.
ASSUME EvidenceAssumption ==
    EvidenceFiles \in Seq(STRING) /\ Len(EvidenceFiles) > 1 /\ 1 \in Makers

Inputs == {"host_probe", "acceptance_report", "soak", "operations_ledger"}
NoSeal == [ledger |-> Absent, evidence |-> <<>>, host |-> Absent, acceptance |-> Absent,
           soak |-> Absent, man |-> None, db |-> Absent, cfg |-> Absent,
           contract |-> NoDoc, whole |-> FALSE]

VARIABLES
    inputs,         \* content of the four documents
    evidence,       \* content of each file of the evidence
    seal,           \* the directory of the seal: there, doc
    sr,             \* the command: mine, the directory it made; doc, what it has bound
    spare,          \* the directory the seal takes for its bundle, NoDir when that is
                    \* the one the contract is over
    opsCase         \* bound: what this behaviour is about

sealvars == <<inputs, evidence, seal, sr, spare, opsCase>>
ContractSide == <<tree, contract, outAt>>
SResting == [mine |-> FALSE, doc |-> NoSeal]

\* A behaviour is about the bundle, the contract or the seal; the last two begin with
\* a bundle, the last one with a contract as prepare leaves it.
MadeBundle ==
    LET man == [db |-> 0, cfg |-> 0, maker |-> 1]
    IN  /\ bundle = [db |-> 0, cfg |-> 0, man |-> man, maker |-> 1] /\ sealed = {man}
MadeElsewhere ==
    [db |-> 1, cfg |-> 1, man |-> [db |-> 1, cfg |-> 1, maker |-> 1], maker |-> 1]
MadeContract ==
    [current |-> tree["current"], candidate |-> tree["candidate"], man |-> bundle.man,
     db |-> bundle.db, cfg |-> bundle.cfg, whole |-> TRUE]
OpsInit ==
    /\ opsCase \in {"bundle", "contract", "seal"}
    /\ AllIdle /\ TwoReleases
    /\ IF opsCase = "bundle" THEN NothingMade ELSE MadeBundle
    /\ outAt \in IF opsCase = "contract" THEN {<<"out">>, <<"current", "out">>, <<>>}
                                         ELSE {<<"out">>}
    /\ contract = IF opsCase # "seal" THEN NoContract
                  ELSE [there |-> TRUE, doc |-> MadeContract]
    /\ inputs = [i \in Inputs |-> 0]
    /\ evidence = [i \in 1..Len(EvidenceFiles) |-> 0]
    /\ seal = [there |-> FALSE, doc |-> NoSeal] /\ sr = SResting
    /\ spare \in IF opsCase = "seal" THEN {NoDir, MadeElsewhere} ELSE {NoDir}

SGoes(pc, regs) == rd' = [rd EXCEPT !.pc = pc] /\ sr' = regs
Sealing == kr.cmd = "seal"
OpsSide == <<inputs, evidence, seal, spare, opsCase>>
-------------------------------------------------------------------------------
(* prepare *)

\* prepare_bundle: the inputs are there, in places apart from one another and from the
\* output, which is not there yet.
Own == IF spare = NoDir THEN bundle ELSE spare
InputsThere ==
    Own # NoDir /\ contract.there /\ \A i \in Inputs : inputs[i] # Absent
\* _check_input_relations, _check_output_location
OutputFree == ~seal.there
BeginSeal ==
    /\ rd.pc = "idle"
    /\ rd' = [NoReading EXCEPT !.pc = IF InputsThere /\ OutputFree THEN "mkseal" ELSE "bad"]
    /\ kr' = [KResting EXCEPT !.cmd = "seal"] /\ sr' = SResting
    /\ UNCHANGED <<BundleSide, world, mishaps, ContractSide, OpsSide>>
\* _create_output_dir
MakeSealDir ==
    /\ rd.pc = "mkseal"
    /\ IF seal.there THEN SGoes("bad", sr) /\ UNCHANGED seal
       ELSE /\ seal' = [there |-> TRUE, doc |-> NoSeal]
            /\ SGoes("ledger", [sr EXCEPT !.mine = TRUE])
    /\ UNCHANGED <<BundleSide, world, mishaps, ContractSide, kr, inputs, evidence, spare, opsCase>>
-------------------------------------------------------------------------------
(* _bindings *)

\* _stream_file, _read_json_document: the content of one moment.
Stream(i) == inputs[i]
\* A document that can be bound: it is whole and says what its kind has to say.
\* _bind_ledger, _validate_ledger, _validate_step: the steps in their order.
LedgerValid(v) == Sound(v)
\* _bind_host_probe, _bind_acceptance_report
HostProbeValid(v) == Sound(v)
AcceptanceValid(v) == Sound(v)
\* _collect_references: what the steps refer to, each file once.
References(v) == IF v = 0 THEN 1..Len(EvidenceFiles) ELSE 1..Len(EvidenceFiles) - 1
\* _step_records, _scan_evidence_root: the files that are there are those referred to.
EvidenceComplete(files, refs) ==
    \A i \in 1..Len(files) : files[i] # Absent <=> i \in refs

BindLedger ==
    /\ rd.pc = "ledger"
    /\ LET v == Stream("operations_ledger")
       IN  IF LedgerValid(v) THEN SGoes("evidence", [sr EXCEPT !.doc.ledger = v])
                             ELSE SGoes("bad", sr)
    /\ UNCHANGED <<BundleSide, world, mishaps, ContractSide, kr, OpsSide>>
\* _walk_evidence: one file after the other.
WalkEvidence ==
    /\ rd.pc = "evidence"
    /\ LET e == Append(sr.doc.evidence, evidence[Len(sr.doc.evidence) + 1])
       IN  IF Len(e) < Len(EvidenceFiles) THEN SGoes("evidence", [sr EXCEPT !.doc.evidence = e])
           ELSE IF EvidenceComplete(e, References(sr.doc.ledger))
           THEN SGoes("host", [sr EXCEPT !.doc.evidence = e]) ELSE SGoes("bad", sr)
    /\ UNCHANGED <<BundleSide, world, mishaps, ContractSide, kr, OpsSide>>
BindHostProbe ==
    /\ rd.pc = "host"
    /\ LET v == Stream("host_probe")
       IN  IF HostProbeValid(v) THEN SGoes("acceptance", [sr EXCEPT !.doc.host = v])
                                ELSE SGoes("bad", sr)
    /\ UNCHANGED <<BundleSide, world, mishaps, ContractSide, kr, OpsSide>>
BindAcceptance ==
    /\ rd.pc = "acceptance"
    /\ LET v == Stream("acceptance_report")
       IN  IF AcceptanceValid(v) THEN SGoes("soak", [sr EXCEPT !.doc.acceptance = v])
                                 ELSE SGoes("bad", sr)
    /\ UNCHANGED <<BundleSide, world, mishaps, ContractSide, kr, OpsSide>>
\* _bind_soak: verified by its own command, then its files are read for their digests.
VerifySoak ==
    /\ rd.pc = "soak" /\ SGoes(IF Sound(Stream("soak")) THEN "soakread" ELSE "bad", sr)
    /\ UNCHANGED <<BundleSide, world, mishaps, ContractSide, kr, OpsSide>>
BindSoak ==
    /\ rd.pc = "soakread"
    /\ rd' = Verifying("bmanifest") /\ sr' = [sr EXCEPT !.doc.soak = Stream("soak")]
    /\ UNCHANGED <<BundleSide, world, mishaps, ContractSide, kr, OpsSide>>
\* _bind_backup_bundle: verified, then the manifest is read for its digest.
BindBundle ==
    /\ rd.pc = "bmanifest"
    /\ IF Own.man = None THEN SGoes("bad", sr) /\ UNCHANGED kr
       ELSE /\ sr' = [sr EXCEPT !.doc.man = Own.man, !.doc.db = rd.db, !.doc.cfg = rd.cfg]
            /\ BeginCheck(kr.cmd, kr)
    /\ UNCHANGED <<BundleSide, world, mishaps, ContractSide, OpsSide>>

\* Mutant: what was sealed is not compared with what is there.
MutantSealHolds(bound, sealedDoc) == TRUE

\* verify_bundle: every binding is the one that was sealed.
SealHolds(bound, sealedDoc) == [bound EXCEPT !.whole = TRUE] = sealedDoc

\* _bind_upgrade_contract: verified by its own command, then read for its digest.
BindContract ==
    /\ rd.pc = "kgood" /\ kr.cmd \in {"seal", "unseal"}
    /\ LET bound == [sr.doc EXCEPT !.contract = contract.doc]
       IN  IF ~contract.there THEN SGoes("bad", sr)
           ELSE SGoes(IF Sealing THEN "seal"
                      ELSE IF SealHolds(bound, seal.doc) THEN "sgood" ELSE "bad",
                      [sr EXCEPT !.doc = bound])
    /\ UNCHANGED <<BundleSide, world, mishaps, ContractSide, kr, OpsSide>>
\* _manifest_document, _write_manifest: the entry is there before it is whole.
BeginSealWrite ==
    /\ rd.pc = "seal" /\ SGoes("swrite", sr) /\ seal' = [seal EXCEPT !.doc.db = Half]
    /\ UNCHANGED <<BundleSide, world, mishaps, ContractSide, kr, inputs, evidence, spare, opsCase>>
EndSealWrite ==
    /\ rd.pc = "swrite" /\ SGoes("sgood", [sr EXCEPT !.mine = FALSE])
    /\ seal' = [seal EXCEPT !.doc = [sr.doc EXCEPT !.whole = TRUE]]
    /\ UNCHANGED <<BundleSide, world, mishaps, ContractSide, kr, inputs, evidence, spare, opsCase>>
\* _cleanup_output_dir
UndoSeal ==
    /\ rd.pc = "bad" /\ Sealing /\ sr.mine
    /\ \/ seal' = [there |-> FALSE, doc |-> NoSeal] /\ UNCHANGED mishaps
       \/ seal' = [seal EXCEPT !.doc = NoSeal] /\ Mishap
    /\ sr' = [sr EXCEPT !.mine = FALSE]
    /\ UNCHANGED <<BundleSide, rd, world, ContractSide, kr, inputs, evidence, spare, opsCase>>
-------------------------------------------------------------------------------
(* verify *)

\* _scan_bundle_entries, _validate_manifest, _validate_recorded_steps: one entry, whole.
SealValid == seal.there /\ seal.doc.whole
BeginUnseal ==
    /\ rd.pc = "idle"
    /\ rd' = [NoReading EXCEPT !.pc = IF SealValid THEN "ledger" ELSE "bad"]
    /\ kr' = [KResting EXCEPT !.cmd = "unseal"] /\ sr' = SResting
    /\ UNCHANGED <<BundleSide, world, mishaps, ContractSide, OpsSide>>
-------------------------------------------------------------------------------
\* A file of the bundle of the seal decays, where that lies elsewhere.
SpareDecays ==
    /\ Turns /\ spare # NoDir
    /\ \/ spare' = [spare EXCEPT !.db = Broken] \/ spare' = [spare EXCEPT !.cfg = Broken]
    /\ UNCHANGED <<BundleSide, mishaps, ContractSide, kr, inputs, evidence, seal, sr, opsCase>>
InputChanges(i) ==
    /\ Turns /\ inputs' = [inputs EXCEPT ![i] = IF @ = 0 THEN 1 ELSE Broken]
    /\ UNCHANGED <<BundleSide, mishaps, ContractSide, kr, evidence, seal, sr, spare, opsCase>>
EvidenceChanges(i) ==
    /\ Turns /\ \E v \in {1, Absent} : evidence' = [evidence EXCEPT ![i] = v]
    /\ UNCHANGED <<BundleSide, mishaps, ContractSide, kr, inputs, seal, sr, spare, opsCase>>

\* A step of the reading command fails, the command ends, or it is killed.
Undoing == kr.mine \/ sr.mine
FailCommand ==
    /\ rd.pc \notin {"idle", "bad", "kgood", "sgood"} /\ Mishap /\ RdGoes("bad")
    /\ UNCHANGED <<BundleSide, world, contractvars, sealvars>>
EndCommand ==
    /\ \/ rd.pc \in {"bad", "sgood"} /\ ~Undoing /\ UNCHANGED mishaps
       \/ rd.pc = "kgood" /\ kr.cmd \in {"prepare", "check"} /\ UNCHANGED mishaps
       \/ rd.pc # "idle" /\ Mishap
    /\ rd' = NoReading /\ kr' = KResting /\ sr' = SResting
    /\ UNCHANGED <<BundleSide, world, ContractSide, OpsSide>>

BeginVerifyContract ==
    /\ rd.pc = "idle" /\ rd' = [NoReading EXCEPT !.pc = "kscan"]
    /\ kr' = [KResting EXCEPT !.cmd = "check"]
    /\ UNCHANGED <<BundleSide, world, mishaps, ContractSide>>
PrepareAndCheck ==
    \/ BeginPrepare \/ MakeContractDir \/ WalkTree \/ BindDigest \/ BindAgain
    \/ BeginContract \/ EndContract \/ ScanContract \/ CheckBackup \/ UndoContract
    \/ VerifyBundle(bundle) /\ UNCHANGED contractvars
    \/ BeginVerifyContract
WorldOfContract ==
    \/ \E r \in Releases, i \in 1..Len(TreeFiles) : Upgrade(r, i)
    \/ Remake \/ DecayWorld \/ ClearContract
\* verify_bundle, on the bundle of the seal and later on that of the contract.
Reading == IF rd.ret = "bmanifest" THEN Own ELSE bundle
SealAndUnseal ==
    \/ BeginSeal \/ MakeSealDir \/ BindLedger \/ WalkEvidence \/ BindHostProbe
    \/ BindAcceptance \/ VerifySoak \/ BindSoak \/ BindBundle \/ BindContract
    \/ BeginSealWrite \/ EndSealWrite \/ UndoSeal \/ BeginUnseal
    \/ (WalkTree \/ ScanContract \/ CheckBackup) /\ UNCHANGED sealvars
    \/ VerifyBundle(Reading) /\ UNCHANGED <<contractvars, sealvars>>
    \/ SpareDecays
    \/ \E i \in Inputs : InputChanges(i)
    \/ \E i \in 1..Len(EvidenceFiles) : EvidenceChanges(i)
OpsNext ==
    \/ opsCase = "bundle" /\ BundleNext /\ UNCHANGED <<contractvars, sealvars>>
    \/ opsCase = "contract" /\ (PrepareAndCheck \/ WorldOfContract) /\ UNCHANGED sealvars
    \/ opsCase = "seal" /\ SealAndUnseal
    \/ opsCase = "seal" /\ WorldOfContract /\ UNCHANGED sealvars
    \/ opsCase # "bundle" /\ (FailCommand \/ EndCommand)
opsvars == <<bundlevars, contractvars, sealvars>>
OpsSpec == OpsInit /\ [][OpsNext]_opsvars
-------------------------------------------------------------------------------
(* Properties *)

OpsTypeOK ==
    /\ BundleTypeOK
    /\ kr.mine \in BOOLEAN /\ sr.mine \in BOOLEAN
    /\ \A i \in Inputs : inputs[i] \in {0, 1, Broken}

\* A seal that was made, or verified, while nothing changed is true of every input,
\* and each of them is one its own command accepts: its bundle lies there as it was
\* verified, and so does the bundle its contract is over, be it another one.
SealHonest ==
    rd.pc = "sgood" /\ rd.quiet /\ seal.there =>
        LET d == seal.doc
        IN  /\ d.ledger = inputs["operations_ledger"] /\ d.host = inputs["host_probe"]
            /\ d.acceptance = inputs["acceptance_report"] /\ d.soak = inputs["soak"]
            /\ d.evidence = evidence /\ \A i \in Inputs : Sound(inputs[i])
            /\ d.man = Own.man /\ d.db = Own.db /\ d.cfg = Own.cfg
            /\ ContractMatches(d.contract)

\* What the tools of the operations say of the files they made or read is true.
OperationsHonest == RestoreHonest /\ ContractHonest /\ SealHonest
===============================================================================
