-------------------------------- MODULE MCParts --------------------------------
(***************************************************************************)
(* The parts of the program that work beside one another and share no      *)
(* state, on one instance each: a behaviour is a behaviour of one of them, *)
(* the subject, chosen at the start.                                       *)
(***************************************************************************)
EXTENDS Harvest, MaterialPool, Admission, L3Model, CropWorker, EventProgress,
        WindowFusion, OpsEvidence, DesktopSession, Notices, Records, Budgets

VARIABLE subject

\* Packages of two materials; the first two show the same frames, the third one more.
MCMaterialOf == <<"m", "m", "n">>
MCBuffersOf == <<{"f", "g"}, {"f", "g"}, {"g", "h"}>>

\* Frames near one another, one of another configuration, and one of another camera.
MCCaptures == {[cam |-> 1, era |-> 1, shot |-> 1], [cam |-> 1, era |-> 1, shot |-> 2],
               [cam |-> 1, era |-> 2, shot |-> 2], [cam |-> 2, era |-> 1, shot |-> 1]}

\* Two files stand for the tree of the code and two for the streams of a run.
MCTreeFiles == <<"pyproject.toml", "scam">>
MCEvidenceFiles == <<"out", "err">>

\* A short review while the first segments are written, a longer one across midnight.
MCReviews == {[start |-> 2, end |-> 2], [start |-> 3, end |-> 5]}

PartsInit ==
    /\ HInit /\ PoolInit /\ AInit /\ MInit
    /\ BInit /\ CropInit /\ ProgressInit /\ FusionInit
    /\ UnderstandingInit /\ OpsInit /\ SessionInit /\ HubInit
    /\ UpdaterInit /\ FramesInit /\ BaselineInit /\ ReviewInit
    /\ RecordingInit /\ MatInit
    /\ subject \in {"harvest", "pool", "admission", "l3model", "budget", "crops",
                    "progress", "fusion", "store", "operations", "desktop", "hub",
                    "updater", "frames", "baseline", "reviews", "recording",
                    "materials"}
    \* Where a part begins in several cases, all but the first are for its own runs.
    /\ subject # "operations" => opsCase = "bundle"

PartsNext ==
    \/ /\ subject = "harvest" /\ HNext
       /\ UNCHANGED <<pvars, avars, mvars, bvars, cropvars, eprogvars, fusionvars,
                       storevars, opsvars, sessionvars, hubvars, updatervars,
                       framevars, baselinevars, reviewvars, recvars, matvars,
                       subject>>
    \/ /\ subject = "pool" /\ PoolNext
       /\ UNCHANGED <<hvars, avars, mvars, bvars, cropvars, eprogvars, fusionvars,
                       storevars, opsvars, sessionvars, hubvars, updatervars,
                       framevars, baselinevars, reviewvars, recvars, matvars,
                       subject>>
    \/ /\ subject = "admission" /\ ANext
       /\ UNCHANGED <<hvars, pvars, mvars, bvars, cropvars, eprogvars, fusionvars,
                       storevars, opsvars, sessionvars, hubvars, updatervars,
                       framevars, baselinevars, reviewvars, recvars, matvars,
                       subject>>
    \/ /\ subject = "l3model" /\ MNext
       /\ UNCHANGED <<hvars, pvars, avars, bvars, cropvars, eprogvars, fusionvars,
                       storevars, opsvars, sessionvars, hubvars, updatervars,
                       framevars, baselinevars, reviewvars, recvars, matvars,
                       subject>>
    \/ /\ subject = "budget" /\ BNext
       /\ UNCHANGED <<hvars, pvars, avars, mvars, cropvars, eprogvars, fusionvars,
                       storevars, opsvars, sessionvars, hubvars, updatervars,
                       framevars, baselinevars, reviewvars, recvars, matvars,
                       subject>>
    \/ /\ subject = "crops" /\ CropNext
       /\ UNCHANGED <<hvars, pvars, avars, mvars, bvars, eprogvars, fusionvars,
                       storevars, opsvars, sessionvars, hubvars, updatervars,
                       framevars, baselinevars, reviewvars, recvars, matvars,
                       subject>>
    \/ /\ subject = "progress" /\ ProgressNext
       /\ UNCHANGED <<hvars, pvars, avars, mvars, bvars, cropvars, fusionvars,
                       storevars, opsvars, sessionvars, hubvars, updatervars,
                       framevars, baselinevars, reviewvars, recvars, matvars,
                       subject>>
    \/ /\ subject = "fusion" /\ FusionNext
       /\ UNCHANGED <<hvars, pvars, avars, mvars, bvars, cropvars, eprogvars,
                       storevars, opsvars, sessionvars, hubvars, updatervars,
                       framevars, baselinevars, reviewvars, recvars, matvars,
                       subject>>
    \/ /\ subject = "store" /\ UnderstandingNext
       /\ UNCHANGED <<hvars, pvars, avars, mvars, bvars, cropvars, eprogvars,
                       fusionvars, opsvars, sessionvars, hubvars, updatervars,
                       framevars, baselinevars, reviewvars, recvars, matvars,
                       subject>>
    \/ /\ subject = "operations" /\ OpsNext
       /\ UNCHANGED <<hvars, pvars, avars, mvars, bvars, cropvars, eprogvars,
                       fusionvars, storevars, sessionvars, hubvars, updatervars,
                       framevars, baselinevars, reviewvars, recvars, matvars,
                       subject>>
    \/ /\ subject = "desktop" /\ SessionNext
       /\ UNCHANGED <<hvars, pvars, avars, mvars, bvars, cropvars, eprogvars,
                       fusionvars, storevars, opsvars, hubvars, updatervars,
                       framevars, baselinevars, reviewvars, recvars, matvars,
                       subject>>
    \/ /\ subject = "hub" /\ HubNext
       /\ UNCHANGED <<hvars, pvars, avars, mvars, bvars, cropvars, eprogvars,
                       fusionvars, storevars, opsvars, sessionvars, updatervars,
                       framevars, baselinevars, reviewvars, recvars, matvars,
                       subject>>
    \/ /\ subject = "updater" /\ UpdaterNext
       /\ UNCHANGED <<hvars, pvars, avars, mvars, bvars, cropvars, eprogvars,
                       fusionvars, storevars, opsvars, sessionvars, hubvars,
                       framevars, baselinevars, reviewvars, recvars, matvars,
                       subject>>
    \/ /\ subject = "frames" /\ FramesNext
       /\ UNCHANGED <<hvars, pvars, avars, mvars, bvars, cropvars, eprogvars,
                       fusionvars, storevars, opsvars, sessionvars, hubvars,
                       updatervars, baselinevars, reviewvars, recvars, matvars,
                       subject>>
    \/ /\ subject = "baseline" /\ BaselineNext
       /\ UNCHANGED <<hvars, pvars, avars, mvars, bvars, cropvars, eprogvars,
                       fusionvars, storevars, opsvars, sessionvars, hubvars,
                       updatervars, framevars, reviewvars, recvars, matvars,
                       subject>>
    \/ /\ subject = "reviews" /\ ReviewNext
       /\ UNCHANGED <<hvars, pvars, avars, mvars, bvars, cropvars, eprogvars,
                       fusionvars, storevars, opsvars, sessionvars, hubvars,
                       updatervars, framevars, baselinevars, recvars, matvars,
                       subject>>
    \/ /\ subject = "recording" /\ RecordingNext
       /\ UNCHANGED <<hvars, pvars, avars, mvars, bvars, cropvars, eprogvars,
                       fusionvars, storevars, opsvars, sessionvars, hubvars,
                       updatervars, framevars, baselinevars, reviewvars, matvars,
                       subject>>
    \/ /\ subject = "materials" /\ MatNext
       /\ UNCHANGED <<hvars, pvars, avars, mvars, bvars, cropvars, eprogvars,
                       fusionvars, storevars, opsvars, sessionvars, hubvars,
                       updatervars, framevars, baselinevars, reviewvars, recvars,
                       subject>>
partsvars == <<hvars, pvars, avars, mvars, bvars, cropvars, eprogvars, fusionvars,
               storevars, opsvars, sessionvars, hubvars, updatervars, framevars,
               baselinevars, reviewvars, recvars, matvars, subject>>
PartsSpec == PartsInit /\ [][PartsNext]_partsvars

\* What tells the states of the larger parts apart for TLC: what moves in them, the
\* others being as they began. Of the rest, everything.
PartsView ==
    CASE subject = "desktop" -> <<subject, sessionvars>>
      [] subject = "materials" -> <<subject, matvars>>
      [] subject = "progress" -> <<subject, eprogvars>>
      [] subject = "baseline" -> <<subject, baselinevars>>
      [] subject = "reviews" -> <<subject, reviewvars>>
      [] subject = "admission" -> <<subject, avars>>
      [] subject = "l3model" -> <<subject, mvars>>
      [] subject = "budget" -> <<subject, bvars>>
      [] subject = "pool" -> <<subject, pvars>>
      [] subject = "frames" -> <<subject, framevars>>
      [] subject = "updater" -> <<subject, updatervars>>
      [] subject = "hub" -> <<subject, hubvars>>
      [] subject = "recording" -> <<subject, recvars>>
      [] subject = "fusion" -> <<subject, fusionvars>>
      [] OTHER -> partsvars

\* The part that moves holds what its module says it may: the others stay as they began.
PartsTypeOK ==
    CASE subject = "harvest" -> HTypeOK
      [] subject = "pool" -> PoolTypeOK
      [] subject = "admission" -> ATypeOK
      [] subject = "l3model" -> MTypeOK
      [] subject = "budget" -> BTypeOK
      [] subject = "crops" -> CropTypeOK
      [] subject = "progress" -> ProgressTypeOK
      [] subject = "fusion" -> FusionTypeOK
      [] subject = "store" -> UnderstandingTypeOK
      [] subject = "operations" -> OpsTypeOK
      [] subject = "desktop" -> SessionTypeOK
      [] subject = "hub" -> HubTypeOK
      [] subject = "updater" -> UpdaterTypeOK
      [] subject = "frames" -> FramesTypeOK
      [] subject = "baseline" -> BaselineTypeOK
      [] subject = "reviews" -> ReviewTypeOK
      [] subject = "recording" -> RecordingTypeOK
      [] subject = "materials" -> MatTypeOK
================================================================================
