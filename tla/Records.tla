-------------------------------- MODULE Records --------------------------------
(***************************************************************************)
(* What the program keeps of a camera: what was understood of it, the best *)
(* frames of its events, the versions of its baseline, its reviews and     *)
(* alarms, its segments and clips. Different threads keep them, each part  *)
(* has tables or files of its own, and none reads what another writes but  *)
(* the clips, for which reviews are closed already: so each moves as its   *)
(* own module says, at its own pace, and one step may be of several.       *)
(***************************************************************************)
EXTENDS UnderstandingStore, BestFrames, EnvironmentBaseline, ReviewTruth, Recording

RecordsSpec == UnderstandingSpec /\ FramesSpec /\ BaselineSpec /\ ReviewSpec /\ RecordingSpec
-------------------------------------------------------------------------------
\* What is stored stays what it was said to be: what was understood, the best frame of
\* an event, the versions of a baseline, the reviews, alarms, segments and clips of a camera.
RecordsKept ==
    /\ UnderstandingKept /\ FramesHonest /\ BaselinesHonest
    /\ ReviewsHonest /\ RecordingsHonest
================================================================================
