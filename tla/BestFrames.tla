------------------------------ MODULE BestFrames ------------------------------
(***************************************************************************)
(* The best frame of an object (evidence.py, sinks.py, server.py). The     *)
(* camera thread writes the file of a better frame, then moves to it, in   *)
(* one transaction, the row of the object and the rows of the events that  *)
(* are still open, then removes the old file if no row names it. When the  *)
(* database refuses, it removes the new file and leaves the transaction    *)
(* open: what was written of it is committed with the next write, or not   *)
(* at all. An event that ends keeps the frame it had. A thread of the      *)
(* server reads a row, then its file, and writes into the row what it      *)
(* found.                                                                  *)
(*                                                                         *)
(* A frame is its score, and stands for its file: the name of a file is    *)
(* made of the time and the digest. Bytes are good or bad.                 *)
(***************************************************************************)
EXTENDS Integers, FiniteSets

CONSTANTS
    Frames,         \* frames of the object, 1.. : a higher one is better
    Happenings,     \* semantic events of the object
    MaxFrameFaults  \* bound: crashes, failed calls, files harmed from outside

ASSUME FramesAssumption ==
    /\ Frames \subseteq Nat \ {0} /\ IsFiniteSet(Frames)
    /\ IsFiniteSet(Happenings) /\ MaxFrameFaults \in Nat
    /\ Happenings \cap {"object", "idle", "index", "sweep"} = {}

VARIABLES
    disk,           \* file of each frame: none, good, bad
    assets,         \* evidence_assets: row of the object and of each event
    happened,       \* semantic_events: none, open, closed
    endedAt,        \* history: the frame of an event when it ended
    over,           \* the object is gone: no more frames of it
    cam,            \* the camera thread: pc, frame or event at hand, old frame
    reader,         \* a thread of the server: pc, row, path and verdict
    harmed,         \* history: files lost or damaged from outside
    left,           \* history: files left behind
    unlinked,       \* history: events that came while their object's frame was not available,
                    \* or were left at the frame before the object's
    withdrawn,         \* history: files removed although the rows that name them were committed
    frameFaults     \* bound: so far

framevars == <<disk, assets, happened, endedAt, over, cam, reader, harmed, left, unlinked,
               withdrawn, frameFaults>>

Owners == {"object"} \cup Happenings
\* A row of the index: path is 0 without a row; judged is the file its state speaks of.
NoAsset == [path |-> 0, state |-> "available", judged |-> 0]
CamIdle == [pc |-> "idle", at |-> 0, old |-> 0]
NoReader == [pc |-> "idle", owner |-> "object", path |-> 0, verdict |-> "available"]
FramesInit ==
    /\ disk = [f \in Frames |-> "none"] /\ assets = [o \in Owners |-> NoAsset]
    /\ happened = [e \in Happenings |-> "none"] /\ endedAt = [e \in Happenings |-> 0]
    /\ over = FALSE /\ cam = CamIdle /\ reader = NoReader
    /\ harmed = {} /\ left = {} /\ unlinked = {} /\ withdrawn = {} /\ frameFaults = 0

FrameFault == frameFaults < MaxFrameFaults /\ frameFaults' = frameFaults + 1
-------------------------------------------------------------------------------
(* save_best_frame *)

BestPath == assets["object"].path
\* Only a better frame than that of the row; its file is written aside and renamed.
WriteFrame(f) ==
    /\ cam.pc = "idle" /\ ~over /\ f > BestPath /\ disk[f] = "none" /\ f \notin harmed
    /\ disk' = [disk EXCEPT ![f] = "good"] /\ cam' = [pc |-> "index", at |-> f, old |-> BestPath]
    /\ UNCHANGED <<assets, happened, endedAt, over, reader, harmed, left, unlinked, withdrawn,
                   frameFaults>>
Follows(o) ==
    o = "object" \/ (o \in Happenings /\ happened[o] = "open" /\ cam.old # 0
                     /\ assets[o].path = cam.old)
\* The index once the rows S have moved to the new frame; that of the object is made anew.
Moved(S) ==
    [o \in Owners |-> IF o \notin S THEN assets[o]
                     ELSE IF o = "object" THEN [NoAsset EXCEPT !.path = cam.at]
                     ELSE [assets[o] EXCEPT !.path = cam.at]]
IndexFrame ==
    /\ cam.pc = "index" /\ cam' = IF cam.old = 0 THEN CamIdle ELSE [cam EXCEPT !.pc = "sweep"]
    /\ assets' = Moved({o \in Owners : Follows(o)})
    /\ UNCHANGED <<disk, happened, endedAt, over, reader, harmed, left, unlinked, withdrawn,
                   frameFaults>>
\* The database refuses one of the statements, or the commit: the new file is removed. The
\* rows written so far are not taken back: the next commit of the connection makes them
\* count, unless the transaction is lost. It is told here at once, nobody else having seen it.
IndexFails ==
    /\ cam.pc = "index" /\ FrameFault /\ cam' = CamIdle
    /\ disk' = [disk EXCEPT ![cam.at] = "none"]
    /\ \E S \in {{}, {"object"}, {o \in Owners : Follows(o)}} :
          /\ assets' = Moved(S)
          /\ IF S = {} THEN UNCHANGED <<withdrawn, left, unlinked>>
             ELSE /\ withdrawn' = withdrawn \cup {cam.at} /\ left' = left \cup ({cam.old} \ {0})
                  /\ unlinked' = unlinked \cup {e \in Happenings \ S : Follows(e)}
    /\ UNCHANGED <<happened, endedAt, over, reader, harmed>>
\* MUTANT of Referenced: the frames of objects only.
MutantReferenced(f) == BestPath = f
Referenced(f) == \E o \in Owners : assets[o].path = f
SweepOld ==
    /\ cam.pc = "sweep" /\ cam' = CamIdle
    /\ disk' = IF Referenced(cam.old) THEN disk ELSE [disk EXCEPT ![cam.old] = "none"]
    /\ UNCHANGED <<assets, happened, endedAt, over, reader, harmed, left, unlinked, withdrawn,
                   frameFaults>>
SweepFails ==
    /\ cam.pc = "sweep" /\ FrameFault /\ cam' = CamIdle /\ left' = left \cup {cam.old}
    /\ UNCHANGED <<disk, assets, happened, endedAt, over, reader, harmed, unlinked, withdrawn>>
-------------------------------------------------------------------------------
(* write_semantic_event, close_semantic_event *)

\* The event's row is written and committed first, if the object's frame is available.
LinkFrame(e) ==
    /\ cam.pc = "idle" /\ happened[e] = "none" /\ cam' = [CamIdle EXCEPT !.pc = e]
    /\ IF BestPath # 0 /\ assets["object"].state = "available"
       THEN /\ assets' = [assets EXCEPT ![e] = [NoAsset EXCEPT !.path = BestPath]]
            \* Linked before, to a frame that is not the best any more: nobody removes its file.
            /\ left' = left \cup ({assets[e].path} \ {0, BestPath})
            /\ unlinked' = unlinked \ {e}
       ELSE UNCHANGED <<assets, left>> /\ unlinked' = unlinked \cup {e}
    /\ UNCHANGED <<disk, happened, endedAt, over, reader, harmed, withdrawn, frameFaults>>
\* The event itself: refused while its review is not stored, and tried again later.
OpenHappening(e, stored) ==
    /\ cam.pc = e /\ cam' = CamIdle
    /\ happened' = [happened EXCEPT ![e] = IF stored THEN "open" ELSE @]
    /\ UNCHANGED <<disk, assets, endedAt, over, reader, harmed, left, unlinked, withdrawn,
                   frameFaults>>
EndHappening(e) ==
    /\ cam.pc = "idle" /\ happened[e] = "open"
    /\ happened' = [happened EXCEPT ![e] = "closed"]
    /\ endedAt' = [endedAt EXCEPT ![e] = assets[e].path]
    /\ UNCHANGED <<disk, assets, over, cam, reader, harmed, left, unlinked, withdrawn, frameFaults>>
ObjectGone ==
    /\ cam.pc = "idle" /\ ~over /\ over' = TRUE
    /\ UNCHANGED <<disk, assets, happened, endedAt, cam, reader, harmed, left, unlinked,
                   withdrawn, frameFaults>>
\* The process ends at any point: what was not committed or removed stays as it is.
CameraCrash ==
    /\ cam.pc # "idle" /\ FrameFault /\ cam' = CamIdle /\ over' = TRUE /\ reader' = NoReader
    /\ left' = left \cup ({IF cam.pc = "index" THEN cam.at ELSE cam.old} \ {0})
    /\ UNCHANGED <<disk, assets, happened, endedAt, harmed, unlinked, withdrawn>>
-------------------------------------------------------------------------------
(* read_evidence *)

ReadRow(o) ==
    /\ reader.pc = "idle" /\ assets[o].path # 0
    /\ reader' = [NoReader EXCEPT !.pc = "open", !.owner = o, !.path = assets[o].path]
    /\ UNCHANGED <<disk, assets, happened, endedAt, over, cam, harmed, left, unlinked, withdrawn,
                   frameFaults>>
ReadBytes ==
    /\ reader.pc = "open"
    /\ reader' = [reader EXCEPT !.pc = "mark", !.verdict =
                     CASE disk[reader.path] = "good" -> "available"
                       [] disk[reader.path] = "none" -> "missing"
                       [] OTHER -> "corrupt"]
    /\ UNCHANGED <<disk, assets, happened, endedAt, over, cam, harmed, left, unlinked, withdrawn,
                   frameFaults>>
\* The row is found by its identity, whatever file it names by now.
MarkRow ==
    /\ reader.pc = "mark" /\ reader' = NoReader
    /\ assets' = [assets EXCEPT ![reader.owner] = [@ EXCEPT !.state = reader.verdict,
                                                            !.judged = reader.path]]
    /\ UNCHANGED <<disk, happened, endedAt, over, cam, harmed, left, unlinked, withdrawn,
                   frameFaults>>

HarmFile(f, how) ==
    /\ disk[f] = "good" /\ FrameFault /\ disk' = [disk EXCEPT ![f] = how]
    /\ harmed' = harmed \cup {f}
    /\ UNCHANGED <<assets, happened, endedAt, over, cam, reader, left, unlinked, withdrawn>>

FramesNext ==
    \/ IndexFrame \/ IndexFails \/ SweepOld \/ SweepFails \/ ObjectGone \/ CameraCrash
    \/ ReadBytes \/ MarkRow
    \/ \E f \in Frames : WriteFrame(f) \/ \E how \in {"none", "bad"} : HarmFile(f, how)
    \/ \E e \in Happenings : LinkFrame(e) \/ EndHappening(e)
                             \/ \E stored \in BOOLEAN : OpenHappening(e, stored)
    \/ \E o \in Owners : ReadRow(o)
FramesSpec == FramesInit /\ [][FramesNext]_framevars
-------------------------------------------------------------------------------
FramesTypeOK ==
    /\ disk \in [Frames -> {"none", "good", "bad"}] /\ harmed \subseteq Frames /\ left \subseteq Frames
    /\ withdrawn \subseteq Frames
    /\ assets \in [Owners -> [path : Frames \cup {0}, judged : Frames \cup {0},
                              state : {"available", "missing", "corrupt"}]]
    /\ happened \in [Happenings -> {"none", "open", "closed"}]

\* A file that was harmed, or removed by a failed transaction whose rows came to count.
Vanished(f) == f \in harmed \/ f \in withdrawn
\* What a row names is on the disk as it was written, or gone in one of these ways; an event
\* that ended keeps its frame.
FrameKept ==
    /\ \A o \in Owners :
          assets[o].path # 0 => disk[assets[o].path] = "good" \/ Vanished(assets[o].path)
    /\ \A e \in Happenings : happened[e] = "closed" => assets[e].path = endedAt[e]
\* An event that is open and was given the frame of its object goes on having it, unless the
\* object's row was committed without that of the event.
FrameFollows ==
    \A e \in Happenings : happened[e] = "open" /\ assets[e].path # BestPath =>
        assets[e].path = 0 \/ e \in unlinked
\* A row says of a file what was found there: unless the frame was replaced meanwhile.
VerdictHonest ==
    \A o \in Owners : assets[o].state # "available" /\ assets[o].judged = assets[o].path =>
        Vanished(assets[o].path)
\* A file no row names is being stored or removed, or was left: by a crash, by a failure,
\* by an event that was refused and given a newer frame.
NoLitter ==
    \A f \in Frames : disk[f] # "none" /\ ~Referenced(f) =>
        f \in left \/ (cam.pc = "index" /\ f = cam.at) \/ (cam.pc = "sweep" /\ f = cam.old)
FramesHonest == FrameKept /\ FrameFollows /\ VerdictHonest /\ NoLitter
===============================================================================
