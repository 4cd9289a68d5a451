------------------------------ MODULE L1History ------------------------------
(***************************************************************************)
(* L1Stage with two history variables, for what the comments of monitor.py *)
(* promise of time: a dwell counts no gap nobody watched, and a stuck      *)
(* detector is noticed however much is submitted meanwhile.                *)
(***************************************************************************)
EXTENDS L1Stage

VARIABLES
    earned,         \* dwell gathered between continuous ok observations
    stuck           \* since when the camera has had unfinished material during
                    \* the inference in progress

histVars == <<vars, earned, stuck>>

HistInit ==
    /\ StageInit
    /\ earned = All(0)
    /\ stuck = All(None)

Observed(c) == pc[c] = "consume" /\ pc'[c] = "read"

EarnedNow(c) ==
    IF enter[c] = None \/ enter'[c] = None THEN 0
    ELSE IF Observed(c) /\ Continuous(c, answered'[c])
         THEN earned[c] + (answered'[c] - answered[c])
         ELSE earned[c]

StuckNow(c) ==
    IF worker' # "busy" \/ Unfinished(c)' = {} THEN None
    ELSE IF stuck[c] = None THEN clock ELSE stuck[c]

HistNext ==
    /\ StageNext
    /\ earned' = [c \in Followed |-> EarnedNow(c)]
    /\ stuck' = [c \in Followed |-> StuckNow(c)]

HistSpec == HistInit /\ [][HistNext]_histVars

\* An object in its zone at the last observation has dwelt there no longer than
\* was watched: "unknown gaps are not made up for" (monitor.py:311-312 and 374-379).
DwellEarned ==
    \A c \in Followed :
        enter[c] # None /\ seenAt[c] = answered[c]
            => answered[c] - enter[c] <= earned[c]

\* A frame without observation lets go of the track when the detector has been
\* stuck on older material of the camera for too long: "the age of a stuck task
\* goes on growing, no new submission resets it" (monitor.py:413-414).
LostNoticed ==
    [][\A c \in Followed :
          /\ pc[c] = "watch" /\ pc'[c] = "read"
          /\ seenAt[c] # None
          /\ clock - answered[c] > Lost
          /\ stuck[c] # None /\ clock - stuck[c] > Wait
          => seenAt'[c] = None]_histVars
===============================================================================
