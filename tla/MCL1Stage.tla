------------------------------ MODULE MCL1Stage ------------------------------
(***************************************************************************)
(* The instances of L1Stage that TLC checks: camera 1 alone with its       *)
(* Monitor, and cameras 2 and 3 sharing the worker.                        *)
(***************************************************************************)
EXTENDS L1Stage

\* Two materials decide between all orders of two results; three fill and
\* overfill the places of one camera.
MCMaxFrame == [c \in Cams |-> CASE c = 1 -> 2 [] c = 2 -> 3 [] c = 3 -> 1]
===============================================================================
