------------------------------ MODULE MCL2Runtime ------------------------------
(***************************************************************************)
(* Three instances of L2Runtime: both cameras with a window of two          *)
(* branches and of one; an identity that changes; and a camera that waits   *)
(* with three materials while its window is held beyond its time.          *)
(***************************************************************************)
EXTENDS L2Runtime
CONSTANTS p, q

MCBounds == {[pkg |-> <<1, 1>>, changes |-> <<0, 0>>, cut |-> <<{p, q}, {p}>>, hold |-> FALSE],
             [pkg |-> <<1, 1>>, changes |-> <<1, 0>>, cut |-> <<{p}, {p}>>, hold |-> FALSE],
             [pkg |-> <<3, 1>>, changes |-> <<0, 0>>, cut |-> <<{}, {p}>>, hold |-> TRUE]}
================================================================================
