----------------------------- MODULE MCL1History -----------------------------
EXTENDS L1History
MCMaxFrame == [c \in Cams |-> IF c \in Followed THEN 4 ELSE 1]
===============================================================================
