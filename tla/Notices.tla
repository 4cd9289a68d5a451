-------------------------------- MODULE Notices --------------------------------
(***************************************************************************)
(* What leaves the process by itself: the notification hub and the         *)
(* semantic updater, two threads nvr.main starts if configured. They share *)
(* the database and neither reads what the other writes: a step of one     *)
(* leaves the other as it is.                                              *)
(***************************************************************************)
EXTENDS NotifyHub, SemanticUpdater

NoticesInit == HubInit /\ UpdaterInit
NoticesNext ==
    \/ HubNext /\ UNCHANGED updatervars
    \/ UpdaterNext /\ UNCHANGED hubvars
NoticesSpec == NoticesInit /\ [][NoticesNext]_<<hubvars, updatervars>>
-------------------------------------------------------------------------------
\* What leaves the process by itself is honest: an alarm that is not read again has
\* arrived or was given up, a description is made once and is of what was shown.
NoticesHonest == HubHonest /\ UpdatesHonest
================================================================================
