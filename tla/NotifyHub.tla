------------------------------- MODULE NotifyHub -------------------------------
(***************************************************************************)
(* Alarms to the outside (notify.py): one thread reads the semantic events *)
(* that begin after its cursor, less a window for what arrives late or was *)
(* sent before a restart, and gives each to every outlet. The cursor and   *)
(* the count of failures of an event are rows of the table meta. The first *)
(* event that fails ends the round, unless it has failed too often.        *)
(*                                                                         *)
(* An alarm waits for the row of its review before it is stored, as long   *)
(* as that takes, and keeps the time it began: alarms of one camera may be *)
(* stored behind a cursor that the alarms of another have moved.           *)
(*                                                                         *)
(* Times are small numbers. A database call may fail: the round ends, and  *)
(* what it had written stays in the open transaction of its connection.    *)
(***************************************************************************)
EXTENDS Integers, Sequences, FiniteSets, SequencesExt

CONSTANTS
    Alarms,         \* semantic events
    Outlets,        \* those that are configured: MQTT, webhook
    ResendWindow,   \* RESEND_WINDOW_S
    RoundLimit,     \* LIMIT of the query of a round
    MaxTries,       \* MAX_DELIVERY_ATTEMPTS
    MaxClock,       \* bound: time
    MaxHubFaults    \* bound: restarts and database calls that fail

ASSUME HubAssumption ==
    /\ IsFiniteSet(Alarms) /\ IsFiniteSet(Outlets) /\ MaxTries \in Nat
    /\ ResendWindow \in Nat \ {0} /\ RoundLimit \in Nat \ {0} /\ MaxClock \in Nat \ {0}
    /\ MaxHubFaults \in Nat

VARIABLES
    clock,          \* time
    startOf,        \* t_start of each event that is stored, 0 before
    view,           \* meta as the hub's connection sees it: cursor, fails of each event
    durable,        \* meta as committed
    round,          \* pc; batch, what is left to send; decided, undecided: t_start
    received,       \* of each outlet, what it accepted
    outrun,         \* events stored after one that began a window later, or more
    hubFaults       \* bound: so far

hubvars == <<clock, startOf, view, durable, round, received, outrun, hubFaults>>

Waiting == [pc |-> "wait", batch |-> <<>>, decided |-> 0, undecided |-> 0]
NoMeta == [cursor |-> 0, fails |-> [e \in Alarms |-> 0]]
HubInit ==
    /\ clock = 1 /\ startOf = [e \in Alarms |-> 0]
    /\ view = NoMeta /\ durable = NoMeta /\ round = Waiting
    /\ received = [o \in Outlets |-> {}] /\ outrun = {} /\ hubFaults = 0
-------------------------------------------------------------------------------
\* MUTANT of Since: only what begins after the cursor.
MutantSince == view.cursor
Since == IF view.cursor > ResendWindow THEN view.cursor - ResendWindow ELSE 0

\* SELECT ... WHERE t_start > since AND t_start <= now ORDER BY t_start LIMIT n: in any
\* order among those that begin together.
Due == {e \in Alarms : startOf[e] # 0 /\ startOf[e] > Since /\ startOf[e] <= clock}
Batches ==
    LET n == IF Cardinality(Due) < RoundLimit THEN Cardinality(Due) ELSE RoundLimit
    IN  {s \in [1..n -> Due] :
            /\ \A i, j \in 1..n : i < j => s[i] # s[j] /\ startOf[s[i]] <= startOf[s[j]]
            /\ \A e \in Due \ ToSet(s), i \in 1..n : startOf[s[i]] <= startOf[e]}
BeginRound ==
    /\ round.pc = "wait" /\ Due # {}
    /\ \E batch \in Batches : round' = [Waiting EXCEPT !.pc = "send", !.batch = batch]
    /\ UNCHANGED <<clock, startOf, view, durable, received, outrun, hubFaults>>

\* The next event: given up, or given to each outlet; accepted is where it arrived.
SendNext(accepted) ==
    /\ round.pc = "send" /\ round.batch # <<>>
    /\ LET e == Head(round.batch)
           settled == [round EXCEPT !.batch = Tail(@), !.decided = startOf[e]]
       IN  IF view.fails[e] >= MaxTries
           THEN accepted = {} /\ round' = settled /\ UNCHANGED <<view, received>>
           ELSE /\ received' = [o \in Outlets |-> IF o \in accepted THEN received[o] \cup {e}
                                                 ELSE received[o]]
                /\ IF accepted = Outlets
                   THEN round' = settled /\ view' = [view EXCEPT !.fails[e] = 0]
                   ELSE /\ round' = [round EXCEPT !.batch = <<>>, !.undecided = startOf[e]]
                        /\ view' = [view EXCEPT !.fails[e] = @ + 1]
    /\ UNCHANGED <<clock, startOf, durable, outrun, hubFaults>>
CommitTries ==
    /\ round.pc = "send" /\ round.batch = <<>>
    /\ round' = [round EXCEPT !.pc = "cursor"] /\ durable' = view
    /\ UNCHANGED <<clock, startOf, view, received, outrun, hubFaults>>
\* The last that is decided, or just before the first that is not; never backwards.
Target == IF round.undecided # 0 THEN round.undecided - 1 ELSE round.decided
AdvanceCursor ==
    /\ round.pc = "cursor" /\ round' = Waiting
    /\ view' = IF view.cursor = 0 \/ Target > view.cursor
               THEN [view EXCEPT !.cursor = Target] ELSE view
    /\ durable' = view'
    /\ UNCHANGED <<clock, startOf, received, outrun, hubFaults>>

HubFault == hubFaults < MaxHubFaults /\ hubFaults' = hubFaults + 1
RoundFails ==
    /\ round.pc # "wait" /\ HubFault /\ round' = Waiting
    /\ UNCHANGED <<clock, startOf, view, durable, received, outrun>>
\* The process is restarted: the transaction that was open is gone.
HubRestarts ==
    /\ HubFault /\ round' = Waiting /\ view' = durable
    /\ UNCHANGED <<clock, startOf, durable, received, outrun>>
-------------------------------------------------------------------------------
Tick ==
    /\ clock < MaxClock /\ clock' = clock + 1
    /\ UNCHANGED <<startOf, view, durable, round, received, outrun, hubFaults>>
\* A camera thread stores an event, at once or when its review has a row at last.
Outruns(t) == \E f \in Alarms : startOf[f] >= t + ResendWindow
StoreAlarm(e, t) ==
    /\ startOf[e] = 0 /\ t \in 1..clock
    /\ outrun' = IF Outruns(t) THEN outrun \cup {e} ELSE outrun
    /\ startOf' = [startOf EXCEPT ![e] = t]
    /\ UNCHANGED <<clock, view, durable, round, received, hubFaults>>

HubNext ==
    \/ BeginRound \/ CommitTries \/ AdvanceCursor \/ RoundFails \/ HubRestarts \/ Tick
    \/ \E accepted \in SUBSET Outlets : SendNext(accepted)
    \/ \E e \in Alarms, t \in 1..MaxClock : StoreAlarm(e, t)
HubSpec == HubInit /\ [][HubNext]_hubvars
-------------------------------------------------------------------------------
Metas == [cursor : 0..MaxClock, fails : [Alarms -> 0..MaxTries]]
HubTypeOK ==
    /\ clock \in 1..MaxClock /\ startOf \in [Alarms -> 0..MaxClock]
    /\ view \in Metas /\ durable \in Metas
    /\ round.pc \in {"wait", "send", "cursor"} /\ round.batch \in Seq(Alarms)
    /\ received \in [Outlets -> SUBSET Alarms] /\ outrun \subseteq Alarms

\* An event that no round will read again has arrived at every outlet, or was given up
\* after it had failed as often as it may, or was stored after one that began a whole
\* window later: nothing else is lost, whatever fails, is late or is restarted.
HubHonest ==
    \A e \in Alarms \ outrun : startOf[e] # 0 /\ startOf[e] <= Since =>
        (\A o \in Outlets : e \in received[o]) \/ view.fails[e] >= MaxTries
================================================================================
