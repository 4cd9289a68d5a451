----------------------------- MODULE EventLedger -----------------------------
(***************************************************************************)
(* What the tables event_facts, event_descriptions and event_notifications *)
(* promise their readers, the workbench and the semantic updater, whoever  *)
(* writes them and however the writers fail.                               *)
(***************************************************************************)
EXTENDS Naturals, Sequences

CONSTANTS
    Keys,           \* the event ids
    Times           \* the clock

VARIABLES
    state,          \* none, open or closed
    tLast, tEnd,    \* the last observation; the end, once closed
    desc,           \* the versions of the description, by source
    notif           \* the initial_fact notification

vars == <<state, tLast, tEnd, desc, notif>>

Init ==
    /\ state = [k \in Keys |-> "none"]
    /\ tLast = [k \in Keys |-> 0]
    /\ tEnd = [k \in Keys |-> 0]
    /\ desc = [k \in Keys |-> <<>>]
    /\ notif = [k \in Keys |-> "none"]

\* an event is stored, once
Open(k, t) ==
    /\ state[k] = "none"
    /\ state' = [state EXCEPT ![k] = "open"]
    /\ tLast' = [tLast EXCEPT ![k] = t]
    /\ UNCHANGED <<tEnd, desc, notif>>

\* an open event is seen again, never earlier than before
Advance(k, t) ==
    /\ state[k] = "open"
    /\ t >= tLast[k]
    /\ tLast' = [tLast EXCEPT ![k] = t]
    /\ UNCHANGED <<state, tEnd, desc, notif>>

\* open events end at their last observation, and for good
Close(S) ==
    /\ \A k \in S : state[k] = "open"
    /\ state' = [k \in Keys |-> IF k \in S THEN "closed" ELSE state[k]]
    /\ tEnd' = [k \in Keys |-> IF k \in S THEN tLast[k] ELSE tEnd[k]]
    /\ UNCHANGED <<tLast, desc, notif>>

\* a description is added after the others
Describe(k, source) ==
    /\ state[k] # "none"
    /\ desc' = [desc EXCEPT ![k] = Append(@, source)]
    /\ UNCHANGED <<state, tLast, tEnd, notif>>

\* the one initial notification
Notify(k) ==
    /\ state[k] # "none" /\ notif[k] = "none"
    /\ notif' = [notif EXCEPT ![k] = "generated"]
    /\ UNCHANGED <<state, tLast, tEnd, desc>>

\* its receipts
Receipt(k, to) ==
    /\ \/ notif[k] = "generated"
       \/ notif[k] = "available" /\ to = "acknowledged"
    /\ notif' = [notif EXCEPT ![k] = to]
    /\ UNCHANGED <<state, tLast, tEnd, desc>>

Next ==
    \/ \E S \in SUBSET Keys : Close(S)
    \/ \E k \in Keys :
         \/ \E t \in Times : Open(k, t) \/ Advance(k, t)
         \/ \E source \in {"initial_observation", "vlm"} : Describe(k, source)
         \/ Notify(k)
         \/ \E to \in {"available", "acknowledged"} : Receipt(k, to)

Spec == Init /\ [][Next]_vars
=============================================================================
