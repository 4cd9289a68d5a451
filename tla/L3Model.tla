-------------------------------- MODULE L3Model --------------------------------
(***************************************************************************)
(* The model of the third layer: L3Stage (win11_l3.py), which lends a slot  *)
(* to each call and keeps it lent when a call timed out but still runs, and *)
(* LocalTransformersL3Backend (win11_l3_backend.py), whose one worker       *)
(* thread loads the model and runs the calls in turn, which cannot abort    *)
(* them, isolates itself for good after a timeout, and can be closed.       *)
(*                                                                         *)
(* Time is abstracted: every wait with a limit may end before its event.    *)
(* The generations of the backend (_load_gen, _delivery_gen) change only    *)
(* where one of the flags poisoned and closing is set, and nothing resets   *)
(* those, so the flags stand for them.                                      *)
(***************************************************************************)
EXTENDS Naturals, Sequences, FiniteSets, SequencesExt

CONSTANTS
    Callers,        \* threads that call process
    ModelSlots,     \* budget.concurrency
    MaxLoads        \* bound: loads of the model

ASSUME L3ModelAssumption ==
    /\ IsFiniteSet(Callers) /\ "none" \notin Callers
    /\ ModelSlots \in Nat \ {0} /\ MaxLoads \in Nat

VARIABLES
    call,           \* where each caller is
    answer,         \* what its last call gave: ok, failed
    job,            \* the future of its call: none, queued, ok, error
    counted,        \* how often the result of that future was counted as discarded
    callback,       \* futures whose done callback has not run yet
    freeSlots, inFlight,    \* _model_slots, _in_flight
    held,           \* _held_executions, known by their callers
    line,           \* the work of the executor, the head running
    shut,           \* the executor takes no more work
    loads,          \* the futures of the loads: queued, ok, dropped, failed
    loadFuture,     \* _load_future, 0 if none
    loaded,         \* _provider_loaded
    listed,         \* _pending (unfinished ones; the code drops the rest)
    latest,         \* _pending_future
    poisoned,       \* _poisoned
    closing,        \* _close_requested
    closer          \* the thread in close()
mvars == <<call, answer, job, counted, callback, freeSlots, inFlight, held, line, shut,
           loads, loadFuture, loaded, listed, latest, poisoned, closing, closer>>
slots == <<freeSlots, inFlight, held>>
backend == <<line, shut, loads, loadFuture, loaded, listed, latest>>

NoCaller == "none"
CallOf(c) == <<"call", c>>
LoadOf(n) == <<"load", n>>
Unfinished(j) == IF j[1] = "call" THEN job[j[2]] = "queued" ELSE loads[j[2]] = "queued"

MInit ==
    /\ call = [c \in Callers |-> "idle"] /\ answer = [c \in Callers |-> "none"]
    /\ job = [c \in Callers |-> "none"] /\ counted = [c \in Callers |-> 0] /\ callback = {}
    /\ freeSlots = ModelSlots /\ inFlight = 0 /\ held = {}
    /\ line = <<>> /\ shut = FALSE
    /\ loads = <<>> /\ loadFuture = 0 /\ loaded = FALSE
    /\ listed = {} /\ latest = NoCaller
    /\ poisoned = FALSE /\ closing = FALSE
    /\ closer = [pc |-> "none", waits |-> {}]
-------------------------------------------------------------------------------
(* L3Stage *)

Goes(c, pc) == call' = [call EXCEPT ![c] = pc]
Answers(c, a) == Goes(c, "idle") /\ answer' = [answer EXCEPT ![c] = a]
\* _release_slot_and_gauge
GivesBack == freeSlots' = freeSlots + 1 /\ inFlight' = inFlight - 1
Fails(c) == Answers(c, "failed") /\ GivesBack /\ UNCHANGED held
Refused == poisoned \/ closing

\* process, first part: a task whose frames are not of its branch or window, that has
\* no frames, or none with pixels, is refused before it costs a slot.
RejectTask(c) ==
    /\ call[c] = "idle" /\ answer[c] = "none"
    /\ answer' = [answer EXCEPT ![c] = "failed"]
    /\ UNCHANGED <<call, job, counted, callback, slots, backend, poisoned, closing, closer>>

\* _acquire_model_slot: a slot, or none because the model refuses work or time is up.
AcquireSlot(c) ==
    /\ call[c] = "idle"
    /\ \/ /\ freeSlots > 0
          /\ freeSlots' = freeSlots - 1 /\ inFlight' = inFlight + 1
          /\ Goes(c, "enter")
          /\ answer' = [answer EXCEPT ![c] = "none"]
       \/ /\ freeSlots = 0
          /\ answer' = [answer EXCEPT ![c] = "failed"]
          /\ UNCHANGED <<call, freeSlots, inFlight>>
    /\ UNCHANGED <<job, counted, callback, held, backend, poisoned, closing, closer>>

\* _probe_execution_finished: what the backend tells is whether the call submitted last
\* still runs, whichever call the slot was lent to.
ProbeFinished == latest # NoCaller => job[latest] # "queued"

\* Mutant: the slot of a call that timed out is given back at once.
MutantHoldSlot(c) ==
    /\ call[c] = "timeout"
    /\ Answers(c, "failed") /\ GivesBack /\ UNCHANGED held
    /\ UNCHANGED <<job, counted, callback, backend, poisoned, closing, closer>>

\* process after a timeout, _hold_execution_resource: the slot stays lent.
HoldSlot(c) ==
    /\ call[c] = "timeout"
    /\ Answers(c, "failed")
    /\ \/ ProbeFinished /\ GivesBack /\ UNCHANGED held
       \/ ~ProbeFinished /\ held' = held \cup {c} /\ UNCHANGED <<freeSlots, inFlight>>
    /\ UNCHANGED <<job, counted, callback, backend, poisoned, closing, closer>>

\* _collect_finished_executions, by whoever asks for a slot or for the resources.
CollectFinished(c) ==
    /\ c \in held /\ ProbeFinished
    /\ held' = held \ {c}
    /\ GivesBack
    /\ UNCHANGED <<call, answer, job, counted, callback, backend, poisoned, closing, closer>>
-------------------------------------------------------------------------------
(* understand_frames of the backend *)

EnterModel(c) ==
    /\ call[c] = "enter"
    /\ IF Refused THEN Fails(c) ELSE Goes(c, "load") /\ UNCHANGED <<answer, slots>>
    /\ UNCHANGED <<job, counted, callback, backend, poisoned, closing, closer>>

\* _ensure_loaded: the model is there; or refused; or something is missing on the disk;
\* or the load under way is joined; or a load is submitted.
EnsureLoaded(c) ==
    /\ call[c] = "load"
    /\ \/ loaded /\ Goes(c, "submit") /\ UNCHANGED <<answer, slots, backend>>
       \/ ~loaded /\ Refused /\ Fails(c) /\ UNCHANGED backend
       \/ ~loaded /\ ~Refused /\ loadFuture = 0 /\ Fails(c) /\ UNCHANGED backend
       \/ ~loaded /\ ~Refused /\ loadFuture # 0 /\ Goes(c, "loading")
            /\ UNCHANGED <<answer, slots, backend>>
       \/ /\ ~loaded /\ ~Refused /\ loadFuture = 0 /\ Len(loads) < MaxLoads
          /\ loads' = Append(loads, "queued") /\ loadFuture' = Len(loads')
          /\ line' = Append(line, LoadOf(loadFuture'))
          /\ listed' = listed \cup {LoadOf(loadFuture')}
          /\ Goes(c, "loading")
          /\ UNCHANGED <<answer, slots, shut, loaded, latest>>
    /\ UNCHANGED <<job, counted, callback, poisoned, closing, closer>>

\* The wait for the load, and what it leads to: a load that ended without a model was
\* discarded or failed; after a failure the next call may load again. The future waited
\* for is the last one: an earlier one that failed has the same effect on its waiter.
LoadEnded(c) ==
    /\ call[c] = "loading"
    /\ \E n \in {k \in DOMAIN loads : loads[k] # "queued"} :
        \/ loads[n] = "ok" /\ Goes(c, "submit") /\ UNCHANGED <<answer, slots, loadFuture>>
        \/ loads[n] = "dropped" /\ Fails(c) /\ UNCHANGED loadFuture
        \/ /\ loads[n] = "failed" /\ Fails(c)
           /\ loadFuture' = IF Refused THEN loadFuture ELSE 0
    /\ UNCHANGED <<job, counted, callback, line, shut, loads, loaded, listed, latest, poisoned,
                   closing, closer>>

\* _isolate_load_timeout; the stage sees a model that is not available and takes the
\* slot back.
LoadTimeout(c) ==
    /\ call[c] = "loading" /\ \E n \in DOMAIN loads : loads[n] = "queued"
    /\ Fails(c)
    /\ poisoned' = (poisoned \/ ~loaded)
    /\ shut' = (shut \/ ~loaded)
    /\ UNCHANGED <<job, counted, callback, line, loads, loadFuture, loaded, listed, latest,
                   closing, closer>>

\* executor.submit, and after it the note of the future.
SubmitCall(c) ==
    /\ call[c] = "submit"
    /\ \/ shut /\ Fails(c) /\ UNCHANGED <<job, counted, line>>
       \/ /\ ~shut /\ job[c] # "queued" /\ c \notin callback
          /\ job' = [job EXCEPT ![c] = "queued"] /\ counted' = [counted EXCEPT ![c] = 0]
          /\ line' = Append(line, CallOf(c))
          /\ Goes(c, "enlist")
          /\ UNCHANGED <<answer, slots>>
    /\ UNCHANGED <<callback, shut, loads, loadFuture, loaded, listed, latest, poisoned, closing,
                   closer>>

EnlistCall(c) ==
    /\ call[c] = "enlist"
    /\ Goes(c, "wait")
    /\ listed' = listed \cup {CallOf(c)}
    /\ latest' = c
    /\ UNCHANGED <<answer, job, counted, callback, slots, line, shut, loads, loadFuture, loaded,
                   poisoned, closing, closer>>

CallEnded(c) ==
    /\ call[c] = "wait" /\ job[c] # "queued"
    /\ IF job[c] = "error" THEN Fails(c) ELSE Goes(c, "deliver") /\ UNCHANGED <<answer, slots>>
    /\ UNCHANGED <<job, counted, callback, backend, poisoned, closing, closer>>

\* The call runs on; the backend is isolated for good.
CallTimeout(c) ==
    /\ call[c] = "wait" /\ job[c] = "queued"
    /\ Goes(c, "timeout")
    /\ poisoned' = TRUE /\ shut' = TRUE
    /\ UNCHANGED <<answer, job, counted, callback, slots, line, loads, loadFuture, loaded, listed,
                   latest, closing, closer>>

\* _delivery_reject_code_locked: a result that came before the end of the backend, and
\* is delivered after it, is discarded; counted unless the callback did.
DeliverResult(c) ==
    /\ call[c] = "deliver"
    /\ GivesBack /\ UNCHANGED held
    /\ Answers(c, IF Refused THEN "failed" ELSE "ok")
    /\ counted' = IF Refused /\ counted[c] = 0 THEN [counted EXCEPT ![c] = 1] ELSE counted
    /\ UNCHANGED <<job, callback, backend, poisoned, closing, closer>>
-------------------------------------------------------------------------------
(* The worker thread *)

\* A call ends; _load_worker ends: adopted, too late, failed.
WorkEnds ==
    /\ line # <<>>
    /\ line' = Tail(line)
    /\ listed' = listed \ {Head(line)}
    /\ IF Head(line)[1] = "call"
       THEN /\ \E r \in {"ok", "error"} : job' = [job EXCEPT ![Head(line)[2]] = r]
            /\ callback' = callback \cup {Head(line)[2]}
            /\ UNCHANGED <<loads, loaded>>
       ELSE /\ \E r \in {IF Refused THEN "dropped" ELSE "ok", "failed"} :
                 /\ loads' = [loads EXCEPT ![Head(line)[2]] = r]
                 /\ loaded' = (loaded \/ r = "ok")
            /\ UNCHANGED <<job, callback>>
    /\ UNCHANGED <<call, answer, counted, slots, shut, loadFuture, latest, poisoned, closing,
                   closer>>

\* _drop_late_result, after those who wait for the future were woken.
DropLate(c) ==
    /\ c \in callback
    /\ callback' = callback \ {c}
    /\ counted' = IF Refused THEN [counted EXCEPT ![c] = @ + 1] ELSE counted
    /\ UNCHANGED <<call, answer, job, slots, backend, poisoned, closing, closer>>
-------------------------------------------------------------------------------
(* close, which may be called again *)

CloseModel ==
    /\ closer.pc \in {"none", "incomplete"}
    /\ closing' = TRUE
    /\ closer' = [pc |-> "waits", waits |-> {j \in listed : Unfinished(j)}]
    /\ UNCHANGED <<call, answer, job, counted, callback, slots, backend, poisoned>>

\* The wait for what was pending then, until the limit; what is pending now decides.
CloseWaited ==
    /\ closer.pc = "waits"
    /\ IF \E j \in listed : Unfinished(j)
       THEN closer' = [pc |-> "incomplete", waits |-> {}] /\ shut' = (shut \/ loads # <<>>)
       ELSE closer' = [pc |-> "joins", waits |-> {}] /\ shut' = (shut \/ loads # <<>>)
    /\ UNCHANGED <<call, answer, job, counted, callback, slots, line, loads, loadFuture, loaded,
                   listed, latest, poisoned, closing>>

\* shutdown(wait=True) waits for all that was submitted.
CloseJoined ==
    /\ closer.pc = "joins" /\ line = <<>>
    /\ closer' = [closer EXCEPT !.pc = "closed"]
    /\ UNCHANGED <<call, answer, job, counted, callback, slots, backend, poisoned, closing>>

MNext ==
    \/ \E c \in Callers :
        \/ RejectTask(c) \/ AcquireSlot(c) \/ HoldSlot(c) \/ CollectFinished(c)
        \/ EnterModel(c) \/ EnsureLoaded(c) \/ LoadEnded(c) \/ LoadTimeout(c)
        \/ SubmitCall(c) \/ EnlistCall(c) \/ CallEnded(c) \/ CallTimeout(c) \/ DeliverResult(c)
        \/ DropLate(c)
    \/ WorkEnds \/ CloseModel \/ CloseWaited \/ CloseJoined
-------------------------------------------------------------------------------
(* Properties *)

MTypeOK ==
    /\ call \in [Callers -> {"idle", "enter", "load", "loading", "submit", "enlist", "wait",
                             "deliver", "timeout"}]
    /\ answer \in [Callers -> {"none", "ok", "failed"}]
    /\ job \in [Callers -> {"none", "queued", "ok", "error"}]
    /\ freeSlots \in 0..ModelSlots /\ inFlight \in 0..ModelSlots /\ held \subseteq Callers
    /\ loadFuture \in 0..Len(loads)

\* A call that still runs keeps its slot, also after its caller gave up, so that no
\* more calls are under way than the device was granted; every slot comes back once;
\* and a backend that says it is closed runs nothing, and will run nothing any more.
SlotsCover ==
    /\ freeSlots + inFlight = ModelSlots
    /\ Cardinality({c \in Callers : job[c] = "queued"}) <= inFlight
    /\ closer.pc = "closed" =>
        /\ line = <<>>
        /\ \A c \in Callers : call[c] = "submit" => shut

\* At most one count for each result that is discarded.
CountedOnce == \A c \in Callers : counted[c] <= 1

===============================================================================
