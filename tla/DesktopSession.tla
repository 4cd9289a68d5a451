----------------------------- MODULE DesktopSession -----------------------------
(***************************************************************************)
(* The desktop shell and the backend it starts (BackendSession.cs,         *)
(* MainWindow.cs, win11_desktop.py). The backend is a process of its own   *)
(* that writes lines to a pipe and takes one command. Each start makes a   *)
(* generation with its own process, pipe and reader task. The window is    *)
(* one thread: what a reader has to tell it waits until the thread is      *)
(* free. The session may be asked to stop by any thread, also while it is  *)
(* starting: here by one other beside the window.                          *)
(*                                                                         *)
(* A time limit may run out at any step of what it limits. Diagnostics,    *)
(* texts and lines that are not of the protocol are left out.              *)
(***************************************************************************)
EXTENDS Integers, Sequences, FiniteSets

CONSTANTS
    MaxGens,        \* bound: starts
    MaxTroubles     \* bound: what is out of the ordinary: a backend dies, or cannot be
                    \* started, a time limit passes, the view fails, another thread asks

ASSUME SessionAssumption == MaxGens \in Nat \ {0} /\ MaxTroubles \in Nat

Gens == 1..MaxGens
Clients == {"ui", "other"}

VARIABLES
    service,        \* per generation: at, its phase; code, what it exits with; said,
                    \* the end it reported; out, lines not read yet
    gen,            \* the shell's side: reader; post, what waits for the window;
                    \* hs, the handshake read; sent, the command is in its stdin
    slot,           \* _startAttempt: the generation that is being started, or 0
    launch,         \* how each attempt ended; stop, it was asked to stop meanwhile
    curGen,         \* _genState: the current generation, or 0
    client,         \* each caller: pc, the generation it deals with, why
    misled,         \* a caller was told "stopped normally" of one that did not
    win,            \* the window: exit, ready, allowed, pending, nav
    strayed,        \* a generation was replaced while its reader waited for the window
    troubles        \* bound: of them so far

shellSide == <<gen, slot, launch, curGen, client, misled, win, strayed>>
sessionvars == <<service, shellSide, troubles>>

Idle == [pc |-> "idle", g |-> 0, why |-> "none"]
SessionInit ==
    /\ service = [g \in Gens |-> [at |-> "none", code |-> 0, said |-> "nothing",
                                  out |-> <<>>]]
    /\ gen = [g \in Gens |-> [reader |-> "none", post |-> "none", hs |-> "nothing",
                              sent |-> FALSE]]
    /\ slot = 0 /\ curGen = 0
    /\ launch = [g \in Gens |-> [is |-> "none", stop |-> FALSE]]
    /\ client = [c \in Clients |-> IF c = "ui" THEN [Idle EXCEPT !.pc = "admit"] ELSE Idle]
    /\ win = [exit |-> FALSE, ready |-> FALSE, allowed |-> {}, pending |-> 0, nav |-> "no"]
    /\ misled = FALSE /\ strayed = FALSE /\ troubles = 0

\* A process is alive until its end is signalled; its pipes are closed before.
HasExited(g) == service[g].at = "exited"
Living(g) == service[g].at \notin {"none", "exited"}
PipesOpen(g) == service[g].at \notin {"none", "dying", "exited"}
Trouble == troubles < MaxTroubles /\ troubles' = troubles + 1
-------------------------------------------------------------------------------
(* The backend: desktop_main and the bridge *)

Emits(g, phase, lines) ==
    service' = [service EXCEPT ![g] = [service[g] EXCEPT !.at = phase, !.out = @ \o lines]]
\* hook("stopped"): what was left unfinished makes the exit code 3.
EmitsStopped(g, said) ==
    service' = [service EXCEPT ![g] =
                   [service[g] EXCEPT !.at = "told", !.said = said,
                                      !.code = IF said = "ok" THEN 0 ELSE 3,
                                      !.out = Append(@, said)]]

\* watch_stdin: the command, or the end of its stdin, has set stop_event.
StopAsked(g) == gen[g].sent

\* No configuration yet, or a replacement was asked for: the setup page is shown.
OpenSetup(g) ==
    /\ service[g].at = "boot" /\ Emits(g, "setup", <<"navigate">>)
    /\ UNCHANGED <<shellSide, troubles>>
\* hook("http_ready"): the page and its origin.
HttpReady(g) ==
    /\ service[g].at \in {"boot", "setup"} /\ Emits(g, "up", <<"navigate", "ready">>)
    /\ UNCHANGED <<shellSide, troubles>>
\* Told to stop during the setup: nothing was begun, nothing is left.
StopSetup(g) ==
    /\ service[g].at = "setup" /\ StopAsked(g) /\ EmitsStopped(g, "ok")
    /\ UNCHANGED <<shellSide, troubles>>
\* The setup is left without a configuration, or fails: no "stopped".
SetupFails(g) ==
    /\ service[g].at = "setup"
    /\ service' = [service EXCEPT ![g] = [@ EXCEPT !.at = "dying", !.code = 1]]
    /\ UNCHANGED <<shellSide, troubles>>
\* nvr.main after stop_event: the parts are stopped one by one, each in its time or not.
StopRun(g, said) ==
    /\ service[g].at = "up" /\ StopAsked(g) /\ EmitsStopped(g, said)
    /\ UNCHANGED <<shellSide, troubles>>
Returns(g) ==
    /\ service[g].at = "told" /\ service' = [service EXCEPT ![g].at = "dying"]
    /\ UNCHANGED <<shellSide, troubles>>
Dies(g) ==
    /\ PipesOpen(g) /\ Trouble
    /\ service' = [service EXCEPT ![g] = [@ EXCEPT !.at = "dying", !.code = 1]]
    /\ UNCHANGED shellSide
EndSignalled(g) ==
    /\ service[g].at = "dying" /\ service' = [service EXCEPT ![g].at = "exited"]
    /\ UNCHANGED <<shellSide, troubles>>
-------------------------------------------------------------------------------
(* The reader of a generation: ReadStdoutAsync, HandleLine *)

\* MUTANT of IsCurrentGen: what an older generation still reads is handed over too.
MutantIsCurrentGen(g) == gen[g].reader = "reading"
IsCurrentGen(g) == curGen = g

\* Navigate, Ready, Stopped, Faulted: handed over and waited for.
Hands(g, what, next) ==
    [gen[g] EXCEPT !.post = IF IsCurrentGen(g) THEN what ELSE "none",
                   !.reader = IF IsCurrentGen(g) THEN "posted" ELSE next]
HandleLine(g) ==
    /\ gen[g].reader = "reading" /\ service[g].out # <<>>
    /\ LET line == Head(service[g].out)
           over == Hands(g, line, "reading")
       IN  gen' = [gen EXCEPT ![g] = IF line \in {"ok", "incomplete"}
                                     THEN [over EXCEPT !.hs = line] ELSE over]
    /\ service' = [service EXCEPT ![g].out = Tail(@)]
    /\ UNCHANGED <<slot, launch, curGen, client, misled, win, strayed, troubles>>
\* End of the pipe. MarkFaulted only if the process has been seen to exit by now.
EndOfPipe(g) ==
    /\ gen[g].reader = "reading" /\ service[g].out = <<>> /\ ~PipesOpen(g)
    /\ gen' = [gen EXCEPT ![g] =
                  IF gen[g].hs = "nothing" /\ HasExited(g)
                  THEN Hands(g, "fault", "closed")
                  ELSE [@ EXCEPT !.reader = "closed"]]
    /\ UNCHANGED <<slot, launch, curGen, client, misled, win, strayed, service, troubles>>
-------------------------------------------------------------------------------
(* Starting: StartInternal *)

Goto(c, pc) == client' = [client EXCEPT ![c] = IF pc = "idle" THEN Idle ELSE [@ EXCEPT !.pc = pc]]
\* The window's thread is in StartInternal and handles nothing meanwhile.
UiFree == client["ui"].pc \notin {"admit", "spawn", "publish", "tell"}

\* The one slot is free and the current process has exited; else it throws.
MayStart == slot = 0 /\ (curGen = 0 \/ HasExited(curGen))
NextGen == Cardinality({g \in Gens : launch[g].is # "none"}) + 1
\* RestartBackendFromTrayAsync, Program.Main: a start that fails is reported.
StartFails == win' = [win EXCEPT !.ready = FALSE]
AdmitStart(c) ==
    /\ client[c].pc = "admit"
    /\ IF MayStart
       THEN /\ slot' = NextGen
            /\ launch' = [launch EXCEPT ![NextGen].is = "open"]
            /\ client' = [client EXCEPT ![c] = [@ EXCEPT !.pc = "spawn", !.g = NextGen]]
            /\ UNCHANGED win
       ELSE StartFails /\ Goto(c, "idle") /\ UNCHANGED <<slot, launch>>
    /\ UNCHANGED <<gen, curGen, misled, strayed, service, troubles>>
SpawnProcess(c) ==
    /\ client[c].pc = "spawn" /\ Goto(c, "publish")
    /\ service' = [service EXCEPT ![client[c].g].at = "boot"]
    /\ UNCHANGED <<gen, slot, launch, curGen, misled, win, strayed, troubles>>
\* The slot is free again and whoever waits for this start is told.
SpawnFails(c) ==
    /\ client[c].pc = "spawn" /\ Goto(c, "idle") /\ Trouble
    /\ slot' = 0 /\ launch' = [launch EXCEPT ![slot].is = "failed"]
    /\ StartFails
    /\ UNCHANGED <<gen, curGen, misled, strayed, service>>
\* The generation becomes the current one; only now does its reader begin.
Publish(c) ==
    /\ client[c].pc = "publish" /\ Goto(c, "tell")
    /\ curGen' = slot /\ slot' = 0
    /\ gen' = [gen EXCEPT ![slot].reader = "reading"]
    /\ strayed' = (strayed \/ \E g \in Gens : gen[g].reader = "posted")
    /\ UNCHANGED <<launch, misled, win, service, troubles>>

\* RequestStop(gen): the command is written once, while there is a pipe to write to; a
\* process that has ended, or has said so, needs none.
WriteStop(g) ==
    gen' = [gen EXCEPT ![g].sent = @ \/ (gen[g].hs = "nothing" /\ PipesOpen(g))]

\* A stop asked for during this start is passed on to it, and those who wait are told.
\* A restart forgets what the window knew of the last backend.
Forget(w) == [w EXCEPT !.ready = FALSE, !.allowed = {}, !.pending = 0]
TellStop(c) ==
    /\ client[c].pc = "tell" /\ Goto(c, "idle")
    /\ LET g == client[c].g
       IN  /\ IF launch[g].stop THEN WriteStop(g) ELSE UNCHANGED gen
           /\ launch' = [launch EXCEPT ![g].is = "up"]
    /\ win' = IF client[c].why = "restart" THEN Forget(win) ELSE win
    /\ UNCHANGED <<slot, curGen, misled, strayed, service, troubles>>
-------------------------------------------------------------------------------
(* Stopping: RequestStop, RequestStopAndWaitAsync *)

Done == {"normal", "notRunning"}
\* What the caller does with the outcome: a restart goes on, the window exits, only if
\* the backend stopped as it should or there is none. Any other outcome is only shown.
Concludes(c, outcome) ==
    /\ Goto(c, IF outcome \in Done /\ client[c].why = "restart" THEN "admit" ELSE "idle")
    /\ win' = [win EXCEPT !.exit = @ \/ (outcome \in Done /\ client[c].why = "stop")]
    /\ LET b == service[client[c].g]
       IN  misled' = (misled \/ (outcome = "normal"
                                 /\ ~(b.said = "ok" /\ b.at = "exited" /\ b.code = 0)))

\* A start under way is marked; otherwise the current generation is what is stopped.
BeginWait(c, why) ==
    /\ client[c].pc = "idle" /\ ~win.exit
    /\ launch' = IF slot # 0 THEN [launch EXCEPT ![slot].stop = TRUE] ELSE launch
    /\ client' = [client EXCEPT ![c] =
                     [pc |-> IF slot # 0 THEN "await" ELSE "send", why |-> why,
                      g |-> IF slot # 0 THEN slot ELSE curGen]]
    /\ UNCHANGED <<gen, slot, curGen, misled, win, strayed, service>>
AwaitLaunch(c) ==
    /\ client[c].pc = "await"
    /\ \/ launch[client[c].g].is = "up" /\ Goto(c, "send") /\ UNCHANGED <<misled, win>>
       \/ launch[client[c].g].is = "failed" /\ Concludes(c, "notRunning")
    /\ UNCHANGED <<gen, slot, launch, curGen, strayed, service, troubles>>
LaunchTooLong(c) ==
    /\ client[c].pc = "await" /\ Trouble /\ Concludes(c, "timeout")
    /\ UNCHANGED <<gen, slot, launch, curGen, strayed, service>>
SendStop(c) ==
    /\ client[c].pc = "send"
    /\ LET g == client[c].g
       IN  IF g = 0
           THEN Concludes(c, "notRunning") /\ UNCHANGED gen
           ELSE WriteStop(g) /\ Goto(c, "poll") /\ UNCHANGED <<misled, win>>
    /\ UNCHANGED <<slot, launch, curGen, strayed, service, troubles>>

\* The process has exited: its own handshake and its own exit code decide.
Evaluate(g) ==
    IF gen[g].hs = "nothing" THEN "noHandshake"
    ELSE IF gen[g].hs = "incomplete" THEN "incomplete"
    ELSE IF service[g].code # 0 THEN "abnormal" ELSE "normal"
\* After the exit the reader is waited for, but not for ever.
Settle(c) ==
    /\ client[c].pc = "poll" /\ HasExited(client[c].g)
    /\ Concludes(c, Evaluate(client[c].g))
    /\ UNCHANGED <<gen, slot, launch, curGen, strayed, service, troubles>>
\* StopRequestFailed, StoppedButAlive or Timeout: the process is still there.
Deadline(c) ==
    /\ client[c].pc = "poll" /\ ~HasExited(client[c].g) /\ Trouble
    /\ Concludes(c, "alive")
    /\ UNCHANGED <<gen, slot, launch, curGen, strayed, service>>
\* Another thread asks while a start is under way (at any other time it does what the
\* window does): RequestStop is accepted for that start, RequestStopAndWaitAsync waits.
StopFromElsewhere ==
    /\ slot # 0 /\ Trouble /\ launch' = [launch EXCEPT ![slot].stop = TRUE]
    /\ UNCHANGED <<gen, slot, curGen, client, misled, win, strayed, service>>
StopAndWaitElsewhere ==
    slot # 0 /\ Trouble /\ BeginWait("other", "elsewhere")
-------------------------------------------------------------------------------
(* The window *)

\* The menu and the tray: a restart waits for a stop unless the process has exited. One
\* of these at a time. The bound on starts is met here.
RestartBackend ==
    /\ client["ui"].pc = "idle" /\ ~win.exit /\ NextGen <= MaxGens
    /\ IF curGen = 0 \/ HasExited(curGen)
       THEN /\ client' = [client EXCEPT !["ui"] = [@ EXCEPT !.pc = "admit", !.why = "restart"]]
            /\ UNCHANGED <<gen, slot, launch, curGen, misled, win, strayed, service, troubles>>
       ELSE BeginWait("ui", "restart") /\ UNCHANGED troubles
\* StopCoreAsync, of the tray, the menu, or "yes" to closing.
StopCore == BeginWait("ui", "stop") /\ UNCHANGED troubles

\* The handlers of the window; Navigate is kept until the protection is there.
Handles(w, g, what) ==
    CASE what = "navigate" ->
            [w EXCEPT !.allowed = @ \cup {g}, !.pending = IF w.nav = "ok" THEN @ ELSE g]
      [] what = "ready" -> [w EXCEPT !.allowed = @ \cup {g}, !.ready = TRUE]
      [] what = "fault" -> [w EXCEPT !.ready = FALSE]
      [] OTHER -> w
Dispatch(g) ==
    /\ gen[g].reader = "posted" /\ UiFree
    /\ win' = Handles(win, g, gen[g].post)
    /\ gen' = [gen EXCEPT ![g] =
                  [@ EXCEPT !.post = "none",
                            !.reader = IF gen[g].post = "fault" THEN "closed" ELSE "reading"]]
    /\ UNCHANGED <<slot, launch, curGen, client, misled, strayed, service, troubles>>
\* OnInit: the protection is installed, and what was kept is shown.
NavigationReady ==
    /\ UiFree /\ win.nav = "no"
    /\ win' = [win EXCEPT !.nav = "ok", !.pending = 0]
    /\ UNCHANGED <<gen, slot, launch, curGen, client, misled, strayed, service, troubles>>
\* OnInit without a view: the backend is stopped, if nothing else is under way.
ViewFails ==
    /\ UiFree /\ win.nav = "no" /\ ~win.exit /\ Trouble
    /\ win' = [win EXCEPT !.nav = "failed", !.ready = FALSE]
    /\ client' = IF client["ui"].pc = "idle"
                 THEN [client EXCEPT !["ui"] = [pc |-> "send", g |-> curGen, why |-> "stop"]]
                 ELSE client
    /\ UNCHANGED <<gen, slot, launch, curGen, misled, strayed, service>>
-------------------------------------------------------------------------------
ClientStep(c) ==
    \/ AdmitStart(c) \/ SpawnProcess(c) \/ SpawnFails(c) \/ Publish(c) \/ TellStop(c)
    \/ AwaitLaunch(c) \/ LaunchTooLong(c) \/ SendStop(c) \/ Settle(c) \/ Deadline(c)
BackendStep(g) ==
    \/ OpenSetup(g) \/ HttpReady(g) \/ StopSetup(g) \/ SetupFails(g)
    \/ StopRun(g, "ok") \/ StopRun(g, "incomplete")
    \/ Returns(g) \/ Dies(g) \/ EndSignalled(g)
SessionNext ==
    \/ \E c \in Clients : ClientStep(c)
    \/ \E g \in Gens : BackendStep(g) \/ HandleLine(g) \/ EndOfPipe(g) \/ Dispatch(g)
    \/ StopFromElsewhere \/ StopAndWaitElsewhere
    \/ RestartBackend \/ StopCore \/ NavigationReady \/ ViewFails
-------------------------------------------------------------------------------
SessionTypeOK ==
    /\ service \in [Gens -> [at : {"none", "boot", "setup", "up", "told", "dying", "exited"},
                             code : {0, 1, 3}, said : {"nothing", "ok", "incomplete"},
                             out : Seq({"navigate", "ready", "ok", "incomplete"})]]
    /\ gen \in [Gens -> [reader : {"none", "reading", "posted", "closed"},
                         post : {"none", "navigate", "ready", "ok", "incomplete", "fault"},
                         hs : {"nothing", "ok", "incomplete"},
                         sent : BOOLEAN]]
    /\ slot \in 0..MaxGens /\ curGen \in 0..MaxGens
    /\ launch \in [Gens -> [is : {"none", "open", "up", "failed"}, stop : BOOLEAN]]
    /\ \A c \in Clients : client[c].g \in 0..MaxGens
    /\ win.allowed \subseteq Gens

\* One backend at a time, and none that the session has lost sight of.
NoneLost == \A g \in Gens : Living(g) => g \in {curGen, slot} /\ \A h \in Gens \ {g} : ~Living(h)
\* "Stopped normally" is what that backend said of itself and what its process did.
NormalIsTrue == ~misled
\* A stop that was asked for during a start reaches the backend that was started.
StopReaches ==
    \A g \in Gens : launch[g].is = "up" /\ launch[g].stop =>
        gen[g].sent \/ gen[g].hs # "nothing" \/ ~PipesOpen(g)
\* A fault is reported of a backend that has ended without saying so, no other.
FaultIsTrue == \A g \in Gens : gen[g].post = "fault" => HasExited(g) /\ service[g].said = "nothing"
\* What the window takes for the backend's own is the current backend's, unless a reader
\* was waiting for the window when its generation was replaced.
WindowIsCurrent ==
    ~strayed /\ UiFree =>
        /\ win.allowed \subseteq {curGen} /\ win.pending \in {0, curGen}
        /\ win.ready => service[curGen].at \notin {"boot", "setup"}

\* The shell and its backend, as BackendSession promises it: see the five parts.
SessionHonest ==
    /\ NoneLost /\ NormalIsTrue /\ StopReaches /\ FaultIsTrue /\ WindowIsCurrent
    /\ win.exit => \A g \in Gens : ~Living(g)

SessionSpec == SessionInit /\ [][SessionNext]_sessionvars
================================================================================
