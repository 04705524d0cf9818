------------------------------ MODULE DesktopBoot ------------------------------
(***************************************************************************)
(* The start of a desktop app: the module thread bootstraps the worker      *)
(* (creating the hidden bootstrap window) and runs the app's server; the    *)
(* shell waits for the server, then navigates that window or opens a        *)
(* fallback; the backend asks for shutdown when the module thread quits or  *)
(* the last window has been closed.                                         *)
(***************************************************************************)
EXTENDS RunLoop

VARIABLES
  shell,     \* the main thread, in run_desktop; "none" without a desktop
  serverUp,  \* what the shell's wait has returned
  timedOut,  \* history: it ended at its deadline
  windowId,  \* what the shell has read from INITIAL_WINDOW
  window,    \* window[w]; a window is "away" when the app has hidden it
  page,      \* page[w]: what the window has been asked to show
  reveal     \* the REVEAL_FALLBACK timer is running

shellVars == <<shell, serverUp, timedOut, windowId, window, page, reveal>>
vars == <<loopVars, shellVars>>

(* The bootstrap window, the shell's fallback and one the app opens.        *)
Window == {"bootstrap", "fallback", "own"}

BootTypeOK ==
  /\ LoopTypeOK
  /\ shell \in {"none", "wait", "read", "decide", "pump", "ended"}
  /\ {serverUp, timedOut, reveal} \subseteq BOOLEAN
  /\ windowId \in {"none", "bootstrap"}
  /\ window \in [Window -> {"none", "hidden", "shown", "away", "closed"}]
  /\ page \in [Window -> {"blank", "loading", "loaded"}]

BootInit ==
  /\ LoopInit
  /\ shell = "none"
  /\ serverUp = FALSE /\ timedOut = FALSE /\ windowId = "none"
  /\ window = [w \in Window |-> "none"]
  /\ page = [w \in Window |-> "blank"]
  /\ reveal = FALSE

Shell(from, to) == shell = from /\ shell' = to

(* INITIAL_WINDOW is set once; the window may have been closed since.       *)
Initial == IF window["bootstrap"] = "none" THEN "none" ELSE "bootstrap"
Show(w) == IF window[w] \in {"hidden", "away"} THEN [window EXCEPT ![w] = "shown"] ELSE window

(* ---- the module thread, which ends with the process ------------------------ *)

(* run_desktop: the backend runs it, with or without INKA_DESKTOP_DEV_URL.   *)
StartDesktop(m) ==
  /\ mode = "none" /\ mode' = m
  /\ shell' = "wait"
  /\ UNCHANGED <<worker, work, server, threw, shutdown,
                 serverUp, timedOut, windowId, window, page, reveal>>

(* `inka run`, or an artifact that is launched. *)
StartPlain ==
  /\ mode = "none" /\ mode' = "plain"
  /\ UNCHANGED <<worker, work, server, threw, shutdown, shellVars>>

(* The extension that creates the bootstrap window is only there to serve.  *)
WorkerBootstrap ==
  /\ shell # "ended"
  /\ Bootstrap
  /\ window' = IF mode # "serve" THEN window ELSE [window EXCEPT !["bootstrap"] = "hidden"]
  /\ UNCHANGED <<shell, serverUp, timedOut, windowId, page, reveal>>

WorkerFails == shell # "ended" /\ Fails /\ UNCHANGED shellVars
WorkerLoops == shell # "ended" /\ Loop /\ UNCHANGED shellVars
WorkerCloses == shell # "ended" /\ Closing /\ UNCHANGED shellVars

(* ---- the shell --------------------------------------------------------------- *)

(* Mutant: the window id is read when the wait begins. *)
WaitEndsReadEarly ==
  /\ Shell("wait", "decide")
  /\ server \/ shutdown
  /\ serverUp' = server /\ windowId' = "none"
  /\ UNCHANGED <<loopVars, timedOut, window, page, reveal>>

(* wait_for_server: a connection is accepted, or the backend shuts down.    *)
(* wait_for_initial_window: there is a window, or the backend shuts down.   *)
WaitEnds ==
  /\ Shell("wait", "read")
  /\ shutdown \/ (IF mode = "external" THEN Initial # "none" ELSE server)
  /\ serverUp' = (mode = "external" \/ server)
  /\ UNCHANGED <<loopVars, timedOut, windowId, window, page, reveal>>

(* SERVE_WAIT has passed. *)
WaitTimesOut ==
  /\ Shell("wait", "read")
  /\ ~server /\ ~shutdown
  /\ serverUp' = (mode = "external") /\ timedOut' = TRUE
  /\ UNCHANGED <<loopVars, windowId, window, page, reveal>>

ReadInitial ==
  /\ Shell("read", "decide")
  /\ windowId' = Initial
  /\ UNCHANGED <<loopVars, serverUp, timedOut, window, page, reveal>>

(* Mutant: the window is left to its first page load. *)
UseBootstrapUnrevealed ==
  /\ windowId = "bootstrap" /\ ~shutdown
  /\ Shell("decide", "pump")
  /\ IF serverUp THEN page' = [page EXCEPT !["bootstrap"] = "loading"] /\ UNCHANGED window
     ELSE window' = Show("bootstrap") /\ UNCHANGED page
  /\ UNCHANGED <<loopVars, serverUp, timedOut, windowId, reveal>>

UseBootstrap ==
  /\ windowId = "bootstrap" /\ ~shutdown
  /\ Shell("decide", "pump")
  /\ reveal' = TRUE
  /\ IF serverUp THEN page' = [page EXCEPT !["bootstrap"] = "loading"] /\ UNCHANGED window
     ELSE window' = Show("bootstrap") /\ UNCHANGED page
  /\ UNCHANGED <<loopVars, serverUp, timedOut, windowId>>

OpenFallback ==
  /\ windowId = "none" /\ ~shutdown
  /\ Shell("decide", "pump")
  /\ window' = [window EXCEPT !["fallback"] = "shown"]
  /\ page' = [page EXCEPT !["fallback"] = IF serverUp THEN "loading" ELSE @]
  /\ UNCHANGED <<loopVars, serverUp, timedOut, windowId, reveal>>

SkipWindow ==
  /\ shutdown
  /\ Shell("decide", "pump")
  /\ UNCHANGED <<loopVars, serverUp, timedOut, windowId, window, page, reveal>>

(* REVEAL_FALLBACK has passed. *)
Reveal ==
  /\ reveal /\ reveal' = FALSE
  /\ shell = "pump"
  /\ window' = Show("bootstrap")
  /\ UNCHANGED <<loopVars, shell, serverUp, timedOut, windowId, page>>

(* laufey::run() returns once the backend is shutting down, and the process *)
(* ends with its windows.                                                   *)
ShellEnds ==
  /\ Shell("pump", "ended")
  /\ shutdown
  /\ serverUp' = FALSE /\ windowId' = "none" /\ reveal' = FALSE
  /\ window' = [w \in Window |-> "none"] /\ page' = [w \in Window |-> "blank"]
  /\ UNCHANGED <<loopVars, timedOut>>

(* ---- windows ------------------------------------------------------------------ *)

(* The first page load shows the bootstrap window. *)
PageLoads(w) ==
  /\ page[w] = "loading" /\ page' = [page EXCEPT ![w] = "loaded"]
  /\ window[w] # "closed" /\ shell # "ended"
  /\ window' = IF w = "bootstrap" THEN Show(w) ELSE window
  /\ UNCHANGED <<loopVars, shell, serverUp, timedOut, windowId, reveal>>

(* A window is closed; the backend quits after the last one.                *)
Close(w) ==
  /\ shell # "ended"
  /\ window' = [window EXCEPT ![w] = "closed"]
  /\ shutdown' = (shutdown \/ \A v \in Window \ {w} : window[v] \in {"none", "closed"})
  /\ UNCHANGED <<mode, worker, work, server, threw, shell, serverUp, timedOut, windowId, page, reveal>>

(* The close button: the handler completes the deferred close.              *)
CloseWindow(w) == window[w] = "shown" /\ Close(w)

(* Deno.BrowserWindow is there once the worker that serves has bootstrapped; *)
(* the app may have closed the bootstrap window before the shell reads it.  *)
AppRuns == mode = "serve" /\ worker \notin {"start", "ended"} /\ shell # "ended"
AppSets(ws) ==
  /\ AppRuns
  /\ window' = ws
  /\ UNCHANGED <<loopVars, shell, serverUp, timedOut, windowId, page, reveal>>

OpenWindow == window["own"] = "none" /\ AppSets([window EXCEPT !["own"] = "shown"])
AppCloses(w) ==
  /\ AppRuns
  /\ window[w] \in {"hidden", "shown", "away"}
  /\ Close(w)
AppHides(w) == window[w] \in {"hidden", "shown"} /\ AppSets([window EXCEPT ![w] = "away"])
AppShows(w) == window[w] \in {"hidden", "away"} /\ AppSets(Show(w))

Wait == WaitEnds \/ WaitTimesOut
Shows == ReadInitial \/ UseBootstrap \/ OpenFallback \/ SkipWindow \/ Reveal \/ ShellEnds

BootStep ==
  \/ WorkerBootstrap \/ WorkerFails \/ WorkerLoops
  \/ Wait \/ Shows
  \/ OpenWindow
  \/ \E w \in Window : PageLoads(w) \/ CloseWindow(w)
  \/ \E w \in {"bootstrap", "own"} : AppCloses(w) \/ AppHides(w) \/ AppShows(w)

(* The shell's waits have deadlines, its timer fires, and both threads are  *)
(* scheduled.  Nothing is assumed of the app, of its pages or of the user.  *)
BootFairness == WF_vars(Wait) /\ WF_vars(Shows) /\ WF_vars(WorkerCloses)

(* ---- properties ---------------------------------------------------------------- *)

(* The user is given one window: the shell's fallback comes next to a       *)
(* bootstrap window only after a wait that ran into its deadline            *)
(* (desktop.rs:35-37, 372-378).                                             *)
OneWindow ==
  window["bootstrap"] # "none" /\ window["fallback"] # "none" => timedOut

(* However slow the app and its pages are, the user gets to see a window,   *)
(* unless the app ends or closes it first (desktop.rs:394-400, 410-414).    *)
SomethingShows ==
  shell = "wait" ~> shutdown \/ \E w \in Window : window[w] \in {"shown", "closed"}

(* No window the app did not hide itself keeps a process without a visible  *)
(* window: after a close the process ends or another window is shown; and   *)
(* the process ends with its module thread, also when that comes to its end *)
(* because nothing is left to do (desktop.rs:60-64, 355, 376-378).          *)
NoneVisible ==
  /\ \E w \in Window : window[w] = "closed"
  /\ \A w \in Window : window[w] \in {"none", "hidden", "closed"}

ClosingEnds ==
  /\ worker = "ended" ~> shell \in {"none", "ended"}
  /\ NoneVisible /\ ~timedOut
       ~> (shell = "ended" \/ \E w \in Window : window[w] \in {"shown", "away"})
================================================================================
