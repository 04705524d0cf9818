-------------------------------- MODULE RunLoop --------------------------------
(***************************************************************************)
(* The module thread: it bootstraps the worker, evaluates the main module   *)
(* and drives the event loop until the app is done.  "serve" is the worker  *)
(* of a desktop app, "external" that of an app whose pages a framework's    *)
(* own dev server delivers, "plain" that of `inka run` and of an artifact.  *)
(***************************************************************************)
EXTENDS Naturals

VARIABLES
  mode,      \* "none" until the process is started
  worker,    \* how far the module thread has come
  work,      \* the app has timers, requests or other pending operations
  server,    \* the app's server is listening
  threw,     \* history: the beforeExit handler has thrown
  shutdown   \* laufey::should_shutdown()

loopVars == <<mode, worker, work, server, threw, shutdown>>

Modes == {"serve", "external", "plain"}
LoopTypeOK ==
  /\ mode \in Modes \cup {"none"}
  /\ worker \in {"start", "ready", "loop", "beforeunload", "beforeexit",
                 "running", "loaded", "leaving", "exiting", "unload", "ended"}
  /\ {work, server, threw, shutdown} \subseteq BOOLEAN

LoopInit ==
  /\ mode = "none" /\ worker = "start"
  /\ work = FALSE /\ server = FALSE /\ threw = FALSE /\ shutdown = FALSE

(* Events are dispatched to handlers that may start new work, but for the   *)
(* generated module of external mode, which keeps one timer for ever.       *)
Handlers == work' \in (IF mode = "external" THEN {work} ELSE BOOLEAN)
Goto(from, to) == worker = from /\ worker' = to
(* run_event_loop returns when nothing is left to do.                       *)
Idle == ~work /\ ~server

Bootstrap ==
  /\ mode # "none" /\ Goto("start", "ready")
  /\ UNCHANGED <<mode, work, server, threw, shutdown>>

(* The app ends or fails, and its isolate goes: the module thread quits the *)
(* backend.                                                                 *)
Gone == worker' = "ended" /\ work' = FALSE /\ server' = FALSE /\ threw' = FALSE
Ends ==
  /\ Gone
  /\ shutdown' = TRUE
  /\ UNCHANGED mode

(* A script, the main module or a turn of the loop ends in an error.        *)
Fails == mode # "none" /\ worker \notin {"unload", "ended"} /\ Ends
Unloads == worker = "unload" /\ Ends

(* The main module; only the worker of "serve" installs a default handler.  *)
Evaluate ==
  /\ Goto("ready", IF mode = "serve" THEN "loop" ELSE "running")
  /\ work' \in (IF mode = "external" THEN {TRUE} ELSE BOOLEAN)
  /\ server' \in (IF mode = "external" THEN {FALSE} ELSE BOOLEAN)
  /\ UNCHANGED <<mode, threw, shutdown>>

(* A turn of the loop: work leads to more work, or to a server that starts  *)
(* or stops; a server leads to work.                                        *)
Turn ==
  /\ worker \in {"loop", "running", "loaded", "leaving", "exiting"}
  /\ ~Idle /\ mode # "external"
  /\ Handlers /\ server' \in BOOLEAN
  /\ UNCHANGED <<mode, worker, threw, shutdown>>

(* The loop of a desktop app: shutdown is looked at when it has run dry.    *)
Poll ==
  /\ Goto("loop", IF shutdown THEN "unload" ELSE "beforeunload")
  /\ Idle
  /\ UNCHANGED <<mode, work, server, threw, shutdown>>

(* beforeunload: a handler keeps the app alive by its answer ...            *)
BeforeUnload ==
  /\ worker = "beforeunload" /\ worker' \in {"loop", "beforeexit"}
  /\ Handlers
  /\ UNCHANGED <<mode, server, threw, shutdown>>

(* Mutant: the answer of process.beforeExit is not used. *)
BeforeExitIgnored ==
  /\ Goto("beforeexit", "unload")
  /\ Handlers /\ UNCHANGED threw
  /\ UNCHANGED <<mode, server, shutdown>>

(* ... a handler of process.beforeExit by the work it leaves.  One that     *)
(* throws counts as one that declines.                                      *)
BeforeExit ==
  /\ worker = "beforeexit"
  /\ Handlers /\ threw' \in BOOLEAN
  /\ worker' = IF ~threw' /\ (work' \/ server) THEN "loop" ELSE "unload"
  /\ UNCHANGED <<mode, server, shutdown>>

(* Without `serve` there is one pass: load, beforeunload and beforeExit,    *)
(* each followed by the work its handlers have left.                        *)
Pass ==
  /\ Goto("running", "loaded") \/ Goto("loaded", "leaving") \/ Goto("leaving", "exiting")
  /\ Idle /\ Handlers
  /\ UNCHANGED <<mode, server, threw, shutdown>>
Passed ==
  /\ Goto("exiting", "unload") /\ Idle
  /\ UNCHANGED <<mode, work, server, threw, shutdown>>

Loop == Evaluate \/ Turn \/ Poll \/ BeforeUnload \/ BeforeExit \/ Pass \/ Passed \/ Unloads
(* What the thread does by itself once the app has no work left.            *)
Closing == Poll \/ BeforeUnload \/ BeforeExit \/ Pass \/ Passed \/ Unloads

(* ---- properties ---------------------------------------------------------- *)

(* An app that serves or still has work is not torn down under its feet:    *)
(* both beforeunload and process.beforeExit have to decline, and what they  *)
(* started has run dry, unless the backend is shutting down or the handler  *)
(* of beforeExit has thrown (lib.rs:770-775, 795-822, 831-860).             *)
NothingCut ==
  [][worker # "unload" /\ worker' = "unload" => Idle' \/ shutdown \/ threw']_loopVars
================================================================================
