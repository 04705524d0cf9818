------------------------------ MODULE DevSession ------------------------------
(***************************************************************************)
(* `inka desktop --hmr` and `--inspect`: a session finds out how the        *)
(* project is served, writes a generated entry into it, starts a            *)
(* framework's dev server and the DevTools multiplexer as needed, runs the  *)
(* backend and takes everything down when that ends.  The sessions of one   *)
(* project share its directory and, by default, the DevTools port.          *)
(***************************************************************************)
EXTENDS FiniteSets, Naturals

CONSTANTS
  Session,   \* the processes
  Ask,       \* the ways to ask for a session
  MaxKills   \* bound: sessions that are killed

ASSUME SessionAssumption ==
  /\ Ask \subseteq [dir : BOOLEAN, hmr : BOOLEAN, inspect : BOOLEAN, wrapped : BOOLEAN]
  /\ MaxKills \in Nat

(* wrapped: the dev command is one that starts the server, as `npm run dev` *)
(* and `deno task dev` do, and not the server itself.                       *)

VARIABLES
  at,        \* the step of a session
  ask,       \* what it was asked for
  devServer,    \* its dev server: "up" has printed a URL, "lost" has exited since
  entries,   \* the sessions whose generated entry is in the project
  mux,       \* the session that listens on the DevTools port, or None
  backend,
  swept,     \* history: sessions whose entry the start of another has removed
  kills

sessionVars == <<at, ask, devServer, entries, mux, backend, swept, kills>>

None == "none"
Over == {"exited", "failed", "killed"}

SessionTypeOK ==
  /\ at \in [Session -> {"idle", "detect", "build", "command", "await", "write", "runtime",
                         "mux", "launch", "run", "drop", "unlink", "release"} \cup Over]
  /\ ask \in [Session -> Ask]
  /\ devServer \in [Session -> {"none", "starting", "up", "gone", "lost"}]
  /\ entries \subseteq Session /\ swept \subseteq Session
  /\ mux \in Session \cup {None}
  /\ backend \in [Session -> {"none", "running", "ended"}]
  /\ kills \in 0..MaxKills

SessionInit ==
  /\ at = [s \in Session |-> "idle"]
  /\ ask \in [Session -> Ask]
  /\ devServer = [s \in Session |-> "none"]
  /\ entries = {} /\ swept = {} /\ mux = None
  /\ backend = [s \in Session |-> "none"]
  /\ kills = 0

Move(s, from, to) == at[s] = from /\ at' = [at EXCEPT ![s] = to]

(* Every error ends the process at once: the operating system closes its    *)
(* sockets, and nothing is dropped.                                         *)
Fail(s, from) ==
  /\ Move(s, from, "failed")
  /\ mux' = IF mux = s THEN None ELSE mux
  /\ UNCHANGED <<ask, devServer, entries, backend, swept, kills>>

(* The operating system ends the session; what it started goes on.          *)
Killed(s) ==
  /\ at[s] \notin Over \cup {"idle"} /\ kills < MaxKills
  /\ at' = [at EXCEPT ![s] = "killed"] /\ kills' = kills + 1
  /\ mux' = IF mux = s THEN None ELSE mux
  /\ UNCHANGED <<ask, devServer, entries, backend, swept>>

(* ---- the entry -------------------------------------------------------------- *)

(* A directory: the entries of all earlier sessions are removed, of those   *)
(* that still run as well.                                                  *)
SweepStaleDevEntries(s) ==
  /\ ask[s].dir
  /\ Move(s, "idle", "detect")
  /\ entries' = {} /\ swept' = swept \cup entries
  /\ UNCHANGED <<ask, devServer, mux, backend, kills>>

(* A file runs as it is, unless it is outside the project. *)
FileEntry(s) ==
  /\ ~ask[s].dir
  /\ Move(s, "idle", "runtime")
  /\ UNCHANGED <<ask, devServer, entries, mux, backend, swept, kills>>

(* detect_framework: Vite's dev server runs inside the runtime, other       *)
(* frameworks have one of their own, and without --hmr the project is built. *)
Detect(s) ==
  /\ \E to \in IF ask[s].hmr THEN {"write", "command"} ELSE {"write", "build"} : Move(s, "detect", to)
  /\ UNCHANGED <<ask, devServer, entries, mux, backend, swept, kills>>

Build(s) ==
  /\ Move(s, "build", "write")
  /\ UNCHANGED <<ask, devServer, entries, mux, backend, swept, kills>>

SpawnDevServer(s) ==
  /\ Move(s, "command", "await")
  /\ devServer' = [devServer EXCEPT ![s] = "starting"]
  /\ UNCHANGED <<ask, entries, mux, backend, swept, kills>>

(* child.kill ends the command; a server that the command has started goes  *)
(* on, or ends with it.                                                     *)
Kill(s) ==
  {IF devServer[s] = "starting" THEN "gone" ELSE IF devServer[s] = "up" THEN "lost" ELSE devServer[s]}
    \cup (IF ask[s].wrapped THEN {devServer[s]} ELSE {})

(* The URL counts, also of a server that has exited since. *)
AwaitUrl(s) ==
  /\ Move(s, "await", "write")
  /\ devServer[s] \in {"up", "lost"}
  /\ UNCHANGED <<ask, devServer, entries, mux, backend, swept, kills>>

(* It exited before a URL, or the 15 seconds have passed.                   *)
AwaitFails(s) ==
  /\ Move(s, "await", "failed")
  /\ devServer[s] \in {"starting", "gone"}
  /\ \E left \in Kill(s) : devServer' = [devServer EXCEPT ![s] = left]
  /\ UNCHANGED <<ask, entries, mux, backend, swept, kills>>

WriteDevEntry(s) ==
  /\ Move(s, "write", "runtime")
  /\ entries' = entries \cup {s}
  /\ UNCHANGED <<ask, devServer, mux, backend, swept, kills>>

(* ---- the backend ------------------------------------------------------------ *)

ResolveRuntime(s) ==
  /\ Move(s, "runtime", IF ask[s].inspect THEN "mux" ELSE "launch")
  /\ UNCHANGED <<ask, devServer, entries, mux, backend, swept, kills>>

SpawnMux(s) ==
  /\ Move(s, "mux", "launch")
  /\ mux = None /\ mux' = s
  /\ UNCHANGED <<ask, devServer, entries, backend, swept, kills>>

Launch(s) ==
  /\ Move(s, "launch", "run")
  /\ backend' = [backend EXCEPT ![s] = "running"]
  /\ UNCHANGED <<ask, devServer, entries, mux, swept, kills>>

(* A backend that cannot be started is an error only after the cleanup.     *)
LaunchFails(s) ==
  /\ Move(s, "launch", "drop")
  /\ UNCHANGED <<ask, devServer, entries, mux, backend, swept, kills>>

BackendEnds(s) ==
  /\ backend[s] = "running" /\ backend' = [backend EXCEPT ![s] = "ended"]
  /\ UNCHANGED <<at, ask, devServer, entries, mux, swept, kills>>

(* Mutant: the backend is started and not waited for. *)
StatusAtOnce(s) ==
  /\ Move(s, "run", "drop")
  /\ UNCHANGED <<ask, devServer, entries, mux, backend, swept, kills>>

Status(s) ==
  /\ Move(s, "run", "drop")
  /\ backend[s] = "ended"
  /\ UNCHANGED <<ask, devServer, entries, mux, backend, swept, kills>>

(* Mutant: the dev server is let go of without being killed. *)
DropDevServerDetached(s) ==
  /\ Move(s, "drop", "unlink")
  /\ UNCHANGED <<ask, devServer, entries, mux, backend, swept, kills>>

DropDevServer(s) ==
  /\ Move(s, "drop", "unlink")
  /\ \E left \in Kill(s) : devServer' = [devServer EXCEPT ![s] = left]
  /\ UNCHANGED <<ask, entries, mux, backend, swept, kills>>

RemoveEntry(s) ==
  /\ Move(s, "unlink", "release")
  /\ entries' = entries \ {s}
  /\ UNCHANGED <<ask, devServer, mux, backend, swept, kills>>

DropMux(s) ==
  /\ Move(s, "release", "exited")
  /\ mux' = IF mux = s THEN None ELSE mux
  /\ UNCHANGED <<ask, devServer, entries, backend, swept, kills>>

(* ---- the dev server ----------------------------------------------------------- *)

ServerPrints(s) ==
  /\ devServer[s] = "starting" /\ devServer' = [devServer EXCEPT ![s] = "up"]
  /\ UNCHANGED <<at, ask, entries, mux, backend, swept, kills>>

ServerExits(s) ==
  /\ devServer[s] \in {"starting", "up"}
  /\ devServer' = [devServer EXCEPT ![s] = IF @ = "up" THEN "lost" ELSE "gone"]
  /\ UNCHANGED <<at, ask, entries, mux, backend, swept, kills>>

(* Steps before the backend: outside or undetected, not buildable, no dev   *)
(* command, no entry written, no runtime, no free or valid DevTools port.   *)
StartFails(s) == \E from \in {"idle", "detect", "build", "command", "write", "runtime", "mux"} : Fail(s, from)
Starts(s) ==
  \/ SweepStaleDevEntries(s) \/ FileEntry(s) \/ Detect(s) \/ Build(s)
  \/ SpawnDevServer(s) \/ AwaitUrl(s) \/ AwaitFails(s) \/ WriteDevEntry(s)
  \/ ResolveRuntime(s) \/ SpawnMux(s) \/ LaunchFails(s) \/ StartFails(s)
TakesDown(s) == Status(s) \/ DropDevServer(s) \/ RemoveEntry(s) \/ DropMux(s)
External(s) == ServerPrints(s) \/ ServerExits(s) \/ Killed(s)

(* ---- properties ---------------------------------------------------------------- *)

Serves(s) == devServer[s] \in {"starting", "up"}

Clean(s) ==
  /\ at[s] = "exited"
  /\ Serves(s) => ask[s].wrapped
  /\ s \notin entries /\ mux # s

(* The dev server, where it is the command itself, is "killed on drop so it *)
(* can't outlive the desktop app" (desktop.rs:620-621).                     *)
NoServerLeft ==
  \A s \in Session : at[s] \in {"exited", "failed"} /\ ~ask[s].wrapped => ~Serves(s)
================================================================================
