-------------------------------- MODULE Hmr --------------------------------
(***************************************************************************)
(* Hot module replacement in a desktop app run from its source tree.  The   *)
(* watcher thread queues file events; the runner collects those that come   *)
(* within the debounce, then handles one file after the other: it looks the *)
(* script up, reads the file, asks V8 to replace the source, and at the end *)
(* of the batch tells the page and reloads the windows.  Modules are loaded *)
(* and files are saved at any time.  When the event loop runs dry but the   *)
(* app goes on, the runner is dropped at its current await and started anew.*)
(***************************************************************************)
EXTENDS Naturals, Sequences

CONSTANTS
  File,      \* watched source files, each a module of the app
  Main,      \* the main module
  Absent,    \* no file; a module that is not loaded
  MaxSaves   \* bound: changes of files

ASSUME HmrAssumption == Main \in File /\ Absent \notin File /\ MaxSaves \in Nat

VARIABLES
  disk,      \* disk[f]: the content of a file
  reading,   \* reading[f]: what the module loader has read, not compiled yet
  live,      \* live[f]: what V8 runs; script_ids holds f unless it is Absent
  queue,     \* changed_rx
  step,      \* where the runner is
  pending,   \* the changes of the batch
  cur,       \* the file it is handling, the source it has read, the attempts
  handled,   \* files replaced in this batch
  reload,    \* needs_reload
  saves,     \* the number of changes so far
  why,       \* history: the content the runner last gave up on, and why
  owed,      \* history: files replaced or to be reloaded since the last reload
  stuck,     \* history: files given up as blocked since the last reload
  dropped    \* history: a batch was lost since the last reload

code == <<reading, live>>
batch == <<step, pending, cur, handled, reload>>
history == <<why, owed, stuck, dropped>>
vars == <<disk, code, queue, batch, saves, history>>

(* A compilable content, one that does not parse, and one that V8 can only  *)
(* take by evaluating the module anew.                                      *)
Kind == {"good", "broken", "top"}
Content == [n : 0..MaxSaves, kind : Kind]
ASSUME AbsentAssumption == Absent \notin Content
Steps == {"boot", "idle", "debounce", "next", "read", "set", "sleep"}
Reason == {"none", "missed", "broken", "top", "blocked", "dropped", "gone"}
NoFile == [file |-> Absent, src |-> Absent, tries |-> 0]

TypeOK ==
  /\ disk \in [File -> Content \cup {Absent}]
  /\ reading \in [File -> Content \cup {Absent}]
  /\ live \in [File -> Content \cup {Absent}]
  /\ queue \in Seq([file : File, change : {"updated", "removed"}])
  /\ step \in Steps
  /\ pending \in [File -> {"none", "updated", "removed"}]
  /\ cur \in [file : File \cup {Absent}, src : Content \cup {Absent}, tries : 0..3]
  /\ step \in {"set", "sleep"} => cur.src \in Content
  /\ handled \subseteq File
  /\ reload \in BOOLEAN /\ dropped \in BOOLEAN
  /\ saves \in 0..MaxSaves
  /\ why \in [File -> [at : Content \cup {Absent}, reason : Reason]]
  /\ owed \subseteq File /\ stuck \subseteq File

NoBatch == [f \in File |-> "none"]

Init ==
  /\ disk = [f \in File |-> [n |-> 0, kind |-> "good"]]
  /\ reading = [f \in File |-> Absent]
  /\ live = [f \in File |-> Absent]
  /\ queue = <<>>
  /\ step = "boot"
  /\ pending = NoBatch /\ cur = NoFile
  /\ handled = {} /\ reload = FALSE
  /\ saves = 0
  /\ why = [f \in File |-> [at |-> Absent, reason |-> "none"]]
  /\ owed = {} /\ stuck = {} /\ dropped = FALSE

Goto(from, to) == step = from /\ step' = to
GiveUp(f, r) == why' = [why EXCEPT ![f] = [at |-> disk[f], reason |-> r]]

(* ---- files and modules ----------------------------------------------------- *)

Save(f, k) ==
  /\ saves < MaxSaves /\ saves' = saves + 1
  /\ disk' = [disk EXCEPT ![f] = [n |-> saves + 1, kind |-> k]]
  /\ queue' = Append(queue, [file |-> f, change |-> "updated"])
  /\ UNCHANGED <<code, batch, history>>

Remove(f) ==
  /\ saves < MaxSaves /\ saves' = saves + 1
  /\ disk[f] # Absent
  /\ disk' = [disk EXCEPT ![f] = Absent]
  /\ queue' = Append(queue, [file |-> f, change |-> "removed"])
  /\ UNCHANGED <<code, batch, history>>

(* A module is read when it is first imported, and compiled some time later. *)
(* (A load that fails leaves nothing behind.)                               *)
LoadModule(f) ==
  /\ live[f] = Absent /\ reading[f] = Absent
  /\ disk[f] # Absent /\ disk[f].kind # "broken"
  /\ reading' = [reading EXCEPT ![f] = disk[f]]
  /\ UNCHANGED <<disk, live, queue, batch, saves, history>>

(* Debugger.scriptParsed registers the script. *)
ScriptParsed(f) ==
  /\ reading[f] # Absent
  /\ reading' = [reading EXCEPT ![f] = Absent]
  /\ live' = [live EXCEPT ![f] = reading[f]]
  /\ UNCHANGED <<disk, queue, batch, saves, history>>

(* The main module has been evaluated; from now on the runner is polled.    *)
Boot ==
  /\ Goto("boot", "idle")
  /\ live[Main] # Absent
  /\ UNCHANGED <<disk, code, queue, pending, cur, handled, reload, saves, history>>

(* ---- the runner -------------------------------------------------------------- *)

(* Mutant: the first of several changes of one file counts. *)
CollectFirst ==
  /\ queue # <<>>
  /\ step \in {"idle", "debounce"} /\ step' = "debounce"
  /\ queue' = Tail(queue)
  /\ pending' = IF pending[Head(queue).file] # "none" THEN pending
                ELSE [pending EXCEPT ![Head(queue).file] = Head(queue).change]
  /\ UNCHANGED <<disk, code, cur, handled, reload, saves, history>>

(* The last of several changes of one file counts. *)
Collect ==
  /\ queue # <<>>
  /\ step \in {"idle", "debounce"} /\ step' = "debounce"
  /\ queue' = Tail(queue)
  /\ pending' = [pending EXCEPT ![Head(queue).file] = Head(queue).change]
  /\ UNCHANGED <<disk, code, cur, handled, reload, saves, history>>

DebounceEnds ==
  /\ Goto("debounce", "next")
  /\ queue = <<>>
  /\ UNCHANGED <<disk, code, queue, pending, cur, handled, reload, saves, history>>

(* A removed module asks for a reload, whatever has become of its file.     *)
HandleRemoved(f) ==
  /\ pending[f] = "removed"
  /\ Goto("next", "next")
  /\ pending' = [pending EXCEPT ![f] = "none"]
  /\ reload' = (reload \/ live[f] # Absent)
  /\ owed' = IF live[f] # Absent THEN owed \cup {f} ELSE owed
  /\ UNCHANGED <<disk, code, queue, cur, handled, saves, why, stuck, dropped>>

HandleUpdated(f) ==
  /\ pending[f] = "updated"
  /\ pending' = [pending EXCEPT ![f] = "none"]
  /\ \/ /\ disk[f] # Absent /\ live[f] # Absent
        /\ Goto("next", "read")
        /\ cur' = [file |-> f, src |-> Absent, tries |-> 0]
        /\ UNCHANGED why
     \/ /\ disk[f] = Absent \/ live[f] = Absent     \* no file, or no script yet
        /\ Goto("next", "next")
        /\ GiveUp(f, IF disk[f] = Absent THEN "gone" ELSE "missed")
        /\ UNCHANGED cur
  /\ UNCHANGED <<disk, code, queue, handled, reload, saves, owed, stuck, dropped>>

(* The file as it is now is read and transpiled. *)
ReadSource ==
  LET f == cur.file
      ok == disk[f] # Absent /\ disk[f].kind # "broken"
  IN /\ Goto("read", IF ok THEN "set" ELSE "next")
     /\ \/ ok /\ cur' = [cur EXCEPT !.src = disk[f], !.tries = 1] /\ UNCHANGED why
        \/ ~ok /\ cur' = NoFile /\ GiveUp(f, "broken")
     /\ UNCHANGED <<disk, code, queue, pending, handled, reload, saves, owed, stuck, dropped>>

(* Debugger.setScriptSource: V8 answers within the call. *)
Replace ==
  LET f == cur.file IN
  /\ Goto("set", "next")
  /\ cur.src.kind = "good"
  /\ live' = [live EXCEPT ![f] = cur.src]
  /\ handled' = handled \cup {f} /\ owed' = owed \cup {f}
  /\ cur' = NoFile
  /\ UNCHANGED <<disk, reading, queue, pending, reload, saves, why, stuck, dropped>>

NeedsTopLevel ==
  LET f == cur.file IN
  /\ Goto("set", "next")
  /\ cur.src.kind = "top"
  /\ reload' = TRUE /\ owed' = owed \cup {f}
  /\ why' = [why EXCEPT ![f] = [at |-> cur.src, reason |-> "top"]]
  /\ cur' = NoFile
  /\ UNCHANGED <<disk, code, queue, pending, handled, saves, stuck, dropped>>

(* Mutant: a blocked module is tried for as long as it takes. *)
BlockedForever ==
  /\ Goto("set", "sleep")
  /\ cur.src.kind = "good"
  /\ UNCHANGED <<disk, code, queue, pending, cur, handled, reload, saves, history>>

(* A function of the module is active: two more attempts, then it is skipped. *)
Blocked ==
  LET f == cur.file IN
  /\ Goto("set", IF cur.tries <= 2 THEN "sleep" ELSE "next")
  /\ cur.src.kind = "good"
  /\ \/ /\ cur.tries <= 2
        /\ cur' = [cur EXCEPT !.tries = @ + 1]
        /\ UNCHANGED <<why, stuck>>
     \/ /\ cur.tries > 2
        /\ cur' = NoFile /\ stuck' = stuck \cup {f}
        /\ why' = [why EXCEPT ![f] = [at |-> cur.src, reason |-> "blocked"]]
  /\ UNCHANGED <<disk, code, queue, pending, handled, reload, saves, owed, dropped>>

Retry ==
  /\ Goto("sleep", "set")
  /\ UNCHANGED <<disk, code, queue, pending, cur, handled, reload, saves, history>>

(* The page is told what was replaced, and the windows are reloaded.        *)
Finish ==
  LET reloads == reload \/ handled # {} IN
  /\ pending = NoBatch
  /\ Goto("next", "idle")
  /\ owed' = IF reloads THEN {} ELSE owed
  /\ stuck' = IF reloads THEN {} ELSE stuck
  /\ dropped' = (dropped /\ ~reloads)
  /\ handled' = {} /\ reload' = FALSE
  /\ UNCHANGED <<disk, code, queue, pending, cur, saves, why>>

(***************************************************************************)
(* The event loop has nothing left to do, but beforeunload or beforeExit    *)
(* goes on: select! drops the future of run(), with the batch in it.        *)
(***************************************************************************)
EventLoopDry ==
  /\ step \in {"debounce", "read", "sleep"} /\ step' = "idle"
  /\ why' = [f \in File |-> IF pending[f] # "none" \/ cur.file = f
                            THEN [at |-> disk[f], reason |-> "dropped"] ELSE why[f]]
  /\ pending' = NoBatch /\ cur' = NoFile /\ handled' = {} /\ reload' = FALSE
  /\ dropped' = TRUE
  /\ UNCHANGED <<disk, code, queue, saves, owed, stuck>>

Runner ==
  \/ Collect \/ DebounceEnds \/ ReadSource
  \/ Replace \/ NeedsTopLevel \/ Blocked \/ Retry \/ Finish
  \/ \E f \in File : HandleRemoved(f) \/ HandleUpdated(f)

Next ==
  \/ \E f \in File : \/ \E k \in Kind : Save(f, k)
                     \/ Remove(f) \/ LoadModule(f) \/ ScriptParsed(f)
  \/ Boot \/ Runner \/ EventLoopDry

(* The runner is polled by the worker's event loop and every await in it    *)
(* ends: a timer, a file read, an answer of V8.                             *)
Spec == Init /\ [][Next]_vars /\ WF_vars(Runner)

-----------------------------------------------------------------------------
(* A change of f that the runner will still look at. *)
Awaited(f) ==
  \/ \E i \in DOMAIN queue : queue[i] = [file |-> f, change |-> "updated"]
  \/ pending[f] = "updated"
  \/ cur.file = f /\ (step = "read" \/ cur.src = disk[f])

(* When a batch is over the windows have been reloaded after everything     *)
(* that was replaced or asked for a reload, unless a batch was dropped      *)
(* meanwhile (hmr.rs:399-424).                                              *)
WindowsFollow == step = "idle" => owed = {} \/ dropped

(* No change is lost between the watcher, the debounce and the read of the  *)
(* file: a loaded module that is not what its file holds has a change still *)
(* to be handled, or the runner gave up on this very content; and the       *)
(* windows show what was replaced.  A change of a module that is not loaded *)
(* yet is missed only after the start, never for the main module            *)
(* (hmr.rs:364-427, 442-470, lib.rs:740-790).                               *)
StaleExplained ==
  /\ WindowsFollow
  /\ \A f \in File :
       live[f] # Absent /\ disk[f] \notin {Absent, live[f]} =>
         \/ Awaited(f)
         \/ why[f].at = disk[f] /\ (why[f].reason = "missed" => f # Main)

(* When no file changes any more, every batch comes to its end, and every   *)
(* loaded module runs what its file holds or has been given up on           *)
(* (hmr.rs:364-527).                                                        *)
Converges ==
  <>[](step # "boot" => /\ step = "idle" /\ queue = <<>>
                        /\ \A f \in File : live[f] # Absent =>
                             disk[f] \in {Absent, live[f]} \/ why[f].at = disk[f])
=============================================================================
