------------------------------ MODULE Launcher ------------------------------
(***************************************************************************)
(* Artifacts started by the launcher, on the runtime tuples installed in    *)
(* the store.  A launch resolves the newest tuple its manifest allows and,  *)
(* when it has extracted its temp tree (see TempTrees), loads it and checks *)
(* that it is the build its file name says.  The store may change between   *)
(* the two.                                                                 *)
(***************************************************************************)
EXTENDS Versions, FiniteSets

CONSTANTS
  Tuple,     \* the versions there are
  Dir,       \* runtime directories
  View,      \* the search paths an environment gives: sequences of Dir
  Artifact,  \* manifests of the artifacts
  Proc,      \* launcher processes
  Damaged,   \* the content of a file that no process can load
  Missing    \* no file

Build == Tuple \cup {Damaged}

ASSUME LauncherAssumption ==
  /\ Tuple \subseteq Version /\ Damaged \notin Version /\ Missing \notin Version
  /\ Damaged # Missing
  /\ IsFiniteSet(Tuple) /\ View \subseteq Seq(Dir)
  /\ Tuple # {} /\ View # {} /\ Artifact # {}

VARIABLES
  store,     \* store[d][v]: the content of libinka_runtime-<v> in directory d
  pc,        \* the step of each launch in main
  job,       \* per launch: its manifest, search path and prerelease policy
  chosen,    \* per launch: the tuple it resolved and the directory it is in
  image      \* per launch: the build it has loaded

procs == <<pc, job, chosen, image>>

Steps == {"off", "resolve", "load", "run"}
Job == [m : Artifact, view : View, allow : BOOLEAN]

(* A process that is not alive has no state worth telling apart.            *)
Idle == CHOOSE j \in Job : TRUE
NoTuple == <<NoVersion, Missing>>

LauncherTypeOK ==
  /\ store \in [Dir -> [Tuple -> Build \cup {Missing}]]
  /\ pc \in [Proc -> Steps]
  /\ job \in [Proc -> Job]
  /\ chosen \in [Proc -> (Tuple \X Dir) \cup {NoTuple}]
  /\ \A p \in Proc : pc[p] \in {"load", "run"} <=> chosen[p] # NoTuple
  /\ image \in [Proc -> Build \cup {Missing}]

LauncherInit ==
  /\ store = [d \in Dir |-> [v \in Tuple |-> Missing]]
  /\ pc = [p \in Proc |-> "off"]
  /\ job = [p \in Proc |-> Idle]
  /\ chosen = [p \in Proc |-> NoTuple]
  /\ image = [p \in Proc |-> Missing]

Alive == {p \in Proc : pc[p] # "off"}
Goto(p, from, to) == pc[p] = from /\ pc' = [pc EXCEPT ![p] = to]

Start(p, j) ==
  /\ Goto(p, "off", "resolve")
  /\ job' = [job EXCEPT ![p] = j]
  /\ UNCHANGED <<store, chosen, image>>

(* ---- resolve_runtime ------------------------------------------------------ *)

Installed(view) ==
  {v \in Tuple : \E i \in DOMAIN view : store[view[i]][v] # Missing}

(* Of the directories that hold the newest eligible tuple, the first.       *)
Resolution(m, allow, view) ==
  LET v == Newest(Eligible(m, allow, Installed(view)))
      at == {i \in DOMAIN view : v # NoVersion /\ store[view[i]][v] # Missing}
  IN IF v = NoVersion THEN NoTuple
     ELSE <<v, view[CHOOSE i \in at : \A k \in at : i <= k]>>

(* INKA_CHANNEL=beta in the environment is the job's `allow`.               *)
Resolve(p) ==
  LET j == job[p]
      r == Resolution(j.m, WantsPrerelease(j.m) \/ j.allow, j.view)
  IN /\ ~j.m.malformed /\ r # NoTuple
     /\ Goto(p, "resolve", "load")
     /\ chosen' = [chosen EXCEPT ![p] = r]
     /\ UNCHANGED <<store, job, image>>

(* ---- load_and_run_dir ------------------------------------------------------ *)

(* Mutant: the self-reported version is not compared with the file name.    *)
LoadUnchecked(p) ==
  LET b == store[chosen[p][2]][chosen[p][1]] IN
  /\ Goto(p, "load", "run")
  /\ b \in Tuple
  /\ image' = [image EXCEPT ![p] = b]
  /\ UNCHANGED <<store, job, chosen>>

Load(p) ==
  LET b == store[chosen[p][2]][chosen[p][1]] IN
  /\ Goto(p, "load", "run")
  /\ b = chosen[p][1]
  /\ image' = [image EXCEPT ![p] = b]
  /\ UNCHANGED <<store, job, chosen>>

(* The launch ends: with exit code 3 (manifest, no tuple), 4 (the tuple     *)
(* reports another version than its file name), 1 (nothing to extract or to *)
(* load), its module's own, or killed.                                      *)
Stop(p) ==
  /\ p \in Alive
  /\ pc' = [pc EXCEPT ![p] = "off"]
  /\ job' = [job EXCEPT ![p] = Idle]
  /\ chosen' = [chosen EXCEPT ![p] = NoTuple]
  /\ image' = [image EXCEPT ![p] = Missing]
  /\ UNCHANGED store

LauncherNext ==
  \E p \in Proc :
    \/ \E j \in Job : Start(p, j)
    \/ Resolve(p) \/ Load(p) \/ Stop(p)

-----------------------------------------------------------------------------
(* What runs is the tuple the launch resolved, whatever updates replaced the *)
(* file meanwhile or skipped verification before: it reports its file name's *)
(* version, the manifest allows it, and it is a prerelease only for an      *)
(* artifact or an environment that opted in (main.rs:345-368, 397-448, 520-523). *)
RunsWhatItAllows ==
  \A p \in Proc : pc[p] = "run" =>
    LET j == job[p] IN
    /\ ~j.m.malformed /\ image[p] = chosen[p][1]
    /\ ConstraintAllows(j.m, image[p])
    /\ IsPrerelease(image[p]) => j.allow \/ WantsPrerelease(j.m)
=============================================================================
