----------------------------- MODULE TempTrees -----------------------------
(***************************************************************************)
(* The temp trees artifacts run from.  A launch first reaps the trees that  *)
(* dead launches left, then extracts its own under a fresh random name,     *)
(* writes its pid into `.inka-owner` last, and runs from the tree until it  *)
(* exits.  A pid may be used again after its process died.                  *)
(***************************************************************************)
EXTENDS Naturals, FiniteSets

CONSTANTS
  Pid,    \* pids
  Name    \* random names, enough for one live and one left tree per pid

VARIABLES
  launch, \* the step of each launch
  tree,   \* tree[p]: the name of the tree launch p works in, or none of them
  state,  \* state[n]: what is on disk under a name
  owner,  \* owner[n]: the pid in its marker
  old     \* names older than STALE_LEGACY_AGE

tempVars == <<launch, tree, state, owner, old>>

None == "none"

ASSUME NoneAssumption == None \notin Name /\ None \notin Pid

LaunchSteps == {"off", "sweep", "extract", "mark", "run", "drop"}

TempTypeOK ==
  /\ launch \in [Pid -> LaunchSteps]
  /\ tree \in [Pid -> Name \cup {None}]
  /\ state \in [Name -> {"absent", "bare", "marked", "garbled"}]
  /\ owner \in [Name -> Pid \cup {None}]
  /\ \A n \in Name : owner[n] # None <=> state[n] = "marked"
  /\ old \subseteq Name

TempInit ==
  /\ launch = [p \in Pid |-> "off"]
  /\ tree = [p \in Pid |-> None]
  /\ state = [n \in Name |-> "absent"]
  /\ owner = [n \in Name |-> None]
  /\ old = {}

AlivePids == {p \in Pid : launch[p] # "off"}
LaunchGoto(p, from, to) == launch[p] = from /\ launch' = [launch EXCEPT ![p] = to]

Start(p) ==
  /\ LaunchGoto(p, "off", "sweep")
  /\ UNCHANGED <<tree, state, owner, old>>

(* Mutant: a marked tree is reaped when it is old, whoever owns it.         *)
ReapableTreeByAge(n) == state[n] # "absent" /\ (n \in old \/ owner[n] \notin AlivePids \cup {None})

(* Mutant: a marked tree is never reaped. *)
ReapableUnmarked(n) == state[n] = "bare" /\ n \in old

(* A marked tree goes when its pid is dead, one without a marker when it is *)
(* clearly old.                                                             *)
ReapableTree(n) ==
  \/ state[n] = "marked" /\ owner[n] \notin AlivePids
  \/ state[n] = "bare" /\ n \in old

Sweep(p) ==
  LET gone == {n \in Name : ReapableTree(n)} IN
  /\ LaunchGoto(p, "sweep", "extract")
  /\ state' = [n \in Name |-> IF n \in gone THEN "absent" ELSE state[n]]
  /\ owner' = [n \in Name |-> IF n \in gone THEN None ELSE owner[n]]
  /\ old' = old \ gone
  /\ UNCHANGED tree

(* A directory of that name must not exist; create_new never overwrites.    *)
ExtractTree(p, n) ==
  /\ state[n] = "absent" /\ \A q \in Pid : tree[q] # n
  /\ LaunchGoto(p, "extract", "mark")
  /\ tree' = [tree EXCEPT ![p] = n]
  /\ state' = [state EXCEPT ![n] = "bare"]
  /\ UNCHANGED <<owner, old>>

(* A marker that cannot be written is ignored. *)
Mark(p) ==
  /\ LaunchGoto(p, "mark", "run")
  /\ \/ /\ state[tree[p]] = "bare"
        /\ state' = [state EXCEPT ![tree[p]] = "marked"]
        /\ owner' = [owner EXCEPT ![tree[p]] = p]
     \/ UNCHANGED <<state, owner>>
  /\ UNCHANGED <<tree, old>>

(* Killed while it writes the marker: no pid can be read from it.           *)
MarkTorn(p) ==
  /\ LaunchGoto(p, "mark", "off")
  /\ state[tree[p]] = "bare"
  /\ state' = [state EXCEPT ![tree[p]] = "garbled"]
  /\ tree' = [tree EXCEPT ![p] = None]
  /\ UNCHANGED <<owner, old>>

(* The module has ended: Drop, or the atexit hook, removes the tree.        *)
Drop(p) ==
  /\ LaunchGoto(p, "run", "drop")
  /\ state' = [state EXCEPT ![tree[p]] = "absent"]
  /\ owner' = [owner EXCEPT ![tree[p]] = None]
  /\ old' = old \ {tree[p]}
  /\ UNCHANGED tree

(* Exit after the cleanup, or death at any earlier step without it.         *)
StopLaunch(p) ==
  /\ p \in AlivePids
  /\ launch' = [launch EXCEPT ![p] = "off"]
  /\ tree' = [tree EXCEPT ![p] = None]
  /\ UNCHANGED <<state, owner, old>>

TreeGrowsOld(n) ==
  /\ state[n] # "absent"
  /\ old' = old \cup {n}
  /\ UNCHANGED <<launch, tree, state, owner>>

TempNext ==
  \/ \E p \in Pid :
       \/ Start(p) \/ Sweep(p) \/ Mark(p) \/ MarkTorn(p) \/ Drop(p) \/ StopLaunch(p)
       \/ \E n \in Name : ExtractTree(p, n)
  \/ \E n \in Name : TreeGrowsOld(n)

TempSpec == TempInit /\ [][TempNext]_tempVars

-----------------------------------------------------------------------------
(* However old it gets and whichever launches sweep meanwhile, a launch that *)
(* has written its marker keeps its tree to the end, also when its pid is   *)
(* one an earlier, killed launch had; without a marker it keeps the tree for *)
(* STALE_LEGACY_AGE (main.rs:183-230, 289-343).                             *)
RunningTreeKept ==
  [][\A p \in Pid : launch[p] \in {"mark", "run"} /\ state[tree[p]] # "absent" /\ ~Drop(p) =>
       \/ state'[tree[p]] # "absent"
       \/ state[tree[p]] = "bare" /\ tree[p] \in old]_tempVars

(* A sweep leaves nothing behind of launches that were killed before it,    *)
(* except under a pid that is in use again, with a marker that cannot be    *)
(* read, or without a marker and not old (main.rs:195-230).                 *)
DeadTreesReaped ==
  [][\A p \in Pid : Sweep(p) =>
       \A n \in Name : state'[n] # "absent" =>
         \/ owner[n] \in AlivePids
         \/ state[n] = "garbled"
         \/ state[n] = "bare" /\ n \notin old]_tempVars
=============================================================================
