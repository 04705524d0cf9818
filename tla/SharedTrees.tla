---------------------------- MODULE SharedTrees ----------------------------
(***************************************************************************)
(* Two directories every packaging command of a machine shares: the         *)
(* downloaded laufey backend and the CEF runtime apps are linked to.  Both  *)
(* are filled aside, then what lies at the name is removed and the new tree *)
(* is renamed there.  A removal holds the tree it opened, item by item, and *)
(* that tree may have another name by now, or the name another tree.        *)
(***************************************************************************)
EXTENDS FiniteSets

CONSTANTS
  App,  \* packaging commands, one per app directory
  Tree, \* bound: identities of directories
  None  \* no directory

ASSUME TreesAssumption == None \notin Tree

Cache == {"laufey", "cef"}
Runtime == {"lib", "pak"}           \* libcef, and the resources beside it
CacheItem == Runtime \cup {"exe", "mark"}

VARIABLES
  ships, \* what the chosen backend has beside its executable: CEF, or nothing
  stored, \* what each directory holds
  name, \* the directory at the shared name of each cache
  mine, \* the directory a command fills aside
  rm,   \* the directory a command removes
  pc    \* where each command is

Whole == [laufey |-> {"exe", "mark"} \cup ships, cef |-> Runtime \cup {"mark"}]

treeVars == <<ships, stored, name, mine, rm, pc>>

TreesInit ==
  /\ ships \in {Runtime, {}}
  /\ stored = [c \in Cache |-> [t \in Tree |-> {}]]
  /\ name = [c \in Cache |-> None]
  /\ mine = [a \in App |-> None] /\ rm = [a \in App |-> None]
  /\ pc = [a \in App |-> "idle"]

At(a, l) == pc[a] = l
Goto(a, l) == pc' = [pc EXCEPT ![a] = l]
Held(c) == IF name[c] = None THEN {} ELSE stored[c][name[c]]
Fresh(c) == {t \in Tree : t # name[c] /\ \A a \in App : t \notin {mine[a], rm[a]}}

(* resolve_backend asks for the executable only, shared_installed for the   *)
(* marker and libcef.                                                       *)
Trusted(c) == IF c = "laufey" THEN "exe" \in Held(c) ELSE {"mark", "lib"} \subseteq Held(c)

Clearing == [laufey |-> "clear backend", cef |-> "clear shared"]
Removing == [laufey |-> "remove backend", cef |-> "remove shared"]
Publishing == [laufey |-> "publish backend", cef |-> "publish shared"]

(* A directory aside is filled with `items`. *)
Fill(a, c, items) ==
  LET t == CHOOSE x \in Fresh(c) : TRUE
  IN /\ Fresh(c) # {}
     /\ mine' = [mine EXCEPT ![a] = t]
     /\ stored' = [stored EXCEPT ![c][t] = items]
     /\ Goto(a, Clearing[c])
     /\ UNCHANGED <<ships, name, rm>>

OpenOld(a, c) ==
  /\ At(a, Clearing[c])
  /\ IF name[c] = None THEN Goto(a, Publishing[c]) /\ UNCHANGED rm
     ELSE Goto(a, Removing[c]) /\ rm' = [rm EXCEPT ![a] = name[c]]
  /\ UNCHANGED <<ships, stored, name, mine>>

RemoveItem(a, c) ==
  /\ At(a, Removing[c])
  /\ \E i \in stored[c][rm[a]] : stored' = [stored EXCEPT ![c][rm[a]] = @ \ {i}]
  /\ UNCHANGED <<ships, name, mine, rm, pc>>

(* The last of the removal takes the name, if the name still is that tree. *)
Removed(a, c) ==
  /\ At(a, Removing[c]) /\ stored[c][rm[a]] = {}
  /\ name' = [name EXCEPT ![c] = IF @ = rm[a] THEN None ELSE @]
  /\ rm' = [rm EXCEPT ![a] = None]
  /\ Goto(a, Publishing[c])
  /\ UNCHANGED <<ships, stored, mine>>

(* rename puts a directory at a free name or over an empty directory. *)
Publish(a, c, then, else) ==
  /\ At(a, Publishing[c])
  /\ IF Held(c) = {} THEN name' = [name EXCEPT ![c] = mine[a]] /\ Goto(a, then) /\ UNCHANGED stored
     ELSE UNCHANGED name /\ Goto(a, else) /\ stored' = [stored EXCEPT ![c][mine[a]] = {}]
  /\ mine' = [mine EXCEPT ![a] = None]
  /\ UNCHANGED <<ships, rm>>

(* What a dead command had aside is found by nobody: it carries a pid or a  *)
(* time in its name.                                                        *)
Forget(a) ==
  /\ mine' = [mine EXCEPT ![a] = None] /\ rm' = [rm EXCEPT ![a] = None]
  /\ stored' = [c \in Cache |-> [t \in Tree |-> IF t = mine[a] /\ t # name[c] THEN {} ELSE stored[c][t]]]
=============================================================================
