------------------------------- MODULE MCTrees -------------------------------
(***************************************************************************)
(* The two kinds of trees on disk that launches share.  They have no state  *)
(* in common: one run checks them side by side, and only one of them moves. *)
(* Launches are alike, but for the payload each of them resolves.           *)
(***************************************************************************)
EXTENDS PayloadCache, TempTrees, TLC

VARIABLE topic  \* the trees that are tried

Launches == Permutations(Proc)

TreesInit == topic \in {"payload", "temp"} /\ Init /\ TempInit
TreesNext ==
  \/ topic = "payload" /\ Next /\ UNCHANGED <<topic, tempVars>>
  \/ topic = "temp" /\ TempNext /\ UNCHANGED <<topic, vars>>
TreesSpec == TreesInit /\ [][TreesNext]_<<topic, vars, tempVars>>
==============================================================================
