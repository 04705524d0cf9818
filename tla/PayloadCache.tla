---------------------------- MODULE PayloadCache ----------------------------
(***************************************************************************)
(* The per-user payload cache of the desktop shim.  Every launch of an app  *)
(* looks for `<cache>/<hash>/.ok`; on a miss it extracts the payload into   *)
(* `<hash>.tmp<pid>` and renames that over `<hash>`; it then takes          *)
(* `<hash>/.lock` for the life of the process and prunes what other         *)
(* launches left.  Launches of any apps run concurrently and may die        *)
(* between any two steps.                                                   *)
(***************************************************************************)
EXTENDS Naturals, FiniteSets

CONSTANTS
  Proc,      \* process ids
  Key,       \* payload hashes
  Nobody,    \* an unlocked payload
  Keep,      \* CACHE_KEEP
  MaxLive    \* bound: processes alive at the same time

ASSUME CacheAssumption ==
  /\ Keep \in Nat /\ MaxLive \in Nat
  /\ Nobody \notin Proc /\ Key # {}

VARIABLES
  pc, key,   \* per process: its step in resolve_payload and its payload
  root,      \* root[k]: the directory <hash>
  lock,      \* lock[k]: who holds the lock of that directory
  stage,     \* stage[k][p]: the directory <hash>.tmp<pid>
  aged,      \* processes whose extraction has outlived STALE_TMP_AGE
  listed,    \* per process: staging directories its prune has listed and not judged
  prey,      \* per process: the staging directory its prune is removing
  moved,     \* processes whose prey was renamed to <hash> under their removal
  doomed,    \* per process: payloads beyond Keep its prune still has to visit
  target,    \* per process: the payload its prune is removing
  crowded,   \* history: processes that were not alone since their launch
  haunted    \* history: extractions begun while a prune removed that very name

vars == <<pc, key, root, lock, stage, aged, listed, prey, moved, doomed, target, crowded, haunted>>
disk == <<root, lock, stage, aged>>
sweeping == <<listed, prey, moved>>
own == <<key, doomed, target, crowded>>

(* "holed" and "hollow" hold a `.ok` marker but not every payload file;     *)
(* "torn" is what is left of a removal that has already taken the marker.   *)
RootState == {"none", "complete", "hollow", "torn"}
StageState == {"none", "part", "whole", "holed"}
Steps == {"off", "probe", "clean", "extract", "drop", "dropping", "activate",
          "lock", "prune", "sweep", "reap", "reaping", "judge", "unlock", "remove", "removing", "run"}

Extracting == {"extract", "drop", "dropping", "activate"}

TypeOK ==
  /\ pc \in [Proc -> Steps] /\ key \in [Proc -> Key]
  /\ root \in [Key -> RootState]
  /\ lock \in [Key -> Proc \cup {Nobody}]
  /\ stage \in [Key -> [Proc -> StageState]]
  /\ aged \subseteq Proc /\ crowded \subseteq Proc /\ haunted \subseteq Proc
  /\ listed \in [Proc -> SUBSET (Key \X Proc)] /\ prey \in [Proc -> Key \X Proc]
  /\ moved \subseteq Proc
  /\ doomed \in [Proc -> SUBSET Key] /\ target \in [Proc -> Key]

(* The memory of a process that is not alive. *)
AnyKey == CHOOSE k \in Key : TRUE
AnyPrey(p) == <<AnyKey, p>>

Init ==
  /\ pc = [p \in Proc |-> "off"]
  /\ key = [p \in Proc |-> AnyKey]
  /\ root = [k \in Key |-> "none"]
  /\ lock = [k \in Key |-> Nobody]
  /\ stage = [k \in Key |-> [p \in Proc |-> "none"]]
  /\ aged = {} /\ haunted = {} /\ moved = {}
  /\ listed = [p \in Proc |-> {}] /\ prey = [p \in Proc |-> AnyPrey(p)]
  /\ doomed = [p \in Proc |-> {}]
  /\ target = key
  /\ crowded = {}

Alive == {p \in Proc : pc[p] # "off"}
Goto(p, from, to) == pc[p] = from /\ pc' = [pc EXCEPT ![p] = to]

(* The launches that are removing <hash>.tmp<pid>, or about to.             *)
Reapers(k, q) == {r \in Proc : pc[r] \in {"reap", "reaping"} /\ prey[r] = <<k, q>>}

Marked(k) == root[k] \in {"complete", "hollow"}

Launch(p, k) ==
  /\ Cardinality(Alive) < MaxLive
  /\ Goto(p, "off", "probe")
  /\ key' = [key EXCEPT ![p] = k]
  /\ crowded' = IF Alive = {} THEN {} ELSE Alive \cup {p}
  /\ UNCHANGED <<disk, sweeping, doomed, target, haunted>>

Probe(p) ==
  /\ Goto(p, "probe", IF Marked(key[p]) THEN "lock" ELSE "clean")
  /\ UNCHANGED <<disk, sweeping, own, haunted>>

(* ---- miss: extract, replace the root, activate ------------------------- *)

SetStage(p, s) == stage' = [stage EXCEPT ![key[p]][p] = s]

CleanStaging(p) ==
  /\ Goto(p, "clean", "extract")
  /\ SetStage(p, "part")
  /\ aged' = aged \ {p}
  /\ haunted' = IF Reapers(key[p], p) = {} THEN haunted \ {p} ELSE haunted \cup {p}
  /\ UNCHANGED <<root, lock, sweeping, own>>

(***************************************************************************)
(* When another launch has reaped the staging directory, the extraction     *)
(* fails (Stop), unless the next entry lies in a subdirectory:              *)
(* create_dir_all then makes the directory anew, without the entries        *)
(* written before.                                                          *)
(***************************************************************************)
Extract(p) ==
  /\ Goto(p, "extract", "drop")
  /\ SetStage(p, IF stage[key[p]][p] = "part" THEN "whole" ELSE "holed")
  /\ UNCHANGED <<root, lock, aged, sweeping, own, haunted>>

(***************************************************************************)
(* remove_dir_all deletes entry by entry in directory order: the marker and *)
(* the lock file may go first or last.                                      *)
(***************************************************************************)
BeginRemove(k) ==
  /\ root' \in {[root EXCEPT ![k] = s] : s \in
                  IF Marked(k) THEN {"hollow", "torn"} ELSE {root[k]}}
  /\ lock' \in {lock, [lock EXCEPT ![k] = Nobody]}

EndRemove(k) ==
  /\ root' = [root EXCEPT ![k] = IF @ = "complete" THEN @ ELSE "none"]
  /\ lock' = [lock EXCEPT ![k] = IF root[k] = "complete" THEN @ ELSE Nobody]

DropRoot(p) ==
  /\ Goto(p, "drop", "dropping")
  /\ BeginRemove(key[p])
  /\ UNCHANGED <<stage, aged, sweeping, own, haunted>>

DroppedRoot(p) ==
  /\ Goto(p, "dropping", "activate")
  /\ EndRemove(key[p])
  /\ UNCHANGED <<stage, aged, sweeping, own, haunted>>

(* Mutant: the staging directory is copied, the marker in any order.        *)
ActivateByCopy(p) ==
  /\ Goto(p, "activate", "lock")
  /\ root' \in {[root EXCEPT ![key[p]] = s] : s \in {"complete", "hollow"}}
  /\ SetStage(p, "none")
  /\ UNCHANGED <<lock, aged, sweeping, own, haunted>>

(***************************************************************************)
(* rename fails (Stop) onto a directory that is not empty, or from a        *)
(* missing one.  A removal that has opened the staging directory goes on in *)
(* it under its new name.                                                   *)
(***************************************************************************)
Activate(p) ==
  /\ Goto(p, "activate", "lock")
  /\ root[key[p]] = "none" /\ stage[key[p]][p] # "none"
  /\ root' = [root EXCEPT ![key[p]] =
                IF stage[key[p]][p] = "whole" THEN "complete" ELSE "hollow"]
  /\ SetStage(p, "none")
  /\ moved' = moved \cup {r \in Reapers(key[p], p) : pc[r] = "reaping"}
  /\ aged' = aged \ {p} /\ haunted' = haunted \ {p}
  /\ UNCHANGED <<lock, listed, prey, own>>

(* ---- lock_payload: a lock that is not obtained is not an error ---------- *)

LockPayload(p) ==
  /\ Goto(p, "lock", "prune")
  /\ lock' = [lock EXCEPT ![key[p]] =
                IF @ = Nobody /\ root[key[p]] # "none" THEN p ELSE @]
  /\ UNCHANGED <<root, stage, aged, sweeping, own, haunted>>

(* ---- prune_cache -------------------------------------------------------- *)

Others(p) == {k \in Key \ {key[p]} : root[k] # "none"}

Staged == {s \in Key \X Proc : stage[s[1]][s[2]] # "none"}

(* Mutant: one payload beyond Keep is left. *)
ScanCacheOneShort(p) ==
  /\ Goto(p, "prune", "sweep")
  /\ listed' = [listed EXCEPT ![p] = Staged]
  /\ \E D \in SUBSET Others(p) :
       /\ Cardinality(D) + Keep + 1 = Cardinality(Others(p)) \/ D = {}
       /\ D = {} => Cardinality(Others(p)) <= Keep + 1
       /\ doomed' = [doomed EXCEPT ![p] = D]
  /\ UNCHANGED <<key, disk, prey, moved, target, crowded, haunted>>

(***************************************************************************)
(* The cache directory is listed.  Which payloads are the oldest beyond     *)
(* Keep is left open.                                                       *)
(***************************************************************************)
ScanCache(p) ==
  /\ Goto(p, "prune", "sweep")
  /\ listed' = [listed EXCEPT ![p] = Staged]
  /\ \E D \in SUBSET Others(p) :
       /\ Cardinality(D) + Keep = Cardinality(Others(p)) \/ D = {}
       /\ D = {} => Cardinality(Others(p)) <= Keep
       /\ doomed' = [doomed EXCEPT ![p] = D]
  /\ UNCHANGED <<key, disk, prey, moved, target, crowded, haunted>>

(* Mutant: the liveness of the extracting process is not looked at.         *)
ReapableAlways(k, q) == stage[k][q] # "none" /\ k \in Key /\ q \in Proc

Reapable(k, q) == stage[k][q] # "none" /\ (q \notin Alive \/ q \in aged)

(* What an earlier process of a live pid left, maybe long ago.              *)
Leftover(k, q) ==
  stage[k][q] # "none" /\ q \in Alive /\ ~(pc[q] \in Extracting /\ key[q] = k)

(***************************************************************************)
(* One staging directory is judged by its pid and its age ...               *)
(***************************************************************************)
JudgeStaging(p, k, q) ==
  /\ <<k, q>> \in listed[p] /\ pc[p] = "sweep"
  /\ listed' = [listed EXCEPT ![p] = @ \ {<<k, q>>}]
  /\ \/ /\ Reapable(k, q) \/ Leftover(k, q)
        /\ Goto(p, "sweep", "reap")
        /\ prey' = [prey EXCEPT ![p] = <<k, q>>]
     \/ ~Reapable(k, q) /\ UNCHANGED <<pc, prey>>
  /\ UNCHANGED <<disk, moved, own, haunted>>

(***************************************************************************)
(* ... and then removed entry by entry.  By then the pid may have been used *)
(* again, and a new extraction may be writing there.                        *)
(***************************************************************************)
BeginReap(p) ==
  LET k == prey[p][1]  q == prey[p][2] IN
  /\ Goto(p, "reap", "reaping")
  /\ \/ UNCHANGED stage
     \/ stage[k][q] # "none" /\ stage' = [stage EXCEPT ![k][q] = "holed"]
  /\ UNCHANGED <<root, lock, aged, sweeping, own, haunted>>

(***************************************************************************)
(* The directory itself goes last; that fails, and is ignored, when an      *)
(* extraction has written to it meanwhile.  Of one that was renamed to      *)
(* <hash>, any of the payload, the marker and the lock file may be gone.    *)
(***************************************************************************)
EndReap(p) ==
  LET k == prey[p][1]  q == prey[p][2] IN
  /\ Goto(p, "reaping", "sweep")
  /\ \/ stage' = [stage EXCEPT ![k][q] = "none"]
     \/ /\ pc[q] = "extract" /\ key[q] = k /\ stage[k][q] # "none"
        /\ stage' = [stage EXCEPT ![k][q] = "holed"]
  /\ \/ UNCHANGED <<root, lock>>
     \/ p \in moved /\ BeginRemove(k)
  /\ moved' = moved \ {p}
  /\ prey' = [prey EXCEPT ![p] = AnyPrey(p)]
  /\ UNCHANGED <<aged, listed, own, haunted>>

SweepDone(p) ==
  /\ listed[p] = {}
  /\ Goto(p, "sweep", "judge")
  /\ UNCHANGED <<disk, sweeping, own, haunted>>

(* The lock is tried, and released again before the removal.                *)
JudgeRemovable(p, k) ==
  /\ k \in doomed[p] /\ lock[k] = Nobody
  /\ Goto(p, "judge", "unlock")
  /\ lock' = [lock EXCEPT ![k] = IF root[k] = "none" THEN @ ELSE p]
  /\ target' = [target EXCEPT ![p] = k]
  /\ doomed' = [doomed EXCEPT ![p] = @ \ {k}]
  /\ UNCHANGED <<key, root, stage, aged, sweeping, crowded, haunted>>

Unlock(p) ==
  /\ Goto(p, "unlock", "remove")
  /\ lock' = [lock EXCEPT ![target[p]] = IF @ = p THEN Nobody ELSE @]
  /\ UNCHANGED <<root, stage, aged, sweeping, own, haunted>>

JudgeLocked(p, k) ==
  /\ k \in doomed[p] /\ lock[k] # Nobody
  /\ pc[p] = "judge"
  /\ doomed' = [doomed EXCEPT ![p] = @ \ {k}]
  /\ UNCHANGED <<pc, key, disk, sweeping, target, crowded, haunted>>

RemovePayload(p) ==
  /\ Goto(p, "remove", "removing")
  /\ BeginRemove(target[p])
  /\ UNCHANGED <<stage, aged, sweeping, own, haunted>>

RemovedPayload(p) ==
  /\ Goto(p, "removing", "judge")
  /\ EndRemove(target[p])
  /\ target' = [target EXCEPT ![p] = AnyKey]
  /\ UNCHANGED <<stage, aged, sweeping, key, doomed, crowded, haunted>>

(* The payload is resolved; the shared runtime runs the app from it.        *)
Run(p) ==
  /\ doomed[p] = {}
  /\ Goto(p, "judge", "run")
  /\ UNCHANGED <<disk, sweeping, own, haunted>>

(* ---- the environment ----------------------------------------------------- *)

(***************************************************************************)
(* The process ends, by itself or because a call failed; the kernel         *)
(* releases its lock.  How far a dead process came with its extraction      *)
(* makes no difference.                                                     *)
(***************************************************************************)
Stop(p) ==
  /\ p \in Alive
  /\ pc' = [pc EXCEPT ![p] = "off"]
  /\ lock' = [k \in Key |-> IF lock[k] = p THEN Nobody ELSE lock[k]]
  /\ doomed' = [doomed EXCEPT ![p] = {}]
  /\ key' = [key EXCEPT ![p] = AnyKey] /\ target' = [target EXCEPT ![p] = AnyKey]
  /\ listed' = [listed EXCEPT ![p] = {}] /\ prey' = [prey EXCEPT ![p] = AnyPrey(p)]
  /\ aged' = aged \ {p} /\ crowded' = crowded \ {p}
  /\ moved' = moved \ {p} /\ haunted' = haunted \ {p}
  /\ stage' = [k \in Key |-> [stage[k] EXCEPT ![p] = IF @ = "none" THEN @ ELSE "holed"]]
  /\ UNCHANGED root

(* An hour passes.  The age of what a dead process left makes no difference. *)
GrowOld(p) ==
  /\ pc[p] \in Extracting
  /\ aged' = aged \cup {p}
  /\ UNCHANGED <<pc, root, lock, stage, sweeping, own, haunted>>

Next ==
  \E p \in Proc :
    \/ Probe(p) \/ CleanStaging(p) \/ Extract(p) \/ DropRoot(p) \/ DroppedRoot(p)
    \/ Activate(p) \/ LockPayload(p) \/ ScanCache(p) \/ BeginReap(p) \/ EndReap(p)
    \/ SweepDone(p) \/ Unlock(p) \/ RemovePayload(p) \/ RemovedPayload(p) \/ Run(p) \/ Stop(p) \/ GrowOld(p)
    \/ \E k \in Key : \/ Launch(p, k)
                      \/ JudgeRemovable(p, k) \/ JudgeLocked(p, k)
                      \/ \E q \in Proc : JudgeStaging(p, k, q)

Spec == Init /\ [][Next]_vars

-----------------------------------------------------------------------------
(* Every staging directory another process left by an interrupted           *)
(* extraction, of this app or of another, is gone once a launch that was    *)
(* alone runs (lib.rs:129-137).                                             *)
NoOrphanStaging ==
  \A p \in Proc \ crowded, q \in Proc : pc[p] = "run" /\ p # q =>
    \A k \in Key : stage[k][q] = "none"

(* "the cache can't grow unbounded" (lib.rs:54-56): once a launch that was  *)
(* alone runs, no staging directory and at most Keep payloads are left      *)
(* beside its own, whatever earlier launches left behind when they died     *)
(* (lib.rs:117-161).                                                        *)
CacheBounded ==
  /\ NoOrphanStaging
  /\ \A p \in Proc \ crowded : pc[p] = "run" =>
       Cardinality({k \in Key : root[k] # "none"}) <= Keep + 1

(* An extraction that loses nothing to the prune of another launch.         *)
Undisturbed(p) ==
  pc[p] \in Extracting =>
    stage[key[p]][p] = (IF pc[p] = "extract" THEN "part" ELSE "whole")

(* A live extraction keeps its staging directory, however many launches     *)
(* prune meanwhile, as long as it takes less than STALE_TMP_AGE and did not *)
(* begin, under the pid of a dead one, between the judgement of what that   *)
(* one left and the end of its removal (lib.rs:76-89, 129-137).             *)
LiveExtractionKept == \A p \in Proc \ (aged \cup haunted) : Undisturbed(p)

(* A payload directory appears only by the rename of a finished extraction: *)
(* unless that took more than STALE_TMP_AGE, or began under a removal of    *)
(* its very name, every payload file is in it, at whatever step earlier     *)
(* launches died (lib.rs:129-137, 284-290).                                 *)
AppearsComplete ==
  [][\A k \in Key : root[k] = "none" /\ root'[k] # "none" =>
       \/ root'[k] = "complete"
       \/ \E p \in aged \cup haunted : pc[p] = "activate" /\ key[p] = k]_vars

(* The steps of a process that has tried to take the lock of its payload.   *)
Locked == {"prune", "sweep", "reap", "reaping", "judge", "unlock", "remove", "removing", "run"}

(* A lock is held by a live process that resolved this very payload, or by  *)
(* a prune for the moment it tries it; and it goes with the directory.  No  *)
(* lock outlives its holder, its prune or its payload, so none keeps a      *)
(* payload from being pruned for ever (lib.rs:58-74, 146-159).              *)
LockHolderLive ==
  \A k \in Key : lock[k] # Nobody =>
    LET p == lock[k] IN
    /\ p \in Alive /\ root[k] # "none"
    /\ \/ key[p] = k /\ pc[p] \in Locked
       \/ target[p] = k /\ pc[p] = "unlock"
=============================================================================
