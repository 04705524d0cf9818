----------------------------- MODULE TreesProofs -----------------------------
(***************************************************************************)
(* Two kinds of trees on disk that processes share: the payload cache of    *)
(* self-extracting desktop apps, and the temp trees of launched artifacts.  *)
(***************************************************************************)
EXTENDS PayloadCache, TempTrees, FiniteSetTheorems, TLAPS

-----------------------------------------------------------------------------
(***************************************************************************)
(* The payload cache for any number of launches, pids and payloads.  What   *)
(* concurrent launches do to each other is limited by three facts: a pid    *)
(* has a staging directory of its own, which only its death or its age      *)
(* gives away; an extraction whose directory is under removal all the same  *)
(* is old or has begun under that removal; and a lock exists only while its *)
(* holder and its directory do.                                             *)
(***************************************************************************)

ReapersExcused ==
  \A q, r \in Proc :
    pc[q] \in Extracting /\ pc[r] \in {"reap", "reaping"} /\ prey[r] = <<key[q], q>> =>
      q \in aged \cup haunted

IInv == TypeOK /\ LiveExtractionKept /\ LockHolderLive /\ ReapersExcused

(* The memory of a process that is not alive (lib.rs:253).                  *)
LEMMA AnyKeyTyped == AnyKey \in Key
  BY CacheAssumption DEF AnyKey

(* An empty cache and no launches (lib.rs:253-258).                         *)
LEMMA InitIInv == Init => IInv
  BY CacheAssumption, AnyKeyTyped
  DEF Init, IInv, TypeOK, LiveExtractionKept, Undisturbed, LockHolderLive, ReapersExcused,
      RootState, StageState, Steps, Extracting, AnyPrey

(* remove_dir_all takes a lock file only with its directory, and leaves no  *)
(* lock behind (lib.rs:157-159, 288).                                       *)
LEMMA RemovalTyped ==
  ASSUME TypeOK, NEW k \in Key, BeginRemove(k) \/ EndRemove(k)
  PROVE  /\ root' \in [Key -> RootState] /\ lock' \in [Key -> Proc \cup {Nobody}]
         /\ \A x \in Key : lock'[x] \in {lock[x], Nobody}
         /\ \A x \in Key : root[x] = "none" => root'[x] = "none"
         /\ \A x \in Key : root'[x] = "none" => root[x] = "none" \/ lock'[x] = Nobody
<1> USE DEF TypeOK, RootState
<1>1. CASE BeginRemove(k)
  <2>1. PICK s \in RootState :
          root' = [root EXCEPT ![k] = s] /\ (s = "none" => root[k] = "none")
                                         /\ (root[k] = "none" => s = "none")
    BY <1>1 DEF BeginRemove, Marked
  <2>2. lock' = lock \/ lock' = [lock EXCEPT ![k] = Nobody]
    BY <1>1 DEF BeginRemove
  <2> QED
    BY <2>1, <2>2
<1>2. CASE EndRemove(k)
  <2>1. root' \in [Key -> RootState] /\ lock' \in [Key -> Proc \cup {Nobody}]
    BY <1>2 DEF EndRemove
  <2>2. \A x \in Key : lock'[x] \in {lock[x], Nobody}
    BY <1>2 DEF EndRemove
  <2>3. \A x \in Key : /\ root[x] = "none" => root'[x] = "none"
                       /\ root'[x] = "none" => root[x] = "none" \/ lock'[x] = Nobody
    BY <1>2 DEF EndRemove
  <2> QED
    BY <2>1, <2>2, <2>3
<1> QED
  BY <1>1, <1>2

(* The step of one launch, by name. *)
LEMMA StepCases ==
  ASSUME Next
  PROVE  \E p \in Proc :
           \/ Probe(p) \/ CleanStaging(p) \/ Extract(p) \/ DropRoot(p) \/ DroppedRoot(p)
           \/ Activate(p) \/ LockPayload(p) \/ ScanCache(p) \/ BeginReap(p) \/ EndReap(p)
           \/ SweepDone(p) \/ Unlock(p) \/ RemovePayload(p) \/ RemovedPayload(p) \/ Run(p)
           \/ Stop(p) \/ GrowOld(p)
           \/ \E k \in Key : \/ Launch(p, k) \/ JudgeRemovable(p, k) \/ JudgeLocked(p, k)
                            \/ \E q \in Proc : JudgeStaging(p, k, q)
  BY DEF Next

(* What a launch is removing is a staging directory (lib.rs:129-135). *)
LEMMA PreyTyped ==
  ASSUME TypeOK, NEW p \in Proc
  PROVE  prey[p] \in Key \X Proc /\ prey[p][1] \in Key /\ prey[p][2] \in Proc
         /\ prey[p] = <<prey[p][1], prey[p][2]>>
  BY DEF TypeOK

(* A removal leaves every other staging directory (lib.rs:134). *)
LEMMA StageTyped ==
  ASSUME TypeOK, NEW k \in Key, NEW q \in Proc, NEW t \in StageState,
         stage' = [stage EXCEPT ![k][q] = t]
  PROVE  /\ stage' \in [Key -> [Proc -> StageState]]
         /\ \A x \in Key, y \in Proc : stage'[x][y] = IF x = k /\ y = q THEN t ELSE stage[x][y]
  BY DEF TypeOK

(* What a removal of a staging directory does to it (lib.rs:134). *)
LEMMA ReapStages ==
  ASSUME TypeOK, NEW p \in Proc, BeginReap(p) \/ EndReap(p)
  PROVE  /\ stage' \in [Key -> [Proc -> StageState]]
         /\ BeginReap(p) =>
              \A x \in Key, y \in Proc : stage'[x][y] # "none" => stage[x][y] # "none"
<1>1. prey[p][1] \in Key /\ prey[p][2] \in Proc
  BY PreyTyped
<1>2. "holed" \in StageState /\ "none" \in StageState /\ stage \in [Key -> [Proc -> StageState]]
  BY DEF StageState, TypeOK
<1>3. CASE stage' = [stage EXCEPT ![prey[p][1]][prey[p][2]] = "none"]
  BY <1>1, <1>2, <1>3, StageTyped
<1>4. CASE /\ stage' = [stage EXCEPT ![prey[p][1]][prey[p][2]] = "holed"]
           /\ stage[prey[p][1]][prey[p][2]] # "none"
  BY <1>1, <1>2, <1>4, StageTyped
<1>5. CASE stage' = stage
  BY <1>2, <1>5
<1> QED BY <1>3, <1>4, <1>5 DEF BeginReap, EndReap

(* Every step keeps the types (lib.rs:58-160, 253-294).                     *)
LEMMA NextTyped == ASSUME TypeOK, Next PROVE TypeOK'
<1> USE CacheAssumption DEF TypeOK, Goto, Steps, disk, sweeping, own
<1>1. PICK p \in Proc :
           \/ Probe(p) \/ CleanStaging(p) \/ Extract(p) \/ DropRoot(p) \/ DroppedRoot(p)
           \/ Activate(p) \/ LockPayload(p) \/ ScanCache(p) \/ BeginReap(p) \/ EndReap(p)
           \/ SweepDone(p) \/ Unlock(p) \/ RemovePayload(p) \/ RemovedPayload(p) \/ Run(p)
           \/ Stop(p) \/ GrowOld(p)
           \/ \E k \in Key : \/ Launch(p, k) \/ JudgeRemovable(p, k) \/ JudgeLocked(p, k)
                            \/ \E q \in Proc : JudgeStaging(p, k, q)
  BY StepCases
<1>2. CASE Probe(p)
  BY <1>2 DEF Probe
<1>3. CASE CleanStaging(p)
  BY <1>3 DEF CleanStaging, SetStage, StageState
<1>4. CASE Extract(p)
  BY <1>4 DEF Extract, SetStage, StageState
<1>5. CASE DropRoot(p)
  BY <1>5, RemovalTyped DEF DropRoot
<1>6. CASE DroppedRoot(p)
  BY <1>6, RemovalTyped DEF DroppedRoot
<1>7. CASE Activate(p)
  BY <1>7 DEF Activate, SetStage, StageState, RootState, Reapers
<1>8. CASE LockPayload(p)
  BY <1>8 DEF LockPayload
<1>9. CASE ScanCache(p)
  <2>1. Staged \subseteq Key \X Proc
    BY DEF Staged
  <2> QED BY <1>9, <2>1 DEF ScanCache, Others
<1>10. CASE BeginReap(p)
  <2>1. stage' \in [Key -> [Proc -> StageState]]
    BY <1>10, ReapStages
  <2> QED BY <1>10, <2>1 DEF BeginReap
<1>11. CASE EndReap(p)
  <2>0. prey[p][1] \in Key /\ prey[p][2] \in Proc
    BY PreyTyped
  <2>1. stage' \in [Key -> [Proc -> StageState]]
    BY <1>11, ReapStages
  <2>2. root' \in [Key -> RootState] /\ lock' \in [Key -> Proc \cup {Nobody}]
    BY <1>11, <2>0, RemovalTyped DEF EndReap
  <2>3. prey' \in [Proc -> Key \X Proc]
    BY <1>11, AnyKeyTyped DEF EndReap, AnyPrey
  <2> QED BY <1>11, <2>1, <2>2, <2>3 DEF EndReap
<1>12. CASE SweepDone(p)
  BY <1>12 DEF SweepDone
<1>13. CASE Unlock(p)
  BY <1>13 DEF Unlock
<1>14. CASE RemovePayload(p)
  BY <1>14, RemovalTyped DEF RemovePayload
<1>15. CASE RemovedPayload(p)
  BY <1>15, RemovalTyped, AnyKeyTyped DEF RemovedPayload
<1>16. CASE Run(p)
  BY <1>16 DEF Run
<1>17. CASE Stop(p)
  <2>1. stage' \in [Key -> [Proc -> StageState]]
    BY <1>17 DEF Stop, StageState
  <2>2. prey' \in [Proc -> Key \X Proc]
    BY <1>17, AnyKeyTyped DEF Stop, AnyPrey
  <2> QED BY <1>17, <2>1, <2>2, AnyKeyTyped DEF Stop
<1>18. CASE GrowOld(p)
  BY <1>18 DEF GrowOld
<1>19. ASSUME NEW k \in Key, Launch(p, k) PROVE TypeOK'
  BY <1>19 DEF Launch, Alive
<1>20. ASSUME NEW k \in Key, JudgeRemovable(p, k) PROVE TypeOK'
  BY <1>20 DEF JudgeRemovable
<1>21. ASSUME NEW k \in Key, JudgeLocked(p, k) PROVE TypeOK'
  BY <1>21 DEF JudgeLocked
<1>22. ASSUME NEW k \in Key, NEW q \in Proc, JudgeStaging(p, k, q) PROVE TypeOK'
  <2>1. /\ UNCHANGED <<disk, moved, own, haunted>>
        /\ listed' = [listed EXCEPT ![p] = @ \ {<<k, q>>}]
    BY <1>22 DEF JudgeStaging
  <2>2. pc' \in [Proc -> Steps]
    <3>1. pc' = pc \/ pc' = [pc EXCEPT ![p] = "reap"]
      BY <1>22 DEF JudgeStaging
    <3> QED BY <3>1
  <2>3. prey' \in [Proc -> Key \X Proc]
    <3>1. prey' = prey \/ prey' = [prey EXCEPT ![p] = <<k, q>>]
      BY <1>22 DEF JudgeStaging
    <3> QED BY <3>1
  <2> QED BY <2>1, <2>2, <2>3
<1> QED
  BY <1>1, <1>2, <1>3, <1>4, <1>5, <1>6, <1>7, <1>8, <1>9, <1>10, <1>11, <1>12, <1>13,
     <1>14, <1>15, <1>16, <1>17, <1>18, <1>19, <1>20, <1>21, <1>22

(* Only what meets a live extraction takes from its staging directory, and  *)
(* such an extraction is excused (lib.rs:129-137, 284-290).                 *)
LEMMA NextKept ==
  ASSUME TypeOK, LiveExtractionKept, ReapersExcused, Next PROVE LiveExtractionKept'
<1> USE DEF TypeOK, Goto, Extracting, LiveExtractionKept, Undisturbed
<1>1. PICK p \in Proc :
           \/ Probe(p) \/ CleanStaging(p) \/ Extract(p) \/ DropRoot(p) \/ DroppedRoot(p)
           \/ Activate(p) \/ LockPayload(p) \/ ScanCache(p) \/ BeginReap(p) \/ EndReap(p)
           \/ SweepDone(p) \/ Unlock(p) \/ RemovePayload(p) \/ RemovedPayload(p) \/ Run(p)
           \/ Stop(p) \/ GrowOld(p)
           \/ \E k \in Key : \/ Launch(p, k) \/ JudgeRemovable(p, k) \/ JudgeLocked(p, k)
                            \/ \E q \in Proc : JudgeStaging(p, k, q)
  BY StepCases
<1>2. ASSUME UNCHANGED <<stage, aged, haunted>>, \A q \in Proc \ {p} : pc'[q] = pc[q] /\ key'[q] = key[q],
             \/ pc'[p] \notin Extracting
             \/ pc[p] \in {"drop", "dropping"} /\ pc'[p] \in {"dropping", "activate"} /\ key'[p] = key[p]
      PROVE  LiveExtractionKept'
  BY <1>2
<1>3. CASE Probe(p) \/ LockPayload(p) \/ ScanCache(p) \/ SweepDone(p)
  BY <1>2, <1>3 DEF Probe, LockPayload, ScanCache, SweepDone, disk, own
<1>4. CASE Unlock(p) \/ RemovePayload(p) \/ RemovedPayload(p) \/ Run(p)
  BY <1>2, <1>4 DEF Unlock, RemovePayload, RemovedPayload, Run, disk, own
<1>5. CASE DropRoot(p) \/ DroppedRoot(p)
  BY <1>2, <1>5 DEF DropRoot, DroppedRoot, own
<1>6. ASSUME NEW k \in Key, Launch(p, k) \/ JudgeRemovable(p, k) \/ JudgeLocked(p, k)
      PROVE  LiveExtractionKept'
  BY <1>2, <1>6 DEF Launch, JudgeRemovable, JudgeLocked, disk
<1>7. ASSUME NEW k \in Key, NEW q \in Proc, JudgeStaging(p, k, q) PROVE LiveExtractionKept'
  BY <1>2, <1>7 DEF JudgeStaging, disk, own
<1>8. CASE CleanStaging(p)
  BY <1>8 DEF CleanStaging, SetStage, own
<1>9. CASE Extract(p)
  BY <1>9 DEF Extract, SetStage, own
<1>10. CASE Activate(p)
  BY <1>10 DEF Activate, SetStage, own
<1>11. ASSUME UNCHANGED <<aged, haunted, key>>, pc[p] \in {"reap", "reaping"},
              \A q \in Proc \ {p} : pc'[q] = pc[q], pc'[p] \in {"reaping", "sweep"},
              NEW t, stage' = [stage EXCEPT ![prey[p][1]][prey[p][2]] = t]
       PROVE  LiveExtractionKept'
  <2>1. prey[p][1] \in Key /\ prey[p][2] \in Proc /\ prey[p] = <<prey[p][1], prey[p][2]>>
    BY PreyTyped
  <2>2. \A q \in Proc \ (aged \cup haunted) :
          pc[q] \in Extracting => key[q] # prey[p][1] \/ q # prey[p][2]
    BY <1>11, <2>1 DEF ReapersExcused
  <2>3. \A q \in Proc \ (aged \cup haunted) : pc[q] \in Extracting =>
          stage'[key[q]][q] = stage[key[q]][q]
    BY <1>11, <2>1, <2>2
  <2> QED BY <1>11, <2>3
<1>12. CASE BeginReap(p)
  <2>1. CASE stage' = stage
    BY <1>2, <1>12, <2>1 DEF BeginReap, own
  <2>2. CASE stage' = [stage EXCEPT ![prey[p][1]][prey[p][2]] = "holed"]
    BY <1>11, <1>12, <2>2 DEF BeginReap, own
  <2> QED BY <1>12, <2>1, <2>2 DEF BeginReap
<1>13. CASE EndReap(p)
  BY <1>11, <1>13 DEF EndReap, own
<1>14. CASE Stop(p)
  BY <1>14 DEF Stop
<1>15. CASE GrowOld(p)
  BY <1>15 DEF GrowOld, own
<1> QED
  BY <1>1, <1>3, <1>4, <1>5, <1>6, <1>7, <1>8, <1>9, <1>10, <1>12, <1>13, <1>14, <1>15

(* A removal of a name under which a live process extracts was judged by    *)
(* its age, or the process has come after the judgement (lib.rs:129-137).   *)
LEMMA NextExcused == ASSUME TypeOK, ReapersExcused, Next PROVE ReapersExcused'
<1> USE DEF TypeOK, Goto, Extracting, ReapersExcused
<1>1. PICK p \in Proc :
           \/ Probe(p) \/ CleanStaging(p) \/ Extract(p) \/ DropRoot(p) \/ DroppedRoot(p)
           \/ Activate(p) \/ LockPayload(p) \/ ScanCache(p) \/ BeginReap(p) \/ EndReap(p)
           \/ SweepDone(p) \/ Unlock(p) \/ RemovePayload(p) \/ RemovedPayload(p) \/ Run(p)
           \/ Stop(p) \/ GrowOld(p)
           \/ \E k \in Key : \/ Launch(p, k) \/ JudgeRemovable(p, k) \/ JudgeLocked(p, k)
                            \/ \E q \in Proc : JudgeStaging(p, k, q)
  BY StepCases
<1>2. ASSUME UNCHANGED <<aged, haunted>>,
             \A q \in Proc \ {p} : pc'[q] = pc[q] /\ key'[q] = key[q] /\ prey'[q] = prey[q],
             pc'[p] \in Extracting => pc[p] \in Extracting /\ key'[p] = key[p],
             pc'[p] \in {"reap", "reaping"} => pc[p] \in {"reap", "reaping"} /\ prey'[p] = prey[p]
      PROVE  ReapersExcused'
  BY <1>2
<1>3. CASE Probe(p) \/ LockPayload(p) \/ ScanCache(p) \/ SweepDone(p)
  BY <1>2, <1>3 DEF Probe, LockPayload, ScanCache, SweepDone, disk, sweeping, own
<1>4. CASE Unlock(p) \/ RemovePayload(p) \/ RemovedPayload(p) \/ Run(p)
  BY <1>2, <1>4 DEF Unlock, RemovePayload, RemovedPayload, Run, disk, sweeping, own
<1>5. CASE DropRoot(p) \/ DroppedRoot(p) \/ Extract(p)
  BY <1>2, <1>5 DEF DropRoot, DroppedRoot, Extract, sweeping, own
<1>6. ASSUME NEW k \in Key, Launch(p, k) \/ JudgeRemovable(p, k) \/ JudgeLocked(p, k)
      PROVE  ReapersExcused'
  BY <1>2, <1>6 DEF Launch, JudgeRemovable, JudgeLocked, disk, sweeping
<1>7. ASSUME NEW k \in Key, NEW q \in Proc, JudgeStaging(p, k, q) PROVE ReapersExcused'
  <2>1. /\ UNCHANGED <<aged, haunted, key>> /\ pc[p] = "sweep" /\ pc'[p] \in {"sweep", "reap"}
        /\ \A x \in Proc \ {p} : pc'[x] = pc[x]
    BY <1>7 DEF JudgeStaging, disk, own
  <2>2. CASE UNCHANGED <<pc, prey>>
    BY <1>2, <2>1, <2>2
  <2>3. CASE (Reapable(k, q) \/ Leftover(k, q)) /\ prey' = [prey EXCEPT ![p] = <<k, q>>]
    <3>1. pc[q] \in Extracting /\ key[q] = k => q \in aged
      BY <2>3 DEF Reapable, Leftover, Alive
    <3>2. ASSUME NEW x \in Proc, pc'[x] \in Extracting, prey'[p] = <<key'[x], x>>
          PROVE  x \in aged
      <4>1. x # p /\ x = q /\ key[x] = k
        BY <2>1, <2>3, <3>2
      <4> QED BY <2>1, <3>1, <3>2, <4>1
    <3>3. ASSUME NEW x \in Proc, NEW r \in Proc \ {p}, pc'[x] \in Extracting,
                 pc'[r] \in {"reap", "reaping"}, prey'[r] = <<key'[x], x>>
          PROVE  x \in aged \cup haunted
      BY <2>1, <2>3, <3>3
    <3> QED BY <2>1, <3>2, <3>3
  <2> QED BY <1>7, <2>2, <2>3 DEF JudgeStaging
<1>8. CASE CleanStaging(p)
  <2>1. /\ pc[p] = "clean" /\ pc' = [pc EXCEPT ![p] = "extract"] /\ UNCHANGED <<key, prey>>
        /\ aged' = aged \ {p} /\ haunted \ {p} \subseteq haunted'
        /\ Reapers(key[p], p) # {} => p \in haunted'
    BY <1>8 DEF CleanStaging, sweeping, own
  <2>2. ASSUME NEW r \in Proc, pc'[r] \in {"reap", "reaping"}, prey'[r] = <<key'[p], p>>
        PROVE  p \in haunted'
    <3>1. r \in Reapers(key[p], p)
      BY <2>1, <2>2 DEF Reapers
    <3> QED BY <2>1, <3>1
  <2>3. ASSUME NEW q \in Proc \ {p}, NEW r \in Proc, pc'[q] \in Extracting,
               pc'[r] \in {"reap", "reaping"}, prey'[r] = <<key'[q], q>>
        PROVE  q \in aged' \cup haunted'
    BY <2>1, <2>3
  <2> QED BY <2>2, <2>3
<1>9. CASE Activate(p)
  BY <1>9 DEF Activate, own
<1>10. CASE BeginReap(p)
  BY <1>2, <1>10 DEF BeginReap, sweeping, own
<1>11. CASE EndReap(p)
  BY <1>2, <1>11 DEF EndReap, own
<1>12. CASE Stop(p)
  BY <1>12 DEF Stop
<1>13. CASE GrowOld(p)
  BY <1>13 DEF GrowOld, sweeping, own
<1> QED
  BY <1>1, <1>3, <1>4, <1>5, <1>6, <1>7, <1>8, <1>9, <1>10, <1>11, <1>12, <1>13

(* A lock goes with its holder, with its prune or with its directory        *)
(* (lib.rs:58-74, 146-159).                                                 *)
LEMMA NextLocks == ASSUME TypeOK, LockHolderLive, Next PROVE LockHolderLive'
<1> USE CacheAssumption DEF TypeOK, Goto, Alive, Locked, LockHolderLive
<1>1. PICK p \in Proc :
           \/ Probe(p) \/ CleanStaging(p) \/ Extract(p) \/ DropRoot(p) \/ DroppedRoot(p)
           \/ Activate(p) \/ LockPayload(p) \/ ScanCache(p) \/ BeginReap(p) \/ EndReap(p)
           \/ SweepDone(p) \/ Unlock(p) \/ RemovePayload(p) \/ RemovedPayload(p) \/ Run(p)
           \/ Stop(p) \/ GrowOld(p)
           \/ \E k \in Key : \/ Launch(p, k) \/ JudgeRemovable(p, k) \/ JudgeLocked(p, k)
                            \/ \E q \in Proc : JudgeStaging(p, k, q)
  BY StepCases
<1>2. ASSUME \A k \in Key : lock'[k] \in {lock[k], Nobody},
             \A k \in Key : root'[k] = "none" => root[k] = "none" \/ lock'[k] = Nobody,
             \A q \in Proc \ {p} : pc'[q] = pc[q] /\ key'[q] = key[q] /\ target'[q] = target[q],
             pc[p] \in Locked => pc'[p] \in Locked /\ key'[p] = key[p],
             pc[p] # "off" => pc'[p] # "off", pc[p] # "unlock"
      PROVE  LockHolderLive'
  <2> SUFFICES ASSUME NEW k \in Key, lock'[k] # Nobody
               PROVE  /\ lock'[k] \in Proc /\ pc'[lock'[k]] # "off" /\ root'[k] # "none"
                      /\ \/ key'[lock'[k]] = k /\ pc'[lock'[k]] \in Locked
                         \/ target'[lock'[k]] = k /\ pc'[lock'[k]] = "unlock"
    OBVIOUS
  <2>1. lock'[k] = lock[k] /\ lock[k] \in Proc
    BY <1>2
  <2>2. /\ pc[lock[k]] # "off" /\ root[k] # "none"
        /\ \/ key[lock[k]] = k /\ pc[lock[k]] \in Locked
           \/ target[lock[k]] = k /\ pc[lock[k]] = "unlock"
    BY <2>1
  <2> HIDE DEF TypeOK, LockHolderLive, Alive, Goto
  <2>3. CASE lock[k] = p
    BY <1>2, <2>1, <2>2, <2>3
  <2>4. CASE lock[k] # p
    BY <1>2, <2>1, <2>2, <2>4
  <2> QED BY <2>3, <2>4
<1>3. CASE Probe(p) \/ CleanStaging(p) \/ Extract(p) \/ ScanCache(p) \/ SweepDone(p) \/ BeginReap(p)
  BY <1>2, <1>3
  DEF Probe, CleanStaging, Extract, ScanCache, SweepDone, BeginReap, disk, own
<1>4. CASE DropRoot(p) \/ DroppedRoot(p) \/ RemovePayload(p) \/ RemovedPayload(p)
  BY <1>2, <1>4, RemovalTyped DEF DropRoot, DroppedRoot, RemovePayload, RemovedPayload, own
<1>5. CASE EndReap(p)
  <2>1. UNCHANGED <<root, lock>> \/ BeginRemove(prey[p][1])
    BY <1>5 DEF EndReap
  <2>2. /\ \A x \in Key : lock'[x] \in {lock[x], Nobody}
        /\ \A x \in Key : root'[x] = "none" => root[x] = "none" \/ lock'[x] = Nobody
    BY <2>1, PreyTyped, RemovalTyped
  <2> QED BY <1>2, <1>5, <2>2 DEF EndReap, own
<1>6. CASE Activate(p)
  <2>1. /\ pc[p] = "activate" /\ pc'[p] = "lock" /\ lock' = lock
        /\ key' = key /\ target' = target
        /\ \A k \in Key : root'[k] = "none" => root[k] = "none"
        /\ \A q \in Proc \ {p} : pc'[q] = pc[q]
    BY <1>6 DEF Activate, own
  <2>2. \A k \in Key : lock'[k] \in {lock[k], Nobody}
    BY <2>1
  <2> HIDE DEF LockHolderLive, Alive, Goto, TypeOK
  <2>3. \A q \in Proc \ {p} : pc'[q] = pc[q] /\ key'[q] = key[q] /\ target'[q] = target[q]
    BY <2>1
  <2>4. pc[p] \notin Locked /\ pc'[p] # "off" /\ pc[p] # "unlock"
    BY <2>1
  <2> QED BY <1>2, <2>1, <2>2, <2>3, <2>4
<1>7. CASE LockPayload(p)
  BY <1>7 DEF LockPayload, own
<1>8. CASE Unlock(p)
  BY <1>8 DEF Unlock, own
<1>9. CASE Run(p) \/ GrowOld(p)
  BY <1>2, <1>9 DEF Run, GrowOld, Extracting, disk, own
<1>10. CASE Stop(p)
  BY <1>10 DEF Stop
<1>11. ASSUME NEW k \in Key, JudgeRemovable(p, k) PROVE LockHolderLive'
  BY <1>11 DEF JudgeRemovable
<1>12. ASSUME NEW k \in Key, Launch(p, k) PROVE LockHolderLive'
  BY <1>2, <1>12 DEF Launch, disk
<1>13. ASSUME NEW k \in Key, JudgeLocked(p, k) PROVE LockHolderLive'
  BY <1>2, <1>13 DEF JudgeLocked, disk
<1>14. ASSUME NEW k \in Key, NEW q \in Proc, JudgeStaging(p, k, q) PROVE LockHolderLive'
  BY <1>2, <1>14 DEF JudgeStaging, disk, own
<1> QED
  BY <1>1, <1>3, <1>4, <1>5, <1>6, <1>7, <1>8, <1>9, <1>10, <1>11, <1>12, <1>13, <1>14

(* Every step of every launch keeps the invariant, and so does a death      *)
(* before any of them (lib.rs:58-160, 253-294).                             *)
LEMMA NextIInv == IInv /\ [Next]_vars => IInv'
<1> SUFFICES ASSUME IInv, [Next]_vars PROVE IInv'
  OBVIOUS
<1>1. CASE Next
  BY <1>1, NextTyped, NextKept, NextExcused, NextLocks DEF IInv
<1>2. CASE UNCHANGED vars
  <2>1. UNCHANGED <<pc, key, root, lock, stage, aged, listed, prey, moved, doomed, target,
                    crowded, haunted>>
    BY <1>2 DEF vars
  <2>2. TypeOK' /\ LiveExtractionKept'
    BY <2>1 DEF IInv, TypeOK, LiveExtractionKept, Undisturbed
  <2>3. LockHolderLive' /\ ReapersExcused'
    BY <2>1 DEF IInv, LockHolderLive, Alive, ReapersExcused
  <2> QED BY <2>2, <2>3 DEF IInv
<1> QED
  BY <1>1, <1>2

(* The invariant holds of every reachable cache (lib.rs:58-160, 253-294).   *)
THEOREM Invariance == Spec => []IInv
BY InitIInv, NextIInv, PTL DEF Spec

(* Type correctness of launches, payload directories, locks and staging     *)
(* directories (lib.rs:58-160, 253-294).                                    *)
THEOREM TypeCorrect == Spec => []TypeOK
BY Invariance, PTL DEF IInv

(* No prune takes the staging directory of a live extraction, or an entry   *)
(* of it, unless it is older than STALE_TMP_AGE or has begun under the      *)
(* removal of what its pid's earlier process left, however many launches    *)
(* there are (lib.rs:76-89, 129-137).                                       *)
THEOREM ExtractionKept == Spec => []LiveExtractionKept
BY Invariance, PTL DEF IInv

(* A lock has a live holder and a directory, for any number of launches     *)
(* (lib.rs:58-74, 146-159).                                                 *)
THEOREM LocksLive == Spec => []LockHolderLive
BY Invariance, PTL DEF IInv

(* Only a removal or a rename touches a payload directory                   *)
(* (lib.rs:134, 157-159, 288-290).                                          *)
LEMMA RootKept ==
  ASSUME [Next]_vars
  PROVE  \/ root' = root
         \/ \E p \in Proc : \/ DropRoot(p) \/ DroppedRoot(p) \/ Activate(p) \/ EndReap(p)
                           \/ RemovePayload(p) \/ RemovedPayload(p)
<1> USE DEF disk
<1>1. CASE UNCHANGED vars
  BY <1>1 DEF vars
<1>2. CASE Next
  <2>1. PICK p \in Proc :
           \/ Probe(p) \/ CleanStaging(p) \/ Extract(p) \/ DropRoot(p) \/ DroppedRoot(p)
           \/ Activate(p) \/ LockPayload(p) \/ ScanCache(p) \/ BeginReap(p) \/ EndReap(p)
           \/ SweepDone(p) \/ Unlock(p) \/ RemovePayload(p) \/ RemovedPayload(p) \/ Run(p)
           \/ Stop(p) \/ GrowOld(p)
           \/ \E k \in Key : \/ Launch(p, k) \/ JudgeRemovable(p, k) \/ JudgeLocked(p, k)
                            \/ \E q \in Proc : JudgeStaging(p, k, q)
    BY <1>2, StepCases
  <2>2. ASSUME NEW k \in Key, NEW q \in Proc, JudgeStaging(p, k, q) PROVE root' = root
    BY <2>2 DEF JudgeStaging
  <2>3. ASSUME NEW k \in Key, Launch(p, k) \/ JudgeRemovable(p, k) \/ JudgeLocked(p, k)
        PROVE  root' = root
    BY <2>3 DEF Launch, JudgeRemovable, JudgeLocked
  <2>4. ASSUME \/ Probe(p) \/ CleanStaging(p) \/ Extract(p) \/ LockPayload(p) \/ ScanCache(p)
               \/ BeginReap(p) \/ SweepDone(p) \/ Unlock(p) \/ Run(p) \/ Stop(p) \/ GrowOld(p)
        PROVE  root' = root
    BY <2>4 DEF Probe, CleanStaging, Extract, LockPayload, ScanCache, BeginReap, SweepDone,
                Unlock, Run, Stop, GrowOld
  <2> QED BY <2>1, <2>2, <2>3, <2>4
<1> QED BY <1>1, <1>2

(* What a launch does between its scan and the run of the app               *)
(* (lib.rs:129-161).                                                        *)
PruneStep(p) ==
  \/ BeginReap(p) \/ EndReap(p) \/ SweepDone(p)
  \/ Unlock(p) \/ RemovePayload(p) \/ RemovedPayload(p) \/ Run(p)
  \/ \E k \in Key : \/ JudgeRemovable(p, k) \/ JudgeLocked(p, k)
                   \/ \E q \in Proc : JudgeStaging(p, k, q)

(* Only a launch and an end change who is alive and who was alone           *)
(* (lib.rs:253-294).                                                        *)
LEMMA OthersKept ==
  ASSUME TypeOK, Next
  PROVE  \E p \in Proc :
           \/ Stop(p) \/ \E k \in Key : Launch(p, k)
           \/ /\ pc[p] # "off" /\ crowded' = crowded /\ \A q \in Proc \ {p} : pc'[q] = pc[q]
              /\ \/ Probe(p) \/ CleanStaging(p) \/ Extract(p) \/ DropRoot(p) \/ DroppedRoot(p)
                 \/ Activate(p) \/ LockPayload(p) \/ GrowOld(p) \/ ScanCache(p) \/ PruneStep(p)
<1> USE DEF TypeOK, Goto, own
<1>1. PICK p \in Proc :
           \/ Probe(p) \/ CleanStaging(p) \/ Extract(p) \/ DropRoot(p) \/ DroppedRoot(p)
           \/ Activate(p) \/ LockPayload(p) \/ ScanCache(p) \/ BeginReap(p) \/ EndReap(p)
           \/ SweepDone(p) \/ Unlock(p) \/ RemovePayload(p) \/ RemovedPayload(p) \/ Run(p)
           \/ Stop(p) \/ GrowOld(p)
           \/ \E k \in Key : \/ Launch(p, k) \/ JudgeRemovable(p, k) \/ JudgeLocked(p, k)
                            \/ \E q \in Proc : JudgeStaging(p, k, q)
  BY StepCases
<1> DEFINE Framed == pc[p] # "off" /\ crowded' = crowded /\ \A q \in Proc \ {p} : pc'[q] = pc[q]
<1>2. ASSUME NEW k \in Key, NEW q \in Proc, JudgeStaging(p, k, q) PROVE Framed
  BY <1>2 DEF JudgeStaging
<1>3. ASSUME NEW k \in Key, JudgeRemovable(p, k) \/ JudgeLocked(p, k) PROVE Framed
  BY <1>3 DEF JudgeRemovable, JudgeLocked
<1>4. CASE Probe(p) \/ CleanStaging(p) \/ Extract(p) \/ DropRoot(p) \/ DroppedRoot(p) \/ Activate(p)
  <2>1. Framed
    BY <1>4 DEF Probe, CleanStaging, Extract, DropRoot, DroppedRoot, Activate
  <2> QED BY <1>4, <2>1
<1>5. CASE LockPayload(p) \/ ScanCache(p) \/ GrowOld(p)
  <2>1. Framed
    BY <1>5 DEF LockPayload, ScanCache, GrowOld, Extracting
  <2> QED BY <1>5, <2>1
<1>6. CASE BeginReap(p) \/ EndReap(p) \/ SweepDone(p)
  <2>1. Framed
    BY <1>6 DEF BeginReap, EndReap, SweepDone
  <2> QED BY <1>6, <2>1 DEF PruneStep
<1>7. CASE Unlock(p) \/ RemovePayload(p) \/ RemovedPayload(p) \/ Run(p)
  <2>1. Framed
    BY <1>7 DEF Unlock, RemovePayload, RemovedPayload, Run
  <2> QED BY <1>7, <2>1 DEF PruneStep
<1> HIDE DEF Framed
<1>8. CASE \E k \in Key : \/ JudgeRemovable(p, k) \/ JudgeLocked(p, k)
                        \/ \E q \in Proc : JudgeStaging(p, k, q)
  <2>1. Framed
    BY <1>2, <1>3, <1>8
  <2> QED BY <1>8, <2>1 DEF PruneStep, Framed
<1> QED BY <1>1, <1>4, <1>5, <1>6, <1>7, <1>8

(* Only the rename makes a payload directory appear, and what it renames is *)
(* whole unless its extraction outlived STALE_TMP_AGE or began under a      *)
(* removal of its name (lib.rs:129-137, 284-290).                           *)
LEMMA StepAppears ==
  ASSUME IInv, [Next]_vars, NEW k \in Key, root[k] = "none", root'[k] # "none"
  PROVE  \/ root'[k] = "complete"
         \/ \E p \in aged \cup haunted : pc[p] = "activate" /\ key[p] = k
<1> USE DEF IInv, TypeOK, disk, sweeping, own
<1>1. PICK p \in Proc : Activate(p)
  <2>1. ASSUME NEW p \in Proc, DropRoot(p) \/ DroppedRoot(p) PROVE FALSE
    BY <2>1, RemovalTyped DEF DropRoot, DroppedRoot
  <2>2. ASSUME NEW p \in Proc, RemovePayload(p) \/ RemovedPayload(p) PROVE FALSE
    BY <2>2, RemovalTyped DEF RemovePayload, RemovedPayload
  <2>3. root' # root
    OBVIOUS
  <2>4. ASSUME NEW p \in Proc, EndReap(p) PROVE FALSE
    BY <2>3, <2>4, RemovalTyped DEF EndReap
  <2> QED
    BY <2>1, <2>2, <2>3, <2>4, RootKept
<1>2. pc[p] = "activate" /\ key[p] = k
  BY <1>1 DEF Activate, Goto
<1>3. p \in aged \cup haunted \/ stage[k][p] = "whole"
  BY <1>2 DEF LiveExtractionKept, Undisturbed, Extracting
<1> QED
  BY <1>1, <1>2, <1>3 DEF Activate

(* A payload directory appears complete, whoever died before                *)
(* (lib.rs:284-290).                                                        *)
THEOREM Appears == Spec => AppearsComplete
<1>1. IInv /\ [Next]_vars =>
        [\A k \in Key : root[k] = "none" /\ root'[k] # "none" =>
           \/ root'[k] = "complete"
           \/ \E p \in aged \cup haunted : pc[p] = "activate" /\ key[p] = k]_vars
  BY StepAppears
<1> QED
  BY <1>1, Invariance, PTL DEF Spec, AppearsComplete

(***************************************************************************)
(* What is left of the cache.  A launch that was alone since its start      *)
(* removes what its scan has chosen, and nothing comes in between: what it  *)
(* does not visit any more is at most Keep payloads.                        *)
(***************************************************************************)
Present == {k \in Key : root[k] # "none"}
Sweeping == {"sweep", "reap", "reaping"}
Pruning == Sweeping \cup {"judge", "unlock", "remove", "removing", "run"}
Unswept(p) == listed[p] \cup (IF pc[p] \in {"reap", "reaping"} THEN {prey[p]} ELSE {})
Visits(p) ==
  doomed[p] \cup (IF pc[p] \in {"unlock", "remove", "removing"} THEN {target[p]} ELSE {})
Spared(p) == Others(p) \ Visits(p)

PresentFinite == IsFiniteSet(Present)

(* A launch that is not crowded is the only one. *)
AloneAlive == \A p \in Alive \ crowded : Alive = {p}

PrunedAlone ==
  \A p \in Alive \ crowded : pc[p] \in Pruning =>
    /\ Visits(p) \subseteq Key \ {key[p]}
    /\ Cardinality(Spared(p)) <= Keep
    /\ pc[p] = "removing" => root[target[p]] # "complete"
    /\ pc[p] = "run" => doomed[p] = {}
    /\ pc[p] \notin Sweeping => listed[p] = {}
    /\ \A q \in Proc \ {p}, k \in Key : stage[k][q] # "none" => <<k, q>> \in Unswept(p)

BoundInv == PresentFinite /\ AloneAlive /\ PrunedAlone

(* Nothing is cached and nobody runs (lib.rs:253-258).                      *)
LEMMA BoundStarts == Init => BoundInv
<1> SUFFICES ASSUME Init PROVE BoundInv
  OBVIOUS
<1>1. Present = {} /\ Alive = {}
  BY DEF Init, Present, Alive
<1> QED
  BY <1>1, FS_EmptySet DEF BoundInv, PresentFinite, AloneAlive, PrunedAlone

(* A set that is contained in a finite one is no larger. *)
LEMMA SmallerSet ==
  ASSUME NEW S, IsFiniteSet(S), NEW T, T \subseteq S
  PROVE  /\ Cardinality(T) <= Cardinality(S)
         /\ Cardinality(T) \in Nat /\ Cardinality(S) \in Nat
<1>1. IsFiniteSet(T) /\ Cardinality(T) <= Cardinality(S)
  BY FS_Subset
<1>2. Cardinality(S) \in Nat
  BY FS_CardinalityType
<1>3. Cardinality(T) \in Nat
  BY <1>1, FS_CardinalityType
<1> QED
  BY <1>1, <1>2, <1>3

(* A set that exceeds a finite one by one element has at most one more. *)
LEMMA OneMore ==
  ASSUME NEW S, IsFiniteSet(S), NEW x, NEW T, T \subseteq S \cup {x}
  PROVE  /\ Cardinality(T) <= Cardinality(S) + 1
         /\ Cardinality(T) \in Nat /\ Cardinality(S) \in Nat
<1>1. /\ IsFiniteSet(S \cup {x})
      /\ Cardinality(S \cup {x}) = IF x \in S THEN Cardinality(S) ELSE Cardinality(S) + 1
  BY FS_AddElement
<1>2. Cardinality(S) \in Nat
  BY FS_CardinalityType
<1>3. /\ Cardinality(T) <= Cardinality(S \cup {x})
      /\ Cardinality(T) \in Nat /\ Cardinality(S \cup {x}) \in Nat
  BY <1>1, SmallerSet
<1> QED
  BY <1>1, <1>2, <1>3

(* A step adds at most one payload, that of the launch that makes it        *)
(* (lib.rs:284-294).                                                        *)
LEMMA NextPresent == ASSUME IInv, PresentFinite, [Next]_vars PROVE PresentFinite'
<1> USE DEF IInv, TypeOK, disk, sweeping, own
<1>1. \E k \in Key : Present' \subseteq Present \cup {k}
  <2>0. Key # {}
    BY CacheAssumption
  <2>1. ASSUME NEW p \in Proc, DropRoot(p) \/ DroppedRoot(p) \/ RemovePayload(p) \/ RemovedPayload(p)
        PROVE  Present' \subseteq Present
    BY <2>1, RemovalTyped DEF DropRoot, DroppedRoot, RemovePayload, RemovedPayload, Present
  <2>2. ASSUME NEW p \in Proc, Activate(p) PROVE Present' \subseteq Present \cup {key[p]}
    BY <2>2 DEF Activate, Present
  <2>3. CASE root' = root
    BY <2>0, <2>3 DEF Present
  <2>4. ASSUME NEW p \in Proc, EndReap(p) PROVE Present' \subseteq Present
    BY <2>4, RemovalTyped DEF EndReap, Present
  <2> QED
    BY <2>0, <2>1, <2>2, <2>3, <2>4, RootKept
<1>2. PICK k \in Key : Present' \subseteq Present \cup {k}
  BY <1>1
<1>3. IsFiniteSet(Present \cup {k})
  BY FS_AddElement DEF PresentFinite
<1> QED
  BY <1>2, <1>3, FS_Subset DEF PresentFinite

(* A launch that finds another one alive is crowded, and so is that one     *)
(* (lib.rs:58-74).                                                          *)
LEMMA NextAlone == ASSUME IInv, AloneAlive, [Next]_vars PROVE AloneAlive'
<1> USE DEF IInv, TypeOK, AloneAlive, Alive, Goto, disk, sweeping, own
<1>1. ASSUME NEW p \in Proc, NEW k \in Key, Launch(p, k) PROVE AloneAlive'
  BY <1>1 DEF Launch
<1>2. ASSUME NEW p \in Proc, Stop(p) PROVE AloneAlive'
  BY <1>2 DEF Stop
<1>3. ASSUME NEW p \in Proc, pc[p] # "off", crowded' = crowded,
             \A q \in Proc \ {p} : pc'[q] = pc[q]
      PROVE  AloneAlive'
  BY <1>3
<1>4. CASE UNCHANGED vars
  BY <1>4 DEF vars
<1> QED
  BY <1>1, <1>2, <1>3, <1>4, OthersKept

(* A launch that prunes alone has made the step itself (lib.rs:117-161).    *)
LEMMA PrunesAlone ==
  ASSUME IInv, AloneAlive, Next, NEW p \in Proc,
         p \in Alive' \ crowded', pc'[p] \in Pruning
  PROVE  /\ p \in Alive \ crowded /\ Alive = {p}
         /\ ScanCache(p) \/ PruneStep(p)
<1> USE DEF IInv, TypeOK, AloneAlive, Alive, Goto, disk, sweeping, own, Pruning, Sweeping
<1>1. PICK r \in Proc :
           \/ Stop(r) \/ \E k \in Key : Launch(r, k)
           \/ /\ pc[r] # "off" /\ crowded' = crowded /\ \A q \in Proc \ {r} : pc'[q] = pc[q]
              /\ \/ Probe(r) \/ CleanStaging(r) \/ Extract(r) \/ DropRoot(r) \/ DroppedRoot(r)
                 \/ Activate(r) \/ LockPayload(r) \/ GrowOld(r) \/ ScanCache(r) \/ PruneStep(r)
  BY OthersKept
<1>2. ASSUME NEW k \in Key, Launch(r, k) PROVE FALSE
  BY <1>2 DEF Launch
<1>3. ~Stop(r)
  <2>1. SUFFICES ASSUME Stop(r) PROVE FALSE
    OBVIOUS
  <2> QED BY <2>1 DEF Stop
<1>4. pc[r] # "off" /\ crowded' = crowded /\ \A q \in Proc \ {r} : pc'[q] = pc[q]
  BY <1>1, <1>2, <1>3
<1>5. r = p
  BY <1>4
<1>6. p \in Alive \ crowded /\ Alive = {p}
  BY <1>4, <1>5
<1> QED
  BY <1>1, <1>2, <1>3, <1>5, <1>6
  DEF Probe, CleanStaging, Extract, DropRoot, DroppedRoot, Activate, LockPayload, GrowOld, Extracting

(* What the scan leaves beside the launch's own payload is Keep payloads at *)
(* most, and no staging directory it has not listed (lib.rs:118-145).       *)
LEMMA ScanLeavesKeep ==
  ASSUME IInv, PresentFinite, NEW p \in Proc, Alive = {p}, ScanCache(p)
  PROVE  /\ Visits(p)' \subseteq Key \ {key[p]} /\ Cardinality(Spared(p)') <= Keep
         /\ \A q \in Proc \ {p}, k \in Key : stage'[k][q] # "none" => <<k, q>> \in Unswept(p)'
<1> USE DEF IInv, TypeOK, Goto
<1>1. PICK D \in SUBSET Others(p) :
        /\ Cardinality(D) + Keep = Cardinality(Others(p)) \/ D = {}
        /\ D = {} => Cardinality(Others(p)) <= Keep
        /\ doomed' = [doomed EXCEPT ![p] = D]
  BY DEF ScanCache
<1>2. Others(p)' = Others(p) /\ Visits(p)' = D /\ D \subseteq Key \ {key[p]}
  BY <1>1 DEF ScanCache, Others, Visits, disk
<1>3. IsFiniteSet(Others(p))
  BY FS_Subset DEF PresentFinite, Present, Others
<1>4. Cardinality(Others(p) \ D) = Cardinality(Others(p)) - Cardinality(D)
  <2>1. Others(p) \cap D = D
    BY <1>1
  <2> QED BY <2>1, <1>3, FS_Difference
<1>5. Cardinality(Others(p)) \in Nat /\ Cardinality(D) \in Nat
  BY <1>1, <1>3, FS_Subset, FS_CardinalityType
<1>6. Cardinality(Others(p) \ D) <= Keep
  BY <1>1, <1>4, <1>5, FS_EmptySet, CacheAssumption
<1>7. \A q \in Proc \ {p}, k \in Key : stage'[k][q] # "none" => <<k, q>> \in Unswept(p)'
  <2>1. stage' = stage /\ listed'[p] = Staged
    BY DEF ScanCache, disk
  <2> QED BY <2>1 DEF Staged, Unswept
<1> QED
  BY <1>2, <1>6, <1>7 DEF Spared

(* A removal of a staging directory that meets no live extraction takes all *)
(* of it, and no payload directory appears by it (lib.rs:133-135).          *)
LEMMA SweepsListed ==
  ASSUME IInv, NEW p \in Proc, Alive = {p}, pc[p] \in Sweeping,
         \A q \in Proc \ {p}, k \in Key : stage[k][q] # "none" => <<k, q>> \in Unswept(p),
         \/ BeginReap(p) \/ EndReap(p) \/ SweepDone(p)
         \/ \E k \in Key, q \in Proc : JudgeStaging(p, k, q)
  PROVE  /\ key' = key /\ doomed' = doomed /\ pc'[p] \in Sweeping \cup {"judge"}
         /\ \A x \in Key : root[x] = "none" => root'[x] = "none"
         /\ pc'[p] = "judge" => listed'[p] = {}
         /\ \A q \in Proc \ {p}, k \in Key : stage'[k][q] # "none" => <<k, q>> \in Unswept(p)'
<1> USE DEF IInv, TypeOK, Goto, Unswept, Sweeping, disk, sweeping, own
<1>1. CASE SweepDone(p)
  BY <1>1 DEF SweepDone
<1>2. ASSUME NEW k \in Key, NEW q \in Proc, JudgeStaging(p, k, q)
      PROVE  /\ key' = key /\ doomed' = doomed /\ pc'[p] \in Sweeping \cup {"judge"}
             /\ \A x \in Key : root[x] = "none" => root'[x] = "none"
             /\ pc'[p] = "judge" => listed'[p] = {}
             /\ \A y \in Proc \ {p}, x \in Key : stage'[x][y] # "none" => <<x, y>> \in Unswept(p)'
  <2>1. /\ UNCHANGED <<disk, own>> /\ pc[p] = "sweep"
        /\ listed' = [listed EXCEPT ![p] = @ \ {<<k, q>>}]
    BY <1>2 DEF JudgeStaging
  <2>2. CASE pc'[p] = "reap" /\ prey' = [prey EXCEPT ![p] = <<k, q>>]
    BY <2>1, <2>2
  <2>3. CASE ~Reapable(k, q) /\ UNCHANGED <<pc, prey>>
    <3>1. q = p \/ stage[k][q] = "none"
      BY <2>3 DEF Reapable
    <3> QED BY <2>1, <2>3, <3>1
  <2> QED BY <1>2, <2>2, <2>3 DEF JudgeStaging
<1>3. CASE BeginReap(p)
  <2>1. /\ pc[p] = "reap" /\ pc'[p] = "reaping"
        /\ UNCHANGED <<root, lock, aged, sweeping, own, haunted>>
    BY <1>3 DEF BeginReap
  <2>2. \A y \in Proc, x \in Key : stage'[x][y] # "none" => stage[x][y] # "none"
    BY <1>3, ReapStages
  <2> QED BY <2>1, <2>2
<1>4. CASE EndReap(p)
  <2> DEFINE k == prey[p][1]
             q == prey[p][2]
  <2>1. k \in Key /\ q \in Proc /\ prey[p] = <<k, q>>
    OBVIOUS
  <2>2. /\ pc[p] = "reaping" /\ pc'[p] = "sweep" /\ UNCHANGED <<aged, listed, own, haunted>>
        /\ UNCHANGED <<root, lock>> \/ BeginRemove(k)
    BY <1>4 DEF EndReap
  <2>3. pc[q] # "extract"
    <3>1. q \in Alive => q = p
      OBVIOUS
    <3> HIDE DEF q
    <3> QED BY <2>1, <2>2, <3>1 DEF Alive
  <2>4. stage' = [stage EXCEPT ![k][q] = "none"]
    BY <1>4, <2>3 DEF EndReap
  <2>5. \A x \in Key : root[x] = "none" => root'[x] = "none"
    BY <2>1, <2>2, RemovalTyped
  <2> HIDE DEF k, q
  <2>6. \A y \in Proc \ {p}, x \in Key : stage'[x][y] # "none" => <<x, y>> \in listed'[p]
    BY <2>1, <2>2, <2>4
  <2> QED BY <2>2, <2>5, <2>6
<1> QED BY <1>1, <1>2, <1>3, <1>4

(* No step after the scan brings back what it has removed (lib.rs:129-161). *)
LEMMA RemovesVisited ==
  ASSUME IInv, PresentFinite, NEW p \in Proc, Alive = {p}, pc[p] \in Pruning,
         Visits(p) \subseteq Key \ {key[p]}, pc[p] = "removing" => root[target[p]] # "complete",
         pc[p] \notin Sweeping => listed[p] = {},
         \A q \in Proc \ {p}, k \in Key : stage[k][q] # "none" => <<k, q>> \in Unswept(p),
         PruneStep(p)
  PROVE  /\ Visits(p)' \subseteq Visits(p) /\ Spared(p)' \subseteq Spared(p)
         /\ key' = key
         /\ pc'[p] = "removing" => root'[target'[p]] # "complete"
         /\ pc'[p] = "run" => doomed'[p] = {}
         /\ pc'[p] \notin Sweeping => listed'[p] = {}
         /\ \A q \in Proc \ {p}, k \in Key : stage'[k][q] # "none" => <<k, q>> \in Unswept(p)'
<1> DEFINE Kept == /\ Visits(p)' \subseteq Visits(p) /\ Spared(p)' \subseteq Spared(p)
                   /\ key' = key
                   /\ pc'[p] = "removing" => root'[target'[p]] # "complete"
                   /\ pc'[p] = "run" => doomed'[p] = {}
           Swept == /\ pc'[p] \notin Sweeping => listed'[p] = {}
                    /\ \A q \in Proc \ {p}, k \in Key :
                         stage'[k][q] # "none" => <<k, q>> \in Unswept(p)'
<1>0. CASE \/ BeginReap(p) \/ EndReap(p) \/ SweepDone(p)
           \/ \E k \in Key, q \in Proc : JudgeStaging(p, k, q)
  <2>1. pc[p] \in Sweeping
    BY <1>0 DEF BeginReap, EndReap, SweepDone, JudgeStaging, Goto, Sweeping
  <2>2. /\ key' = key /\ doomed' = doomed /\ pc'[p] \in Sweeping \cup {"judge"}
        /\ \A x \in Key : root[x] = "none" => root'[x] = "none"
        /\ pc'[p] = "judge" => listed'[p] = {}
        /\ \A q \in Proc \ {p}, k \in Key : stage'[k][q] # "none" => <<k, q>> \in Unswept(p)'
    BY <1>0, <2>1, SweepsListed
  <2>3. Visits(p) = doomed[p] /\ Visits(p)' = doomed[p]
    BY <2>1, <2>2 DEF Visits, Sweeping
  <2>4. Spared(p)' \subseteq Spared(p)
    BY <2>2, <2>3 DEF Spared, Others
  <2> QED BY <2>2, <2>3, <2>4 DEF Sweeping
<1>1. ASSUME pc[p] \notin Sweeping, pc'[p] \notin Sweeping, stage' = stage, listed' = listed
      PROVE  Swept
  BY <1>1 DEF Unswept, Sweeping
<1> HIDE DEF Swept
<1> USE DEF IInv, TypeOK, Goto, Visits, Spared, Others, Pruning, Sweeping, disk, sweeping, own
<1>2. CASE Unlock(p)
  <2>1. Kept
    BY <1>2 DEF Unlock
  <2> QED BY <1>1, <1>2, <2>1 DEF Unlock, Swept
<1>3. CASE RemovePayload(p)
  <2>1. \A x \in Key : root[x] = "none" => root'[x] = "none"
    BY <1>3, RemovalTyped DEF RemovePayload
  <2>2. root'[target[p]] # "complete"
    BY <1>3 DEF RemovePayload, BeginRemove, Marked, RootState
  <2>3. Kept
    BY <1>3, <2>1, <2>2 DEF RemovePayload
  <2> QED BY <1>1, <1>3, <2>3 DEF RemovePayload, Swept
<1>4. CASE RemovedPayload(p)
  <2>1. root'[target[p]] = "none" /\ \A x \in Key \ {target[p]} : root'[x] = root[x]
    BY <1>4 DEF RemovedPayload, EndRemove
  <2>2. Kept
    BY <1>4, <2>1 DEF RemovedPayload
  <2> QED BY <1>1, <1>4, <2>2 DEF RemovedPayload, Swept
<1>5. CASE Run(p)
  <2>1. Kept
    BY <1>5 DEF Run
  <2> QED BY <1>1, <1>5, <2>1 DEF Run, Swept
<1>6. ASSUME NEW k \in Key, JudgeRemovable(p, k) PROVE Kept /\ Swept
  <2>1. Kept
    BY <1>6 DEF JudgeRemovable
  <2> QED BY <1>1, <1>6, <2>1 DEF JudgeRemovable
<1>7. ASSUME NEW k \in Key, JudgeLocked(p, k) PROVE FALSE
  <2>1. lock[k] = p /\ key[p] # k /\ pc[p] = "judge"
    BY <1>7 DEF JudgeLocked, LockHolderLive
  <2> QED BY <2>1, <1>7, CacheAssumption DEF LockHolderLive, JudgeLocked
<1> QED
  BY <1>0, <1>2, <1>3, <1>4, <1>5, <1>6, <1>7 DEF PruneStep, Swept

(* From the scan to the run, what is kept stays within Keep                 *)
(* (lib.rs:117-161).                                                        *)
LEMMA NextPruned == ASSUME IInv, BoundInv, [Next]_vars PROVE PrunedAlone'
<1> USE DEF IInv, BoundInv
<1>1. CASE UNCHANGED vars
  <2>1. UNCHANGED <<pc, key, root, stage, listed, prey, doomed, target, crowded>>
    BY <1>1 DEF vars
  <2>2. /\ Alive' = Alive
        /\ \A p \in Proc : Visits(p)' = Visits(p) /\ Spared(p)' = Spared(p) /\ Unswept(p)' = Unswept(p)
    BY <2>1 DEF Alive, Visits, Spared, Others, Unswept
  <2>3. \A p \in Alive : p \in Proc
    BY DEF Alive
  <2> QED BY <2>1, <2>2, <2>3 DEF PrunedAlone
<1>2. CASE Next
  <2> SUFFICES ASSUME NEW p \in (Alive \ crowded)', pc'[p] \in Pruning
               PROVE  /\ Visits(p)' \subseteq Key \ {key'[p]}
                      /\ Cardinality(Spared(p)') <= Keep
                      /\ pc'[p] = "removing" => root'[target'[p]] # "complete"
                      /\ pc'[p] = "run" => doomed'[p] = {}
                      /\ pc'[p] \notin Sweeping => listed'[p] = {}
                      /\ \A q \in Proc \ {p}, k \in Key :
                           stage'[k][q] # "none" => <<k, q>> \in Unswept(p)'
    BY DEF PrunedAlone
  <2>0. p \in Proc
    BY DEF Alive
  <2>1. p \in Alive \ crowded /\ Alive = {p}
    BY <1>2, <2>0, PrunesAlone
  <2>2. CASE ScanCache(p)
    <3>1. pc'[p] = "sweep" /\ key' = key
      BY <2>0, <2>2 DEF ScanCache, Goto, TypeOK
    <3> QED BY <2>0, <2>1, <2>2, <3>1, ScanLeavesKeep DEF Sweeping
  <2>3. CASE ~ScanCache(p)
    <3>1. PruneStep(p)
      BY <1>2, <2>0, <2>3, PrunesAlone
    <3>2. pc[p] \in Pruning
      BY <3>1 DEF PruneStep, BeginReap, EndReap, SweepDone, JudgeStaging, Unlock, RemovePayload,
                  RemovedPayload, Run, JudgeRemovable, JudgeLocked, Goto, Pruning, Sweeping
    <3>3. /\ Visits(p) \subseteq Key \ {key[p]} /\ Cardinality(Spared(p)) <= Keep
          /\ pc[p] = "removing" => root[target[p]] # "complete"
          /\ pc[p] \notin Sweeping => listed[p] = {}
          /\ \A q \in Proc \ {p}, k \in Key : stage[k][q] # "none" => <<k, q>> \in Unswept(p)
      BY <2>1, <3>2 DEF PrunedAlone
    <3>4. /\ Visits(p)' \subseteq Visits(p) /\ Spared(p)' \subseteq Spared(p)
          /\ key' = key
          /\ pc'[p] = "removing" => root'[target'[p]] # "complete"
          /\ pc'[p] = "run" => doomed'[p] = {}
          /\ pc'[p] \notin Sweeping => listed'[p] = {}
          /\ \A q \in Proc \ {p}, k \in Key : stage'[k][q] # "none" => <<k, q>> \in Unswept(p)'
      BY <2>0, <2>1, <3>1, <3>2, <3>3, RemovesVisited
    <3>5. IsFiniteSet(Spared(p))
      BY FS_Subset DEF PresentFinite, Present, Spared, Others
    <3>6. Cardinality(Spared(p)') <= Keep
      <4>1. /\ Cardinality(Spared(p)') <= Cardinality(Spared(p))
            /\ Cardinality(Spared(p)') \in Nat /\ Cardinality(Spared(p)) \in Nat
        BY <3>4, <3>5, SmallerSet
      <4> QED BY <3>3, <4>1, CacheAssumption
    <3> QED BY <3>3, <3>4, <3>6
  <2> QED BY <2>2, <2>3
<1> QED
  BY <1>1, <1>2

(* A launch that was alone leaves Keep payloads beside its own and no       *)
(* staging directory, whatever died before (lib.rs:54-56, 117-161).         *)
THEOREM Bounded == Spec => []CacheBounded
<1>1. Init => BoundInv
  BY BoundStarts
<1>2. IInv /\ BoundInv /\ [Next]_vars => BoundInv'
  BY NextPresent, NextAlone, NextPruned DEF BoundInv
<1>3. IInv /\ BoundInv => CacheBounded
  <2> SUFFICES ASSUME IInv, BoundInv, NEW p \in Proc \ crowded, pc[p] = "run"
               PROVE  /\ \A q \in Proc : p # q => \A k \in Key : stage[k][q] = "none"
                      /\ Cardinality(Present) <= Keep + 1
    BY DEF CacheBounded, NoOrphanStaging, Present
  <2>1. p \in Alive \ crowded /\ pc[p] \in Pruning
    BY DEF Alive, Pruning
  <2>2. /\ Cardinality(Spared(p)) <= Keep /\ doomed[p] = {}
        /\ \A q \in Proc \ {p}, k \in Key : stage[k][q] = "none"
    BY <2>1 DEF BoundInv, PrunedAlone, Unswept, Sweeping
  <2>3. Spared(p) = Others(p)
    BY <2>2 DEF Spared, Visits
  <2>4. IsFiniteSet(Spared(p)) /\ Present \subseteq Spared(p) \cup {key[p]}
    BY <2>3, FS_Subset DEF BoundInv, PresentFinite, Present, Others
  <2>5. /\ Cardinality(Present) <= Cardinality(Spared(p)) + 1
        /\ Cardinality(Present) \in Nat /\ Cardinality(Spared(p)) \in Nat
    BY <2>4, OneMore
  <2> QED BY <2>2, <2>5, CacheAssumption
<1> QED
  BY <1>1, <1>2, <1>3, Invariance, PTL DEF Spec

-----------------------------------------------------------------------------
(***************************************************************************)
(* The temp trees for every number of launches, pids and names.  What makes *)
(* the sweep safe is that a marker holds the pid of the launch that uses    *)
(* the tree (OwnMarker) and that no two launches ever share a tree.         *)
(***************************************************************************)

HasTree == {"mark", "run", "drop"}

(* A launch has a tree from its extraction until its end. *)
TreeByStep ==
  \A p \in Pid : IF launch[p] \in HasTree THEN tree[p] \in Name ELSE tree[p] = None

DistinctTrees ==
  \A p, q \in Pid : tree[p] = tree[q] /\ tree[p] # None => p = q

OwnMarker ==
  \A p \in Pid :
    launch[p] \in {"mark", "run"} /\ state[tree[p]] = "marked" => owner[tree[p]] = p

TempInv == TempTypeOK /\ TreeByStep /\ DistinctTrees /\ OwnMarker

(* Nothing is extracted at first (main.rs:641-655). *)
LEMMA TempStarts == TempInit => TempInv
  BY NoneAssumption DEF TempInit, TempInv, TempTypeOK, TreeByStep, DistinctTrees, OwnMarker, LaunchSteps, HasTree

(* Every step of every launch keeps the invariant (main.rs:641-740). *)
LEMMA TempStep == TempInv /\ [TempNext]_tempVars => TempInv'
<1> SUFFICES ASSUME TempInv, [TempNext]_tempVars PROVE TempInv'
  OBVIOUS
<1> USE NoneAssumption DEF TempInv, TempTypeOK, TreeByStep, DistinctTrees, OwnMarker, LaunchSteps, HasTree
<1>1. ASSUME NEW p \in Pid, Start(p) PROVE TempInv'
  BY <1>1 DEF Start, LaunchGoto
<1>2. ASSUME NEW p \in Pid, Sweep(p) PROVE TempInv'
  BY <1>2 DEF Sweep, LaunchGoto, ReapableTree
<1>3. ASSUME NEW p \in Pid, Mark(p) PROVE TempInv'
  BY <1>3 DEF Mark, LaunchGoto
<1>4. ASSUME NEW p \in Pid, MarkTorn(p) PROVE TempInv'
  BY <1>4 DEF MarkTorn, LaunchGoto
<1>5. ASSUME NEW p \in Pid, Drop(p) PROVE TempInv'
  BY <1>5 DEF Drop, LaunchGoto
<1>6. ASSUME NEW p \in Pid, StopLaunch(p) PROVE TempInv'
  BY <1>6 DEF StopLaunch, AlivePids
<1>7. ASSUME NEW p \in Pid, NEW n \in Name, ExtractTree(p, n) PROVE TempInv'
  BY <1>7 DEF ExtractTree, LaunchGoto
<1>8. ASSUME NEW n \in Name, TreeGrowsOld(n) PROVE TempInv'
  BY <1>8 DEF TreeGrowsOld
<1>9. CASE UNCHANGED tempVars
  BY <1>9 DEF tempVars
<1> QED
  BY <1>1, <1>2, <1>3, <1>4, <1>5, <1>6, <1>7, <1>8, <1>9 DEF TempNext

(* The invariant in every reachable state (main.rs:641-740). *)
THEOREM TempInvariance == TempSpec => []TempInv
  BY TempStarts, TempStep, PTL DEF TempSpec

(* The trees, their markers and the launches keep their types               *)
(* (main.rs:145-343).                                                       *)
THEOREM TempTypeCorrect == TempSpec => []TempTypeOK
  BY TempInvariance, PTL DEF TempInv

(* No two launches ever work in the same tree (main.rs:289-343).            *)
THEOREM TreesNeverShared == TempSpec => []DistinctTrees
  BY TempInvariance, PTL DEF TempInv

(* A launch keeps the tree it runs from, whichever launches sweep, however  *)
(* old it gets and whichever pids come back (main.rs:183-230).              *)
THEOREM TreeKept == TempSpec => RunningTreeKept
<1> DEFINE Kept == \A p \in Pid :
             launch[p] \in {"mark", "run"} /\ state[tree[p]] # "absent" /\ ~Drop(p) =>
               \/ state'[tree[p]] # "absent"
               \/ state[tree[p]] = "bare" /\ tree[p] \in old
<1>1. TempInv /\ TempNext => Kept
  <2> SUFFICES ASSUME TempInv, TempNext, NEW p \in Pid, launch[p] \in {"mark", "run"},
                      state[tree[p]] # "absent", ~Drop(p)
               PROVE  \/ state'[tree[p]] # "absent"
                      \/ state[tree[p]] = "bare" /\ tree[p] \in old
    OBVIOUS
  <2>1. tree[p] \in Name /\ p \in AlivePids
    BY DEF TempInv, TreeByStep, HasTree, AlivePids
  <2>2. CASE \E q \in Pid : Sweep(q)
    BY <2>1, <2>2 DEF Sweep, ReapableTree, TempInv, OwnMarker, TempTypeOK
  <2>3. CASE \E q \in Pid : Drop(q)
    <3>1. PICK q \in Pid : Drop(q)
      BY <2>3
    <3>2. tree[q] # tree[p]
      BY <2>1, <3>1, NoneAssumption DEF TempInv, DistinctTrees
    <3> QED
      BY <2>1, <3>1, <3>2 DEF Drop, TempInv, TempTypeOK
  <2>4. CASE \E q \in Pid : Mark(q) \/ MarkTorn(q) \/ Start(q) \/ StopLaunch(q)
    BY <2>1, <2>4 DEF Mark, MarkTorn, Start, StopLaunch, TempInv, TempTypeOK, LaunchGoto
  <2>5. CASE \E q \in Pid, n \in Name : ExtractTree(q, n)
    BY <2>1, <2>5 DEF ExtractTree, TempInv, TempTypeOK
  <2>6. CASE \E n \in Name : TreeGrowsOld(n)
    BY <2>6 DEF TreeGrowsOld
  <2> QED
    BY <2>2, <2>3, <2>4, <2>5, <2>6 DEF TempNext
<1>2. TempInv /\ [TempNext]_tempVars => [Kept]_tempVars
  BY <1>1
<1> QED
  BY TempInvariance, <1>2, PTL DEF TempSpec, RunningTreeKept

(* A sweep leaves no tree of a dead launch but those it may not touch       *)
(* (main.rs:195-230).                                                       *)
THEOREM SweepReaps == TempSpec => DeadTreesReaped
<1> DEFINE Reaped == \A p \in Pid : Sweep(p) =>
             \A n \in Name : state'[n] # "absent" =>
               \/ owner[n] \in AlivePids
               \/ state[n] = "garbled"
               \/ state[n] = "bare" /\ n \notin old
<1>1. TempInv /\ [TempNext]_tempVars => [Reaped]_tempVars
  BY DEF TempInv, TempTypeOK, Sweep, ReapableTree
<1> QED
  BY TempInvariance, <1>1, PTL DEF TempSpec, DeadTreesReaped
=============================================================================
