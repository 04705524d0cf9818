------------------------- MODULE RuntimeStoreProofs -------------------------
(***************************************************************************)
(* Launches and updates of one runtime store, for any number of both, any   *)
(* tuples, directories and manifests.                                       *)
(***************************************************************************)
EXTENDS RuntimeStore, VersionsProofs

Allowed(j) == WantsPrerelease(j.m) \/ j.allow

(* A launch that has resolved a tuple has one its manifest allows. *)
ChosenAllowed ==
  \A p \in Proc : pc[p] \in {"load", "run"} =>
    /\ chosen[p] \in Tuple \X Dir
    /\ ~job[p].m.malformed
    /\ chosen[p][1] \in Eligible(job[p].m, Allowed(job[p]), Tuple)

ImageChosen == \A p \in Proc : pc[p] = "run" => image[p] = chosen[p][1]

(* What is about to be installed is a file, and has passed its checksum.    *)
TmpVerified ==
  \A u \in Updater :
    /\ upc[u] \in {"verify", "install"} => tmp[u] \in Build
    /\ upc[u] = "install" /\ plan[u].checked => tmp[u] = plan[u].v

(* A release of the stable channel carries a stable tuple. *)
PlanOfChannel ==
  \A u \in Updater : upc[u] # "off" => (IsPrerelease(plan[u].v) => plan[u].beta)

(* An update that is done has found or left a tuple as new as the release.  *)
Reached ==
  \A u \in Updater : upc[u] = "done" =>
    \E v \in Installed(plan[u].search) :
      (IsPrerelease(v) => plan[u].beta) /\ ~Less(v, plan[u].v)

LaunchInv == LauncherTypeOK /\ ChosenAllowed /\ ImageChosen
IInv == TypeOK /\ ChosenAllowed /\ ImageChosen /\ TmpVerified /\ PlanOfChannel
          /\ StoreVerified /\ Reached
-----------------------------------------------------------------------------
(* "No version" is none (main.rs:411, update.rs:597). *)
LEMMA NoVersionIsNone == NoVersion \notin Version
  BY DEF NoVersion, Version

(* What is installed in a search path is tuples, finitely many              *)
(* (main.rs:406-441).                                                       *)
LEMMA InstalledFinite ==
  ASSUME NEW w PROVE Installed(w) \subseteq Tuple /\ IsFiniteSet(Installed(w))
  BY LauncherAssumption, FS_Subset DEF Installed

(* The first directory that has the tuple exists when one has it            *)
(* (main.rs:411-447: `v > *bv` keeps the first).                            *)
LEMMA FirstIndex ==
  ASSUME NEW at \in SUBSET Nat, at # {}
  PROVE  \E i \in at : \A k \in at : i <= k
<1>1. \E i \in at : \A k \in at : ~(<<k, i>> \in OpToRel(<, Nat))
  BY NatLessThanWellFounded, WFMin
<1>2. \E i \in at : \A k \in at : ~(k < i)
  BY <1>1, Zenon DEF OpToRel
<1> QED
  BY <1>2

(* resolve_runtime returns an installed tuple the policy allows, and one    *)
(* of the directories searched (main.rs:406-448).                           *)
LEMMA ResolutionSound ==
  ASSUME NEW m, NEW allow \in BOOLEAN, NEW view \in View,
         Resolution(m, allow, view) # NoTuple
  PROVE  /\ Resolution(m, allow, view) \in Tuple \X Dir
         /\ Resolution(m, allow, view)[1] \in Eligible(m, allow, Tuple)
<1> DEFINE S == Eligible(m, allow, Installed(view))
           v == Newest(S)
           at == {i \in DOMAIN view : v # NoVersion /\ store[view[i]][v] # Missing}
           first == CHOOSE i \in at : \A k \in at : i <= k
<1>1. S \subseteq Installed(view) /\ S \subseteq Tuple /\ IsFiniteSet(S)
  BY InstalledFinite, FS_Subset DEF Eligible
<1>2. v # NoVersion
  BY DEF Resolution, NoTuple
<1>3. v \in S
  <2>1. S # {}
    BY <1>2 DEF Newest
  <2> QED
    BY <1>1, <2>1, LauncherAssumption, NewestIsGreatest
<1>4. view \in Seq(Dir)
  BY LauncherAssumption
<1>5. at # {} /\ at \in SUBSET Nat
  <2>1. v \in Installed(view)
    BY <1>1, <1>3
  <2>2. \E i \in DOMAIN view : store[view[i]][v] # Missing
    BY <2>1 DEF Installed
  <2> HIDE DEF v
  <2> QED BY <1>2, <1>4, <2>2
<1>6. first \in at
  BY <1>5, FirstIndex
<1>7. view[first] \in Dir
  BY <1>4, <1>6
<1>8. Resolution(m, allow, view) = <<v, view[first]>>
  BY <1>2 DEF Resolution
<1>9. v \in Eligible(m, allow, Tuple)
  BY <1>1, <1>3 DEF Eligible
<1> HIDE DEF v, first
<1> QED
  BY <1>1, <1>3, <1>7, <1>8, <1>9
-----------------------------------------------------------------------------
(* A process or an update that is not alive has a state of its own kind     *)
(* (main.rs:641-655, update.rs:604-615).                                    *)
LEMMA IdleTyped == Idle \in Job /\ Idler \in Plan
<1>1. PICK a \in Artifact, w \in View, t \in Tuple : TRUE
  BY LauncherAssumption
<1>2. [m |-> a, view |-> w, allow |-> FALSE] \in Job
  BY DEF Job
<1>3. [v |-> t, beta |-> FALSE, search |-> w, checked |-> FALSE] \in Plan
  BY DEF Plan
<1> QED
  BY <1>2, <1>3 DEF Idle, Idler

(* No tuple is resolved as long as a launch has resolved none (main.rs:411). *)
LEMMA NoTupleIsNone == NoTuple \notin Tuple \X Dir
  BY LauncherAssumption, NoVersionIsNone DEF NoTuple

(* An empty store without launches or updates (main.rs:641-655,             *)
(* update.rs:604-615).                                                      *)
LEMMA InitIInv == Init => IInv
  BY IdleTyped, LauncherAssumption, UpdatesAssumption
  DEF Init, LauncherInit, IInv, TypeOK, LauncherTypeOK, ChosenAllowed, ImageChosen,
      TmpVerified, PlanOfChannel, StoreVerified, Reached, Steps, UpdateSteps

(* What a launch has resolved and loaded depends on its own steps only      *)
(* (main.rs:478-704).                                                       *)
LEMMA LaunchKeeps ==
  ASSUME LaunchInv, LauncherNext PROVE LaunchInv' /\ store' = store
<1> USE DEF LaunchInv, LauncherTypeOK, ChosenAllowed, ImageChosen, Goto, Steps
<1>1. ASSUME NEW p \in Proc, NEW j \in Job, Start(p, j) PROVE LaunchInv' /\ store' = store
  BY <1>1 DEF Start
<1>2. ASSUME NEW p \in Proc, Resolve(p) PROVE LaunchInv' /\ store' = store
  <2> DEFINE j == job[p]
             r == Resolution(j.m, WantsPrerelease(j.m) \/ j.allow, j.view)
  <2>1. j \in Job /\ j.view \in View /\ (WantsPrerelease(j.m) \/ j.allow) \in BOOLEAN
    BY DEF Job
  <2>2. r # NoTuple /\ ~j.m.malformed
    BY <1>2 DEF Resolve
  <2>3. r \in Tuple \X Dir /\ r[1] \in Eligible(j.m, Allowed(j), Tuple)
    BY <2>1, <2>2, ResolutionSound DEF Allowed
  <2>4. /\ pc[p] = "resolve" /\ pc' = [pc EXCEPT ![p] = "load"]
        /\ chosen' = [chosen EXCEPT ![p] = r]
        /\ UNCHANGED <<store, job, image>>
    BY <1>2 DEF Resolve
  <2> HIDE DEF j, r
  <2>5. j = job[p]
    BY DEF j
  <2> QED
    BY <2>2, <2>3, <2>4, <2>5
<1>3. ASSUME NEW p \in Proc, Load(p) PROVE LaunchInv' /\ store' = store
  BY <1>3 DEF Load
<1>4. ASSUME NEW p \in Proc, Stop(p) PROVE LaunchInv' /\ store' = store
  BY <1>4, IdleTyped DEF Stop, Alive
<1> QED
  BY <1>1, <1>2, <1>3, <1>4 DEF LauncherNext

(* A file that is there is installed; a rename only ever adds one           *)
(* (update.rs:810-821).                                                     *)
LEMMA InstallAdds ==
  ASSUME IInv, NEW u \in Updater, Install(u)
  PROVE  /\ tmp[u] \in Build /\ tmp[u] # Missing
         /\ store' = [store EXCEPT ![Target(u)][plan[u].v] = tmp[u]]
         /\ \A w \in View : Installed(w) \subseteq Installed(w)'
         /\ \A q \in Updater : Installed(plan[q].search) \subseteq Installed(plan[q].search)'
         /\ plan[u].v \in Installed(plan[u].search)'
<1>1. tmp[u] \in Build /\ tmp[u] # Missing
  BY LauncherAssumption DEF Install, Step, IInv, TmpVerified, Build
<1>2. plan[u].v \in Tuple /\ plan[u].search \in View
  BY DEF IInv, TypeOK, Plan
<1>3. plan[u].search \in Seq(Dir) /\ plan[u].search # <<>>
  BY <1>2, LauncherAssumption, UpdatesAssumption
<1>4. 1 \in DOMAIN plan[u].search /\ Target(u) \in Dir
  BY <1>3 DEF Target
<1>5. store' = [store EXCEPT ![Target(u)][plan[u].v] = tmp[u]]
  BY DEF Install
<1>6. store \in [Dir -> [Tuple -> Build \cup {Missing}]]
  BY DEF IInv, TypeOK, LauncherTypeOK
<1>7. \A d \in Dir, v \in Tuple : store[d][v] # Missing => store'[d][v] # Missing
  BY <1>1, <1>2, <1>4, <1>5, <1>6
<1>8. \A w \in View : w \in Seq(Dir)
  BY LauncherAssumption
<1>9. \A w \in View : Installed(w) \subseteq Installed(w)'
  BY <1>7, <1>8 DEF Installed
<1>10. store'[Target(u)][plan[u].v] # Missing
  BY <1>1, <1>2, <1>4, <1>5, <1>6
<1>11. plan[u].v \in Installed(plan[u].search)'
  <2>1. Target(u) = plan[u].search[1]
    BY DEF Target
  <2>2. plan'[u] = plan[u]
    BY DEF Install
  <2> QED
    BY <1>2, <1>4, <1>10, <2>1, <2>2 DEF Installed
<1>12. ASSUME NEW q \in Updater
       PROVE  Installed(plan[q].search) \subseteq Installed(plan[q].search)'
  <2>1. plan[q].search \in View /\ plan'[q].search = plan[q].search
    BY DEF Install, IInv, TypeOK, Plan
  <2> QED
    BY <1>7, <1>8, <2>1 DEF Installed
<1> QED
  BY <1>1, <1>5, <1>9, <1>11, <1>12

(* An update that finds the store current has a tuple of its channel there  *)
(* that is as new as the release (update.rs:596-602, 641-684).              *)
LEMMA CurrentReached ==
  ASSUME IInv, NEW u \in Updater, Current(u)
  PROVE  \E v \in Installed(plan[u].search) :
           (IsPrerelease(v) => plan[u].beta) /\ ~Less(v, plan[u].v)
<1> DEFINE S == OfChannel(Installed(plan[u].search), plan[u].beta)
           i == Newest(S)
<1>1. i # NoVersion /\ ~Less(i, plan[u].v)
  BY DEF Current, Behind, PlanInstall
<1>2. S # {}
  BY <1>1 DEF Newest
<1>3. S \subseteq Installed(plan[u].search) /\ S \subseteq Version /\ IsFiniteSet(S)
  BY InstalledFinite, FS_Subset, LauncherAssumption DEF OfChannel
<1>4. i \in S
  BY <1>2, <1>3, NewestIsGreatest
<1>5. i \in Installed(plan[u].search) /\ IsPrerelease(i) = plan[u].beta
  BY <1>4 DEF OfChannel
<1> HIDE DEF i
<1> QED
  BY <1>1, <1>5

(* An update keeps the invariant, in each of its steps and when it is       *)
(* killed between them (update.rs:604-757).                                 *)
LEMMA UpdateKeeps == ASSUME IInv, UpdateNext PROVE IInv'
<1> USE LauncherAssumption
    DEF IInv, TypeOK, LauncherTypeOK, ChosenAllowed, ImageChosen, TmpVerified, PlanOfChannel,
        StoreVerified, Reached, procs, Step, UpdateSteps
<1>1. ASSUME NEW u \in Updater, NEW r \in Plan, Begin(u, r) PROVE IInv'
  <2>1. /\ started' \in 0..MaxUpdates
        /\ upc[u] = "off" /\ upc' = [upc EXCEPT ![u] = "fetch"]
        /\ plan' = [plan EXCEPT ![u] = r] /\ (IsPrerelease(r.v) => r.beta)
        /\ UNCHANGED <<store, pc, job, chosen, image, tmp, unverified>>
    BY <1>1, UpdatesAssumption DEF Begin
  <2>2. TypeOK'
    BY <2>1
  <2>3. (ChosenAllowed /\ ImageChosen /\ StoreVerified)'
    BY <2>1
  <2>4. (TmpVerified /\ PlanOfChannel)'
    BY <2>1
  <2>5. Reached'
    BY <2>1 DEF Installed
  <2> QED
    BY <2>2, <2>3, <2>4, <2>5
<1>2. ASSUME NEW u \in Updater, Current(u) PROVE IInv'
  BY <1>2, CurrentReached DEF Current, Installed
<1>3. ASSUME NEW u \in Updater, ReserveTemp(u) PROVE IInv'
  BY <1>3 DEF ReserveTemp, Installed
<1>4. ASSUME NEW u \in Updater, NEW b \in Build, Download(u, b) PROVE IInv'
  BY <1>4 DEF Download, Installed
<1>5. ASSUME NEW u \in Updater, Verify(u) PROVE IInv'
  BY <1>5 DEF Verify, Installed
<1>6. ASSUME NEW u \in Updater, Install(u) PROVE IInv'
  <2> DEFINE d == Target(u)
             t == plan[u].v
  <2>1. /\ tmp[u] \in Build /\ store' = [store EXCEPT ![d][t] = tmp[u]]
        /\ \A w \in View : Installed(w) \subseteq Installed(w)'
        /\ t \in Installed(plan[u].search)'
    BY <1>6, InstallAdds
  <2>2. /\ upc[u] = "install" /\ upc' = [upc EXCEPT ![u] = "done"]
        /\ tmp' = [tmp EXCEPT ![u] = Missing]
        /\ unverified' = IF plan[u].checked THEN unverified \ {<<d, t>>}
                         ELSE unverified \cup {<<d, t>>}
        /\ UNCHANGED <<pc, job, chosen, image, started, plan>>
    BY <1>6 DEF Install
  <2>3. /\ plan[u].search \in View /\ t \in Tuple
        /\ plan[u].search \in Seq(Dir) /\ plan[u].search # <<>>
    BY UpdatesAssumption DEF Plan
  <2>4. d \in Dir
    BY <2>3 DEF Target
  <2>5. plan[u].checked => tmp[u] = t
    BY <2>2
  <2> HIDE DEF d, t
  <2>6. TypeOK'
    BY <2>1, <2>2, <2>3, <2>4
  <2>7. StoreVerified'
    BY <2>1, <2>2, <2>3, <2>4, <2>5
  <2>8. (TmpVerified /\ PlanOfChannel)'
    BY <2>2
  <2>9. Reached'
    <3> SUFFICES ASSUME NEW q \in Updater, upc'[q] = "done"
                 PROVE  \E v \in Installed(plan[q].search)' :
                          (IsPrerelease(v) => plan'[q].beta) /\ ~Less(v, plan'[q].v)
      BY DEF Reached
    <3>1. CASE q = u
      <4>1. ~Less(t, t)
        BY <2>3, LessIrreflexive
      <4> QED BY <3>1, <2>1, <2>2, <4>1 DEF t
    <3>2. CASE q # u
      <4>1. upc[q] = "done" /\ plan[q].search \in View
        BY <3>2, <2>2 DEF Plan
      <4>2. Installed(plan[q].search) \subseteq Installed(plan[q].search)'
        BY <1>6, InstallAdds
      <4> QED BY <2>2, <4>1, <4>2
    <3> QED BY <3>1, <3>2
  <2>10. (ChosenAllowed /\ ImageChosen)'
    BY <2>2
  <2> QED
    BY <2>6, <2>7, <2>8, <2>9, <2>10
<1>7. ASSUME NEW u \in Updater, End(u) PROVE IInv'
  BY <1>7, IdleTyped DEF End, Installed
<1> QED
  BY <1>1, <1>2, <1>3, <1>4, <1>5, <1>6, <1>7 DEF UpdateNext

(* Every step of every launch and update keeps the invariant                *)
(* (main.rs:478-740, update.rs:604-757).                                    *)
LEMMA NextIInv == IInv /\ [Next]_vars => IInv'
<1> SUFFICES ASSUME IInv, [Next]_vars PROVE IInv'
  OBVIOUS
<1>1. CASE UpdateNext
  BY <1>1, UpdateKeeps
<1>2. CASE LauncherNext /\ UNCHANGED updates
  <2>1. LaunchInv' /\ store' = store
    BY <1>2, LaunchKeeps DEF LaunchInv, IInv, TypeOK
  <2>2. UNCHANGED <<started, upc, plan, tmp, unverified>>
    BY <1>2 DEF updates
  <2>3. TypeOK' /\ ChosenAllowed' /\ ImageChosen'
    BY <2>1, <2>2 DEF LaunchInv, IInv, TypeOK
  <2>4. (TmpVerified /\ PlanOfChannel /\ StoreVerified)'
    BY <2>1, <2>2 DEF IInv, TmpVerified, PlanOfChannel, StoreVerified
  <2>5. Reached'
    BY <2>1, <2>2 DEF IInv, Reached, Installed
  <2> QED
    BY <2>3, <2>4, <2>5 DEF IInv
<1>3. CASE UNCHANGED vars
  BY <1>3
  DEF vars, procs, updates, IInv, TypeOK, LauncherTypeOK, ChosenAllowed, ImageChosen,
      TmpVerified, PlanOfChannel, StoreVerified, Reached, Installed
<1> QED
  BY <1>1, <1>2, <1>3 DEF Next

(* The invariant in every reachable state. (main.rs:478-740,                *)
(* update.rs:604-757).                                                      *)
THEOREM Invariance == Spec => []IInv
  BY InitIInv, NextIInv, PTL DEF Spec

(* The store, launches and updates keep their types (main.rs:370-740,       *)
(* update.rs:604-757).                                                      *)
THEOREM TypeCorrect == Spec => []TypeOK
<1>1. IInv => TypeOK
  BY DEF IInv
<1> QED
  BY <1>1, Invariance, PTL

(* Any number of updates, killed anywhere, leave under a tuple's name only  *)
(* that tuple, unless --insecure let it in (update.rs:697-757).             *)
THEOREM Verified == Spec => []StoreVerified
<1>1. IInv => StoreVerified
  BY DEF IInv
<1> QED
  BY <1>1, Invariance, PTL

(* Whatever the store becomes between resolution and load, what runs is     *)
(* what the manifest and the prerelease policy allow (main.rs:345-368,      *)
(* 397-448, 520-523).                                                       *)
THEOREM RunsAllowed == Spec => []RunsWhatItAllows
<1>1. IInv => RunsWhatItAllows
  BY DEF IInv, ChosenAllowed, ImageChosen, RunsWhatItAllows, Eligible, Allowed
<1> QED
  BY <1>1, Invariance, PTL

(* An update that ended well is what a launch of its channel resolves       *)
(* (update.rs:596-602, 641-684, main.rs:397-448).                           *)
THEOREM Reaches == Spec => []UpdateReachesLaunch
<1>1. ASSUME IInv, NEW u \in Updater, upc[u] = "done"
      PROVE  LET v == Resolution(NoConstraint, plan[u].beta, plan[u].search)[1]
             IN  v # NoVersion /\ ~Less(v, plan[u].v)
  <2> DEFINE S == Eligible(NoConstraint, plan[u].beta, Installed(plan[u].search))
             v == Newest(S)
  <2>1. PICK w \in Installed(plan[u].search) :
          (IsPrerelease(w) => plan[u].beta) /\ ~Less(w, plan[u].v)
    BY <1>1 DEF IInv, Reached
  <2>2. w \in S
    BY <2>1 DEF Eligible, ConstraintAllows, NoConstraint
  <2>3. S \subseteq Version /\ IsFiniteSet(S) /\ plan[u].v \in Version
    BY <1>1, InstalledFinite, FS_Subset, LauncherAssumption DEF Eligible, IInv, TypeOK, Plan
  <2>4. v \in S /\ AtMost(w, v)
    BY <2>2, <2>3, NewestIsGreatest
  <2>5. v \in Version /\ w \in Version /\ v # NoVersion
    BY <2>2, <2>3, <2>4, NoVersionIsNone
  <2>6. Resolution(NoConstraint, plan[u].beta, plan[u].search)[1] = v
    BY <2>5 DEF Resolution
  <2> HIDE DEF v
  <2>7. ~Less(v, plan[u].v)
    BY <2>1, <2>3, <2>4, <2>5, LessTransitive DEF AtMost
  <2> QED
    BY <2>5, <2>6, <2>7
<1>2. IInv => UpdateReachesLaunch
  BY <1>1 DEF UpdateReachesLaunch
<1> QED
  BY <1>2, Invariance, PTL

(* No step takes away what an artifact resolves, but for a newer tuple it   *)
(* may resolve (update.rs:811-821).                                         *)
THEOREM NeverTakenAway == Spec => RollsForward
<1> DEFINE Kept == \A m \in Artifact, w \in View, allow \in BOOLEAN :
                     \A v \in Eligible(m, allow, Installed(w)) :
                       \E n \in Eligible(m, allow, Installed(w))' : ~Less(n, v)
<1>1. ASSUME IInv, NEW u \in Updater, Install(u) PROVE Kept
  <2> SUFFICES ASSUME NEW m \in Artifact, NEW w \in View, NEW allow \in BOOLEAN,
                      NEW v \in Eligible(m, allow, Installed(w))
               PROVE  \E n \in Eligible(m, allow, Installed(w))' : ~Less(n, v)
    OBVIOUS
  <2>1. v \in Installed(w) /\ Installed(w) \subseteq Installed(w)' /\ v \in Version
    BY <1>1, InstallAdds, InstalledFinite, LauncherAssumption DEF Eligible
  <2>2. v \in Eligible(m, allow, Installed(w))'
    BY <2>1 DEF Eligible
  <2> QED
    BY <2>1, <2>2, LessIrreflexive
<1>2. ASSUME IInv, [Next]_vars, store' # store PROVE Kept
  <2>1. ~UNCHANGED vars
    BY <1>2 DEF vars
  <2>2. ~LauncherNext
    BY <1>2, LaunchKeeps DEF LaunchInv, IInv, TypeOK
  <2>3. \E u \in Updater : Install(u)
    BY <1>2, <2>1, <2>2
    DEF Next, UpdateNext, Begin, Current, ReserveTemp, Download, Verify, End
  <2> QED
    BY <1>2, <1>1, <2>3
<1>3. IInv /\ [Next]_vars => [store' # store => Kept]_vars
  BY <1>2
<1> QED
  BY <1>3, Invariance, PTL DEF Spec, RollsForward
=============================================================================
