----------------------- MODULE ToolchainUpdateProofs -----------------------
(***************************************************************************)
(* Updates that follow one another, for every set of releases.  What makes  *)
(* them safe to interrupt is that VERSION is written last: it is a floor    *)
(* under the binaries of its channel, and an update that goes on past the   *)
(* comparison installs something above that floor.                          *)
(***************************************************************************)
EXTENDS ToolchainUpdate, VersionsProofs

(* One update at a time. *)
OneAtATime == \A u, w \in Updater : u = w

(* The binaries of a list of staged ones. *)
Todo(s) == {s[i] : i \in 1..Len(s)}

Updating == {"fetch", "stage", "activate", "swapIn", "restore", "dropAside"}
Swapping == {"swapIn", "restore", "dropAside"}

(* An update goes past the comparison only to something newer, or to the    *)
(* other channel.                                                           *)
NotCurrent ==
  \A u \in Updater : pc[u] \in Updating /\ version # Torn =>
    ~UpToDate(version, new[u].v, new[u].beta)

GoalHasChannel == \A u \in Updater : pc[u] # "off" => IsPrerelease(new[u].v) = new[u].beta

SwapsOne ==
  \A u \in Updater : /\ pc[u] \in Swapping => staged[u] # <<>>
                     /\ pc[u] \in {"swapIn", "restore"} => aside[u] # Missing
                     /\ pc[u] = "dropAside" => file[Head(staged[u])] = new[u].v

(* What is not staged any more has been activated. *)
RestActivated ==
  \A u \in Updater :
    /\ pc[u] \in Swapping \cup {"activate"} =>
         \A f \in Required \ Todo(staged[u]) : file[f] = new[u].v
    /\ pc[u] = "write" => \A f \in Required : file[f] = new[u].v

(* A version that may stand where VERSION is `floor`. *)
Fits(v, floor) == IsPrerelease(v) = IsPrerelease(floor) => ~Less(v, floor)

VersionIsFloor ==
  version # Torn =>
    /\ \A f \in Required : file[f] # Missing => Fits(file[f], version)
    /\ \A u \in Updater :
         pc[u] \in {"swapIn", "restore"} /\ Head(staged[u]) \in Required =>
           Fits(aside[u], version)

IInv ==
  /\ TypeOK
  /\ NotCurrent /\ GoalHasChannel /\ SwapsOne /\ RestActivated /\ VersionIsFloor
  /\ NeverLeftMissing /\ CurrentMeansAsNew

(* The binaries are activated front to back (update.rs:474-501).            *)
LEMMA StagedRests ==
  /\ <<>> \in Rests /\ Todo(<<>>) = {}
  /\ \A s \in Archives : s \in Rests /\ Required \subseteq Todo(s)
  /\ \A s \in Rests \ {<<>>} :
       /\ Head(s) \in FileName /\ Tail(s) \in Rests
       /\ Todo(s) = {Head(s)} \cup Todo(Tail(s))
<1> DEFINE a == "inka"  b == "inka-launcher"  c == "shim"
<1>1. \A x : Todo(<<x>>) = {x}
  BY DEF Todo
<1>2. \A x, y : Todo(<<x, y>>) = {x, y}
  BY DEF Todo
<1>3. \A x, y, z : Todo(<<x, y, z>>) = {x, y, z}
  BY DEF Todo
<1>4. Todo(<<>>) = {}
  BY DEF Todo
<1>5. \A s \in Archives : s \in Rests /\ Required \subseteq Todo(s)
  BY <1>2, <1>3 DEF Archives, Rests, Required
<1>6. ASSUME NEW s \in Rests \ {<<>>}
      PROVE  /\ Head(s) \in FileName /\ Tail(s) \in Rests
             /\ Todo(s) = {Head(s)} \cup Todo(Tail(s))
  <2>1. CASE s = <<a, b, c>>
    <3>1. Head(s) = a /\ Tail(s) = <<b, c>>
      BY <2>1
    <3> QED BY <2>1, <3>1, <1>2, <1>3 DEF Rests, Archives, FileName, Required
  <2>2. CASE s = <<a, b>>
    <3>1. Head(s) = a /\ Tail(s) = <<b>>
      BY <2>2
    <3> QED BY <2>2, <3>1, <1>1, <1>2 DEF Rests, Archives, FileName, Required
  <2>3. CASE s = <<b, c>>
    <3>1. Head(s) = b /\ Tail(s) = <<c>>
      BY <2>3
    <3> QED BY <2>3, <3>1, <1>1, <1>2 DEF Rests, Archives, FileName, Required
  <2>4. CASE s = <<b>>
    <3>1. Head(s) = b /\ Tail(s) = <<>>
      BY <2>4
    <3> QED BY <2>4, <3>1, <1>1, <1>4 DEF Rests, Archives, FileName, Required
  <2>5. CASE s = <<c>>
    <3>1. Head(s) = c /\ Tail(s) = <<>>
      BY <2>5
    <3> QED BY <2>5, <3>1, <1>1, <1>4 DEF Rests, Archives, FileName, Required
  <2> QED
    BY <2>1, <2>2, <2>3, <2>4, <2>5 DEF Rests, Archives
<1> QED
  BY <1>4, <1>5, <1>6 DEF Rests

(* A goal that is not up to date stands above the floor: "never downgrades" *)
(* (update.rs:347-349, 403-417).                                            *)
LEMMA GoalAboveFloor ==
  ASSUME NEW i \in Version, NEW l \in Version, ~UpToDate(i, l, IsPrerelease(l))
  PROVE  Fits(l, i)
<1>1. i # NoVersion
  BY DEF Version, NoVersion
<1>2. CASE Less(i, l)
  BY <1>2, LessTransitive, LessIrreflexive DEF Fits
<1>3. CASE IsPrerelease(i) # IsPrerelease(l)
  BY <1>3 DEF Fits
<1> QED
  BY <1>1, <1>2, <1>3 DEF UpToDate

(* What stands above a floor that is as new as the release is as new too    *)
(* (update.rs:403-417).                                                     *)
LEMMA AboveCurrent ==
  ASSUME NEW i \in Version, NEW l \in Version, NEW v \in Version, NEW beta,
         UpToDate(i, l, beta), Fits(v, i), IsPrerelease(v) = beta
  PROVE  ~Less(v, l)
<1>1. ~Less(i, l) /\ ~Less(v, i)
  BY DEF UpToDate, Fits
<1>2. CASE i = l
  BY <1>1, <1>2
<1>3. CASE Less(l, i)
  BY <1>1, <1>3, LessTransitive
<1> QED
  BY <1>1, <1>2, <1>3, LessTotal

(* A fresh installation (update.rs:403-417).                                *)
LEMMA InitIInv == Init => IInv
<1>1. First \in Version /\ ~Less(First, First) /\ First # Missing
  BY ToolchainAssumption, LessIrreflexive
<1> SUFFICES ASSUME Init PROVE IInv
  OBVIOUS
<1>2. TypeOK
  BY ToolchainAssumption DEF Init, TypeOK, Steps, Goal, Idle, Rests, FileName, Required
<1>3. NotCurrent /\ GoalHasChannel /\ SwapsOne /\ RestActivated /\ CurrentMeansAsNew
  BY DEF Init, NotCurrent, GoalHasChannel, SwapsOne, RestActivated, CurrentMeansAsNew,
     Updating, Swapping
<1>4. VersionIsFloor /\ NeverLeftMissing
  BY <1>1 DEF Init, VersionIsFloor, Fits, NeverLeftMissing, Swaps, FileName, Required
<1> QED
  BY <1>2, <1>3, <1>4 DEF IInv

(* Every step of an update keeps the types (update.rs:384-560).             *)
LEMMA NextTypeOK == ASSUME TypeOK, SwapsOne, [Next]_vars PROVE TypeOK'
<1> USE ToolchainAssumption DEF TypeOK, disk
<1>1. ASSUME NEW v \in Releases, Publish(v) PROVE TypeOK'
  BY <1>1 DEF Publish
<1>2. ASSUME NEW u \in Updater, NEW r \in Goal, Begin(u, r) PROVE TypeOK'
  BY <1>2 DEF Begin, Goto, Steps
<1>3. ASSUME NEW u \in Updater, Current(u) \/ Behind(u) \/ SwapInFails(u) PROVE TypeOK'
  BY <1>3 DEF Current, Behind, SwapInFails, Goto, Steps
<1>4. ASSUME NEW u \in Updater, SweepStaleOld(u) PROVE TypeOK'
  BY <1>4 DEF SweepStaleOld, Goto, Steps
<1>5. ASSUME NEW u \in Updater, Stage(u) PROVE TypeOK'
  BY <1>5, StagedRests DEF Stage, Goto, Steps
<1>6. ASSUME NEW u \in Updater, Activate(u) PROVE TypeOK'
  BY <1>6, StagedRests DEF Activate, Unstage, Goto, Steps, Goal
<1>7. ASSUME NEW u \in Updater, MoveAside(u) PROVE TypeOK'
  BY <1>7, StagedRests DEF MoveAside, Goto, Steps
<1>8. ASSUME NEW u \in Updater, SwapIn(u) PROVE TypeOK'
  BY <1>8 DEF SwapIn, Goto, Steps, Goal
<1>9. ASSUME NEW u \in Updater, Restore(u) PROVE TypeOK'
  BY <1>9, StagedRests DEF Restore, Goto, Steps, Goal, Idle
<1>9a. ASSUME NEW u \in Updater, RestoreFails(u) PROVE TypeOK'
  BY <1>9a, StagedRests DEF RestoreFails, Goto, Steps, Goal, Idle
<1>10. ASSUME NEW u \in Updater, DropAside(u) PROVE TypeOK'
  <2>1. staged[u] # <<>>
    BY <1>10 DEF SwapsOne, Swapping, DropAside, Goto
  <2> QED BY <1>10, <2>1, StagedRests DEF DropAside, Unstage, Goto, Steps
<1>11. ASSUME NEW u \in Updater, TruncateVersion(u) \/ WriteVersion(u) PROVE TypeOK'
  BY <1>11 DEF TruncateVersion, WriteVersion, Goto, Steps, Goal
<1>12. ASSUME NEW u \in Updater, End(u) PROVE TypeOK'
  BY <1>12, StagedRests DEF End, Steps, Goal, Idle
<1>13. CASE UNCHANGED vars
  BY <1>13 DEF vars
<1> QED
  BY <1>1, <1>2, <1>3, <1>4, <1>5, <1>6, <1>7, <1>8, <1>9, <1>9a, <1>10, <1>11, <1>12, <1>13
     DEF Next

(* Every step of the only update keeps what makes it safe to interrupt      *)
(* (update.rs:384-560).                                                     *)
LEMMA NextIInv == ASSUME OneAtATime, IInv, [Next]_vars PROVE IInv'
<1> USE ToolchainAssumption DEF IInv, disk
<1>0. TypeOK'
  BY NextTypeOK
<1>a. \A v \in Releases \cup {Missing} : v # Missing => v \in Version
  OBVIOUS
<1> SUFFICES ASSUME NEW u \in Updater, \A w \in Updater : w = u,
                    \/ \E r \in Goal : Begin(u, r)
                    \/ Current(u) \/ Behind(u) \/ SweepStaleOld(u) \/ Stage(u)
                    \/ Activate(u) \/ MoveAside(u) \/ SwapIn(u) \/ SwapInFails(u)
                    \/ Restore(u) \/ RestoreFails(u) \/ DropAside(u) \/ TruncateVersion(u) \/ WriteVersion(u)
                    \/ End(u)
             PROVE  IInv'
  <2>1. ASSUME NEW v \in Releases, Publish(v) PROVE IInv'
    BY <1>0, <2>1 DEF Publish, NotCurrent, GoalHasChannel, SwapsOne, RestActivated, VersionIsFloor,
       NeverLeftMissing, Swaps, CurrentMeansAsNew
  <2>2. CASE UNCHANGED vars
    BY <1>0, <2>2 DEF vars, NotCurrent, GoalHasChannel, SwapsOne, RestActivated, VersionIsFloor,
       NeverLeftMissing, Swaps, CurrentMeansAsNew
  <2> QED
    BY <2>1, <2>2 DEF Next, OneAtATime
<1> USE DEF TypeOK, Goto, NotCurrent, GoalHasChannel, SwapsOne, RestActivated, VersionIsFloor,
        NeverLeftMissing, Swaps, CurrentMeansAsNew, Updating, Swapping
<1>1. ASSUME NEW r \in Goal, Begin(u, r) PROVE IInv'
  BY <1>0, <1>1 DEF Begin
<1>2. ASSUME Current(u) PROVE IInv'
  <2>1. CurrentMeansAsNew'
    BY <1>2, AboveCurrent DEF Current, Goal, UpToDate, Required, FileName
  <2> QED
    BY <1>0, <1>2, <2>1 DEF Current
<1>3. ASSUME Behind(u) PROVE IInv'
  BY <1>0, <1>3 DEF Behind
<1>4. ASSUME SweepStaleOld(u) PROVE IInv'
  BY <1>0, <1>4 DEF SweepStaleOld
<1>5. ASSUME Stage(u) PROVE IInv'
  BY <1>0, <1>5, StagedRests DEF Stage
<1>6. ASSUME Activate(u) PROVE IInv'
  BY <1>0, <1>6, StagedRests, GoalAboveFloor DEF Activate, Unstage, Goal
<1>7. ASSUME MoveAside(u) PROVE IInv'
  BY <1>0, <1>7, StagedRests DEF MoveAside
<1>8. ASSUME SwapIn(u) PROVE IInv'
  BY <1>0, <1>8, StagedRests, GoalAboveFloor DEF SwapIn, Goal
<1>9. ASSUME SwapInFails(u) PROVE IInv'
  BY <1>0, <1>9 DEF SwapInFails
<1>10. ASSUME Restore(u) PROVE IInv'
  BY <1>0, <1>10, StagedRests DEF Restore
<1>10a. ASSUME RestoreFails(u) PROVE IInv'
  <2>1. pc'[u] = "off" /\ file' = file /\ version' = version /\ cut' = "refused"
    BY <1>10a DEF RestoreFails
  <2>2. NeverLeftMissing'
    BY <2>1
  <2>3. NotCurrent' /\ GoalHasChannel' /\ SwapsOne' /\ RestActivated' /\ CurrentMeansAsNew'
    BY <2>1
  <2>4. VersionIsFloor'
    BY <2>1
  <2> QED
    BY <1>0, <2>2, <2>3, <2>4
<1>11. ASSUME DropAside(u) PROVE IInv'
  BY <1>0, <1>11, StagedRests DEF DropAside, Unstage
<1>12. ASSUME TruncateVersion(u) PROVE IInv'
  BY <1>0, <1>12, StagedRests DEF TruncateVersion
<1>13. ASSUME WriteVersion(u) PROVE IInv'
  BY <1>0, <1>13, LessIrreflexive DEF WriteVersion, Fits, Goal
<1>14. ASSUME End(u) PROVE IInv'
  <2>1. pc'[u] = "off" /\ file' = file /\ version' = version
    BY <1>14 DEF End
  <2>2. cut' = IF pc[u] \in {"swapIn", "restore"} THEN "killed" ELSE cut
    BY <1>14 DEF End
  <2>3. NeverLeftMissing'
    BY <2>1, <2>2, Zenon
  <2>4. NotCurrent' /\ GoalHasChannel' /\ SwapsOne' /\ RestActivated' /\ CurrentMeansAsNew'
    BY <2>1
  <2>5. VersionIsFloor'
    BY <2>1
  <2> QED
    BY <1>0, <2>3, <2>4, <2>5
<1> QED
  BY <1>1, <1>2, <1>3, <1>4, <1>5, <1>6, <1>7, <1>8, <1>9, <1>10, <1>10a, <1>11, <1>12, <1>13, <1>14

(* The inductive invariant of updates that follow one another: VERSION is a *)
(* floor under the binaries (update.rs:384-560).                            *)
THEOREM Invariance == ASSUME OneAtATime PROVE Spec => []IInv
<1>1. IInv /\ [Next]_vars => IInv'
  BY NextIInv
<1> QED
  BY <1>1, InitIInv, PTL DEF Spec

(* Type correctness (update.rs:384-560).                                    *)
THEOREM TypeCorrect == ASSUME OneAtATime PROVE Spec => []TypeOK
<1>1. IInv => TypeOK
  BY DEF IInv
<1> QED
  BY <1>1, Invariance, PTL

(* A binary is missing only in the middle of a swap, or after a kill or a   *)
(* refused rename there, and one that is required only until an update is   *)
(* completed (update.rs:449-530).                                           *)
THEOREM NotLeftMissing == ASSUME OneAtATime PROVE Spec => []NeverLeftMissing
<1>1. IInv => NeverLeftMissing
  BY DEF IInv
<1> QED
  BY <1>1, Invariance, PTL

(* "Current" leaves no required binary of the channel behind the release    *)
(* (update.rs:403-417).                                                     *)
THEOREM CurrentIsAsNew == ASSUME OneAtATime PROVE Spec => []CurrentMeansAsNew
<1>1. IInv => CurrentMeansAsNew
  BY DEF IInv
<1> QED
  BY <1>1, Invariance, PTL

(* No update puts a required binary in place that is older than VERSION     *)
(* (update.rs:347-349).                                                     *)
THEOREM NoDowngrade == ASSUME OneAtATime PROVE Spec => NeverDowngrades
<1> DEFINE Kept == \A f \in Required :
       file'[f] \notin {file[f], Missing} /\ version # Torn
         /\ IsPrerelease(file'[f]) = IsPrerelease(version)
       => ~Less(file'[f], version)
<1>1. ASSUME IInv, IInv', [Next]_vars PROVE Kept
  <2>1. CASE version' = version
    BY <1>1, <2>1 DEF IInv, VersionIsFloor, Fits
  <2>2. CASE file' = file
    BY <2>2
  <2>3. version' = version \/ file' = file
    BY <1>1 DEF Next, vars, disk, Publish, Begin, Current, Behind, SweepStaleOld, Stage, Activate,
       MoveAside, SwapIn, SwapInFails, Restore, RestoreFails, DropAside, TruncateVersion, WriteVersion, End
  <2> QED
    BY <2>1, <2>2, <2>3
<1>2. ASSUME IInv, IInv', [Next]_vars PROVE [Kept]_vars
  BY <1>1, <1>2
<1>3. Spec => [][Kept]_vars
  BY <1>2, Invariance, PTL DEF Spec
<1> QED
  BY <1>3 DEF NeverDowngrades
=============================================================================
