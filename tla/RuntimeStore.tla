---------------------------- MODULE RuntimeStore ----------------------------
(***************************************************************************)
(* `inka update` against a published release, run by several users of one   *)
(* store while artifacts are launched from it: read versions.json, decide   *)
(* whether the runtime tuple is behind, download it to a temp file beside   *)
(* its place, verify it and rename it into place.  An update may be killed  *)
(* between any two of these.                                                *)
(***************************************************************************)
EXTENDS Launcher

CONSTANTS
  Updater,    \* concurrent `inka update` processes
  MaxUpdates  \* bound: updates started

(* An update searches at least the directory it installs into.              *)
ASSUME UpdatesAssumption == MaxUpdates \in Nat /\ \A w \in View : w # <<>>

VARIABLES
  started,    \* how many updates have been started
  upc,        \* the step of each update
  plan,       \* per update: the tuple, where it goes and how it is checked
  tmp,        \* per update: the content of .<name>.tmp<pid>-<nonce>
  unverified  \* history: <<dir, tuple>> last installed without a checksum

updates == <<started, upc, plan, tmp, unverified>>
vars == <<store, procs, updates>>

UpdateSteps == {"off", "fetch", "download", "verify", "install", "done"}
Plan == [v : Tuple, beta : BOOLEAN, search : View, checked : BOOLEAN]
Idler == CHOOSE r \in Plan : TRUE
Target(u) == plan[u].search[1]

TypeOK ==
  /\ LauncherTypeOK
  /\ started \in 0..MaxUpdates
  /\ upc \in [Updater -> UpdateSteps]
  /\ plan \in [Updater -> Plan]
  /\ tmp \in [Updater -> Build \cup {Missing}]
  /\ unverified \subseteq Dir \X Tuple

Init ==
  /\ LauncherInit
  /\ started = 0
  /\ upc = [u \in Updater |-> "off"]
  /\ plan = [u \in Updater |-> Idler]
  /\ tmp = [u \in Updater |-> Missing]
  /\ unverified = {}

Step(u, from, to) == upc[u] = from /\ upc' = [upc EXCEPT ![u] = to]

(***************************************************************************)
(* An update has read versions.json of channel `beta`, from a release or a  *)
(* mirror: a stable release carries a stable tuple, a beta release a beta   *)
(* tuple or, when the engine has not changed, a stable one that exists.     *)
(* `search` is the search path, its first directory the target; without     *)
(* `checked` there is no checksum and the user passed --insecure.           *)
(***************************************************************************)
Begin(u, r) ==
  /\ Step(u, "off", "fetch")
  /\ started < MaxUpdates /\ started' = started + 1
  /\ IsPrerelease(r.v) => r.beta
  /\ plan' = [plan EXCEPT ![u] = r]
  /\ UNCHANGED <<store, procs, tmp, unverified>>

(* Mutant: the newest installed tuple of any channel counts.                *)
BehindAnyChannel(u) ==
  LET i == Newest(Installed(plan[u].search)) IN i # NoVersion => Less(i, plan[u].v)

Behind(u) == PlanInstall(Installed(plan[u].search), plan[u].v, plan[u].beta)

Current(u) ==
  /\ Step(u, "fetch", "done")
  /\ ~Behind(u)
  /\ UNCHANGED <<store, procs, started, plan, tmp, unverified>>

ReserveTemp(u) ==
  /\ Step(u, "fetch", "download")
  /\ Behind(u)
  /\ UNCHANGED <<store, procs, started, plan, tmp, unverified>>

(* What arrives may be anything; a download that fails ends the update.     *)
Download(u, b) ==
  /\ Step(u, "download", "verify")
  /\ tmp' = [tmp EXCEPT ![u] = b]
  /\ UNCHANGED <<store, procs, started, plan, unverified>>

(* Mutant: a mismatch is only reported. *)
VerifyReports(u) ==
  /\ Step(u, "verify", "install")
  /\ UNCHANGED <<store, procs, started, plan, tmp, unverified>>

Verify(u) ==
  /\ plan[u].checked => tmp[u] = plan[u].v
  /\ Step(u, "verify", "install")
  /\ UNCHANGED <<store, procs, started, plan, tmp, unverified>>

Install(u) ==
  LET at == <<Target(u), plan[u].v>> IN
  /\ Step(u, "install", "done")
  /\ store' = [store EXCEPT ![at[1]][at[2]] = tmp[u]]
  /\ tmp' = [tmp EXCEPT ![u] = Missing]
  /\ unverified' = IF plan[u].checked THEN unverified \ {at} ELSE unverified \cup {at}
  /\ UNCHANGED <<procs, started, plan>>

(* The update ends: done, failed (its temp file removed) or killed (its temp *)
(* file stays under a name no search for tuples matches).                   *)
End(u) ==
  /\ upc[u] # "off"
  /\ upc' = [upc EXCEPT ![u] = "off"]
  /\ plan' = [plan EXCEPT ![u] = Idler] /\ tmp' = [tmp EXCEPT ![u] = Missing]
  /\ UNCHANGED <<store, procs, started, unverified>>

UpdateNext ==
  \E u \in Updater :
    \/ \E r \in Plan : Begin(u, r)
    \/ Current(u) \/ ReserveTemp(u) \/ Verify(u) \/ Install(u) \/ End(u)
    \/ \E b \in Build : Download(u, b)

Next == UpdateNext \/ (LauncherNext /\ UNCHANGED updates)

Spec == Init /\ [][Next]_vars

-----------------------------------------------------------------------------
(* Whatever was downloaded, and however updates interleave, an installed    *)
(* file is the build its name says unless --insecure let it in              *)
(* (update.rs:697-757).                                                     *)
StoreVerified ==
  \A d \in Dir, v \in Tuple :
    store[d][v] \notin {Missing, v} => <<d, v>> \in unverified

(* An update that ends well leaves an artifact of its channel that searches *)
(* the same directories with the released tuple or a newer one, whatever the *)
(* other channel has installed (update.rs:596-602, 641-677, the launcher's  *)
(* main.rs:397-448).                                                        *)
UpdateReachesLaunch ==
  \A u \in Updater : upc[u] = "done" =>
    LET v == Resolution(NoConstraint, plan[u].beta, plan[u].search)[1] IN
    v # NoVersion /\ ~Less(v, plan[u].v)

(* A tuple that an artifact could resolve stays: an artifact that launches  *)
(* today launches tomorrow, on the same or on a newer tuple (update.rs:     *)
(* 14-16, 811-821).                                                         *)
RollsForward ==
  [][store' # store => \A m \in Artifact, w \in View, allow \in BOOLEAN :
       \A v \in Eligible(m, allow, Installed(w)) :
         \E n \in Eligible(m, allow, Installed(w))' : ~Less(n, v)]_vars
=============================================================================
