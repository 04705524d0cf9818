-------------------------- MODULE ToolchainUpdate --------------------------
(***************************************************************************)
(* The toolchain self-update of `inka update`: when VERSION is behind the   *)
(* release of the requested channel, the archive is fetched, every binary   *)
(* is staged beside its target, each is renamed into place in turn, and     *)
(* VERSION is written last.  Where a rename over the target is refused, the *)
(* target is first moved aside.  An update may be killed at any step.       *)
(***************************************************************************)
EXTENDS Versions, FiniteSets

CONSTANTS
  Updater,   \* concurrent `inka update` processes
  Releases,  \* toolchain versions that get published
  First,     \* the version that was installed
  Missing,   \* no such file
  Torn       \* VERSION while it is being written

ASSUME ToolchainAssumption ==
  /\ Releases \subseteq Version /\ First \in Releases
  /\ Missing \notin Version /\ Torn \notin Version /\ Missing # Torn

(* The binaries of an archive, and what is left of them while they are      *)
(* activated front to back.                                                 *)
Archives == {<<"inka", "inka-launcher">>, <<"inka", "inka-launcher", "shim">>}
Rests == Archives \cup {<<"inka-launcher">>, <<"inka-launcher", "shim">>, <<"shim">>, <<>>}
Required == {"inka", "inka-launcher"}
FileName == Required \cup {"shim"}

VARIABLES
  file,       \* the binaries of the toolchain directory
  version,    \* VERSION
  aside,      \* per update: the swap-aside file of the binary it is swapping
  published,  \* the releases there are, on a channel or still on a mirror
  pc,         \* the step of each update
  new,        \* per update: the version it installs, and its channel
  staged,     \* per update: the staged binaries it has not activated yet
  cut         \* history: how an update ended while a binary was moved aside, and whether one was completed since

vars == <<file, version, aside, published, pc, new, staged, cut>>

Steps == {"off", "check", "current", "fetch", "stage", "activate", "swapIn",
          "restore", "dropAside", "write", "done"}
Goal == [v : Releases, beta : BOOLEAN]

TypeOK ==
  /\ file \in [FileName -> Releases \cup {Missing}]
  /\ version \in Releases \cup {Torn}
  /\ aside \in [Updater -> Releases \cup {Missing}]
  /\ \A u \in Updater : aside[u] # Missing => pc[u] \in {"swapIn", "restore", "dropAside"}
  /\ published \subseteq Releases
  /\ pc \in [Updater -> Steps]
  /\ new \in [Updater -> Goal]
  /\ staged \in [Updater -> Rests]
  /\ cut \in {"never", "killed", "refused", "before"}

Idle == [v |-> First, beta |-> FALSE]

Init ==
  /\ file = [f \in FileName |-> First]
  /\ version = First
  /\ aside = [u \in Updater |-> Missing]
  /\ published = {First}
  /\ pc = [u \in Updater |-> "off"]
  /\ new = [u \in Updater |-> Idle]
  /\ staged = [u \in Updater |-> <<>>]
  /\ cut = "never"

disk == <<file, version, aside>>
Goto(u, from, to) == pc[u] = from /\ pc' = [pc EXCEPT ![u] = to]

Publish(v) ==
  /\ v \notin published
  /\ \A w \in published : ChannelOf(w) = ChannelOf(v) => Less(w, v)
  /\ published' = published \cup {v}
  /\ UNCHANGED <<disk, pc, new, staged, cut>>

(* versions.json of the requested channel, or of a mirror of it that may be *)
(* behind, has been read.                                                   *)
Begin(u, r) ==
  /\ Goto(u, "off", "check")
  /\ r.v \in published /\ r.beta = IsPrerelease(r.v)
  /\ new' = [new EXCEPT ![u] = r]
  /\ UNCHANGED <<disk, published, staged, cut>>

(* Mutant: any binary of the release's version makes it current.            *)
CurrentByBinary(u) ==
  /\ Goto(u, "check", "current")
  /\ file["inka"] # Missing => UpToDate(file["inka"], new[u].v, new[u].beta)
  /\ UNCHANGED <<disk, published, new, staged, cut>>

Current(u) ==
  /\ Goto(u, "check", "current")
  /\ version # Torn /\ UpToDate(version, new[u].v, new[u].beta)
  /\ UNCHANGED <<disk, published, new, staged, cut>>

(* Mutant: whatever differs from the release is replaced. *)
BehindIfOther(u) ==
  /\ Goto(u, "check", "fetch")
  /\ version # new[u].v
  /\ UNCHANGED <<disk, published, new, staged, cut>>

Behind(u) ==
  /\ Goto(u, "check", "fetch")
  /\ version # Torn => ~UpToDate(version, new[u].v, new[u].beta)
  /\ UNCHANGED <<disk, published, new, staged, cut>>

(***************************************************************************)
(* The archive is downloaded, verified and unpacked (else the update ends), *)
(* then every aside file is swept, also one another update has just made;   *)
(* one that is still a running image stays.  (The asides that ended updates *)
(* left are not tracked.)                                                   *)
(***************************************************************************)
SweepStaleOld(u) ==
  /\ Goto(u, "fetch", "stage")
  /\ aside' \in {[w \in Updater |-> IF w \in S THEN Missing ELSE aside[w]] :
                 S \in SUBSET Updater}
  /\ UNCHANGED <<file, version, published, new, staged, cut>>

(* All binaries or none are staged; the shim is not in every archive.       *)
Stage(u) ==
  /\ Goto(u, "stage", "activate")
  /\ \E s \in Archives : staged' = [staged EXCEPT ![u] = s]
  /\ UNCHANGED <<disk, published, new, cut>>

Unstage(u) == staged' = [staged EXCEPT ![u] = Tail(@)]

Activate(u) ==
  /\ staged[u] # <<>> /\ Goto(u, "activate", "activate")
  /\ file' = [file EXCEPT ![Head(staged[u])] = new[u].v]
  /\ Unstage(u)
  /\ UNCHANGED <<version, aside, published, new, cut>>

(* The rename is refused: move the target aside. *)
MoveAside(u) ==
  LET f == Head(staged[u]) IN
  /\ staged[u] # <<>> /\ Goto(u, "activate", "swapIn")
  /\ file[f] # Missing
  /\ aside' = [aside EXCEPT ![u] = file[f]]
  /\ file' = [file EXCEPT ![f] = Missing]
  /\ UNCHANGED <<version, published, new, staged, cut>>

SwapIn(u) ==
  /\ Goto(u, "swapIn", "dropAside")
  /\ file' = [file EXCEPT ![Head(staged[u])] = new[u].v]
  /\ UNCHANGED <<version, aside, published, new, staged, cut>>

SwapInFails(u) ==
  /\ Goto(u, "swapIn", "restore")
  /\ UNCHANGED <<disk, published, new, staged, cut>>

(* Mutant: a failed swap-in is reported without moving the target back.     *)
RestoreForgotten(u) ==
  /\ Goto(u, "restore", "off")
  /\ staged' = [staged EXCEPT ![u] = <<>>] /\ new' = [new EXCEPT ![u] = Idle]
  /\ UNCHANGED <<disk, published, cut>>

(* The update fails; what it has staged stays behind.                       *)
Restore(u) ==
  /\ Goto(u, "restore", "off")
  /\ file' = [file EXCEPT ![Head(staged[u])] = aside[u]]
  /\ aside' = [aside EXCEPT ![u] = Missing]
  /\ staged' = [staged EXCEPT ![u] = <<>>] /\ new' = [new EXCEPT ![u] = Idle]
  /\ UNCHANGED <<version, published, cut>>

(* The rename back is refused too, which is ignored: the update fails, and  *)
(* the target stays aside.                                                  *)
RestoreFails(u) ==
  /\ Goto(u, "restore", "off")
  /\ aside' = [aside EXCEPT ![u] = Missing]
  /\ staged' = [staged EXCEPT ![u] = <<>>] /\ new' = [new EXCEPT ![u] = Idle]
  /\ cut' = "refused"
  /\ UNCHANGED <<file, version, published>>

(* The aside file may still be mapped and stay; that makes no difference.   *)
DropAside(u) ==
  /\ Goto(u, "dropAside", "activate")
  /\ aside' = [aside EXCEPT ![u] = Missing]
  /\ Unstage(u)
  /\ UNCHANGED <<file, version, published, new, cut>>

TruncateVersion(u) ==
  /\ staged[u] = <<>> /\ Goto(u, "activate", "write")
  /\ version' = Torn
  /\ UNCHANGED <<file, aside, published, new, staged, cut>>

WriteVersion(u) ==
  /\ Goto(u, "write", "done")
  /\ version' = new[u].v
  /\ cut' = IF cut = "never" THEN cut ELSE "before"
  /\ UNCHANGED <<file, aside, published, new, staged>>

(* The update ends, is killed, or fails (download, verification, staging).  *)
End(u) ==
  /\ pc[u] # "off"
  /\ pc' = [pc EXCEPT ![u] = "off"]
  /\ new' = [new EXCEPT ![u] = Idle] /\ staged' = [staged EXCEPT ![u] = <<>>]
  /\ aside' = [aside EXCEPT ![u] = Missing]
  /\ cut' = IF pc[u] \in {"swapIn", "restore"} THEN "killed" ELSE cut
  /\ UNCHANGED <<file, version, published>>

Next ==
  \/ \E v \in Releases : Publish(v)
  \/ \E u \in Updater :
       \/ \E r \in Goal : Begin(u, r)
       \/ Current(u) \/ Behind(u) \/ SweepStaleOld(u) \/ Stage(u)
       \/ Activate(u) \/ MoveAside(u) \/ SwapIn(u) \/ SwapInFails(u)
       \/ Restore(u) \/ RestoreFails(u) \/ DropAside(u) \/ TruncateVersion(u) \/ WriteVersion(u)
       \/ End(u)

Spec == Init /\ [][Next]_vars

-----------------------------------------------------------------------------
(* Properties of updates that follow one another (Updater is a singleton).  *)

(* An update that calls the toolchain current leaves no required binary of  *)
(* that channel older than the release: one that was interrupted between    *)
(* two binaries is repeated by the next (update.rs:403-417, 449-451,        *)
(* 491-504).                                                                *)
CurrentMeansAsNew ==
  \A u \in Updater : pc[u] = "current" => \A f \in Required :
    file[f] # Missing /\ IsPrerelease(file[f]) = new[u].beta =>
      ~Less(file[f], new[u].v)

Swaps(f) == \E u \in Updater : pc[u] \in {"swapIn", "restore"} /\ Head(staged[u]) = f

(* A binary is missing only while it is swapped, or after an update was     *)
(* killed in the middle of that or could not move the binary back; and an   *)
(* update that is completed afterwards brings all that are required         *)
(* (update.rs:449-530).  The shim is not in every archive.                  *)
NeverLeftMissing ==
  \A f \in FileName : file[f] = Missing =>
    \/ Swaps(f)
    \/ cut \in {"killed", "refused"}
    \/ f \notin Required /\ cut = "before"

(* "Never downgrades" (update.rs:347-349): no required binary is put in place *)
(* that is older than the VERSION of its channel.  (VERSION and not the binary it *)
(* replaces: after an interrupted update a binary may be newer than VERSION, *)
(* and a mirror that is behind can take that one back.)                     *)
NeverDowngrades ==
  [][\A f \in Required :
       file'[f] \notin {file[f], Missing} /\ version # Torn
         /\ IsPrerelease(file'[f]) = IsPrerelease(version)
       => ~Less(file'[f], version)]_vars
=============================================================================
