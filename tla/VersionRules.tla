---------------------------- MODULE VersionRules ----------------------------
(***************************************************************************)
(* The rules of Versions over everything they meet: tuples that were        *)
(* installed, a manifest written line by line, and published releases.      *)
(* Each step adds one of them; the properties compare what the code makes   *)
(* of all of them with what they mean.                                      *)
(***************************************************************************)
EXTENDS Versions, FiniteSets

CONSTANTS
  Sample,     \* the versions that are published and installed
  MaxTuples,  \* bound: installed tuples, links among them
  MaxLines,   \* bound: lines of the manifest
  MaxReleases \* bound: published releases

ASSUME VersionRulesAssumption == Sample \subseteq Version

VARIABLES
  tuples,    \* the runtime tuples in the search path that are files
  symlinks,  \* those that are symbolic links
  lines,     \* the manifest
  releases   \* the releases the API lists

ruleVars == <<tuples, symlinks, lines, releases>>

(* Texts that are no version: a fourth number, a counter that is no number. *)
Junk == {[nums |-> <<1, 0, 0, 0>>, tags |-> <<>>],
         [nums |-> <<1, Bad>>, tags |-> <<>>],
         [nums |-> <<1, 0, 0>>, tags |-> <<[label |-> "stub", num |-> Bad]>>],
         [nums |-> <<1, 0, 0>>, tags |-> <<[label |-> "beta", num |-> Bad]>>]}

Text == {Display(v) : v \in Sample} \cup Junk
Slot == {"min", "gt", "exact", "tested"}
Line == [key : Slot, val : Text] \cup [key : {"channel"}, val : Channel]

(* The release pipeline tags a beta with its version and a short hash.      *)
Hash == [label |-> "hash", num |-> Bad]
Tag(v, hashed) == [Display(v) EXCEPT !.tags = IF hashed THEN Append(@, Hash) ELSE @]

RulesInit == tuples = {} /\ symlinks = {} /\ lines = <<>> /\ releases = {}

(* Tuples and a manifest meet in one launch, releases in one update; the    *)
(* two are not combined.                                                    *)
Install(v) ==
  /\ releases = {}
  /\ v \notin tuples /\ Cardinality(tuples) + Cardinality(symlinks) < MaxTuples
  /\ tuples' = tuples \cup {v}
  /\ UNCHANGED <<symlinks, lines, releases>>

(* A developer links a tuple into the search path, of a build of theirs say. *)
LinkTuple(v) ==
  /\ releases = {}
  /\ v \notin symlinks /\ Cardinality(tuples) + Cardinality(symlinks) < MaxTuples
  /\ symlinks' = symlinks \cup {v}
  /\ UNCHANGED <<tuples, lines, releases>>

WriteLine(l) ==
  /\ releases = {}
  /\ Len(lines) < MaxLines
  /\ lines' = Append(lines, l)
  /\ UNCHANGED <<tuples, symlinks, releases>>

Publish(r) ==
  /\ tuples = {} /\ symlinks = {} /\ lines = <<>>
  /\ r \notin releases /\ Cardinality(releases) < MaxReleases
  /\ releases' = releases \cup {r}
  /\ UNCHANGED <<tuples, symlinks, lines>>

RulesNext ==
  \/ \E v \in Sample : Install(v) \/ LinkTuple(v)
  \/ \E l \in Line : WriteLine(l)
  \/ \E v \in Sample, hashed, pre \in BOOLEAN :
       Publish([v |-> v, tag |-> Tag(v, hashed), prerelease |-> pre])


-----------------------------------------------------------------------------
Manifest == ParseManifest(lines)

(* INKA_CHANNEL: unset, a channel, or `beta` with blanks around it.         *)
Environment == {"none", "stable", "beta", "padded"}

(* What a launch in this environment selects: of the files, for the launcher *)
(* skips links, and with the variable as it is (main.rs:397-455, 683-704).  *)
SelectedTuple(env) ==
  IF Manifest.malformed THEN NoVersion
  ELSE Newest(Eligible(Manifest, WantsPrerelease(Manifest) \/ env = "beta", tuples))

(* The channel `inka doctor` goes by: of its option, of the variable without *)
(* its blanks, or of the toolchain (channel.rs:100-155).                    *)
DoctorChannel(toolchain, asked, env) ==
  ResolveChannel(toolchain, asked, IF env = "padded" THEN "beta" ELSE env)

(* What it calls compatible on that channel, links too, and whether it      *)
(* tells the developer to opt into betas.                                   *)
DoctorSelected(effective) ==
  IF Manifest.malformed THEN NoVersion
  ELSE Newest(Eligible(Manifest, WantsPrerelease(Manifest) \/ effective = "beta", tuples \cup symlinks))

BetaHint(effective) ==
  /\ ~Manifest.malformed /\ DoctorSelected(effective) = NoVersion
  /\ ~WantsPrerelease(Manifest) /\ effective # "beta"
  /\ Newest(Eligible(Manifest, TRUE, tuples \cup symlinks)) # NoVersion

(* What `inka doctor` says of an artifact, whatever its toolchain, option and *)
(* environment: it finds a tuple wherever a launch does that admits no more  *)
(* prereleases than it does; on the launch's own channel it names the tuple  *)
(* the launch takes, when each link is of a version that is there as a file  *)
(* too; and an artifact it advises a beta for finds one once it is rebuilt   *)
(* with the channel line (inka main.rs:695-760, 867-875).                   *)
DoctorAgrees ==
  LET takes == [env \in Environment |-> SelectedTuple(env)]
      told == [c \in Channel |-> DoctorSelected(c)]
      optedIn == ParseManifest(Append(lines, [key |-> "channel", val |-> "beta"]))
  IN /\ \A env \in Environment, toolchain \in Channel \cup {"dev"}, asked \in Channel \cup {"none"} :
          LET c == DoctorChannel(toolchain, asked, env)
          IN c # "refused" =>
             /\ (env = "beta" => c = "beta") /\ takes[env] # NoVersion => told[c] # NoVersion
             /\ (env = "beta" <=> c = "beta") /\ symlinks \subseteq tuples => told[c] = takes[env]
     /\ BetaHint("stable") /\ symlinks \subseteq tuples =>
          Newest(Eligible(optedIn, WantsPrerelease(optedIn), tuples)) # NoVersion

(* A version written into a file name or a tag is read back as itself:      *)
(* store, manifests and releases name tuples by text (lib.rs:33-114).       *)
RoundTrip ==
  /\ \A v \in Sample : ParseVersion(Display(v)) = v
  /\ \A r \in releases :
       TagPrereleaseVersion(r.tag) = IF IsPrerelease(r.v) THEN r.v ELSE NoVersion

Unreadable(l) == l.key # "channel" /\ l.val \in Junk

LastOf(k) ==
  LET at == {i \in DOMAIN lines : lines[i].key = k}
  IN IF at = {} THEN {} ELSE {lines[CHOOSE i \in at : \A j \in at : j <= i].val}

(* An artifact none of whose lines names a prerelease or the beta channel   *)
(* never runs on a prerelease, unless the environment asks for betas        *)
(* (lib.rs:834-845, main.rs:393-402, 451-455).                              *)
StableStaysStable ==
  (\A i \in DOMAIN lines :
     IF lines[i].key = "channel" THEN lines[i].val # "beta"
     ELSE ~Unreadable(lines[i]) => ~IsPrerelease(ParseVersion(lines[i].val)))
  => \A env \in Environment \ {"beta"} :
       SelectedTuple(env) = NoVersion \/ ~IsPrerelease(SelectedTuple(env))

(* A constraint that cannot be read is never dropped in favour of any tuple *)
(* (lib.rs:752-754): the launch is refused, whatever lines follow.  Else    *)
(* the tuple it takes meets the last line of every kind, and no newer       *)
(* installed release does; and doctor says so.                              *)
Meets(v) ==
  /\ \A t \in LastOf("exact") : t = Display(v)
  /\ \A t \in LastOf("gt") : Less(ParseVersion(t), v)
  /\ \A t \in LastOf("min") : AtMost(ParseVersion(t), v)
  /\ \A t \in LastOf("tested") : AtMost(v, ParseVersion(t))

ManifestHolds ==
  /\ StableStaysStable /\ DoctorAgrees
  /\ \A env \in Environment :
       LET chosen == SelectedTuple(env)
       IN /\ (\E i \in DOMAIN lines : Unreadable(lines[i])) => chosen = NoVersion
          /\ chosen # NoVersion =>
               /\ Meets(chosen)
               /\ \A v \in tuples : Less(chosen, v) /\ ~IsPrerelease(v) => ~Meets(v)

(***************************************************************************)
(* `inka update` without an option or a base of its own follows the channel *)
(* a build would use, takes the newest release of it that is marked as one, *)
(* and never replaces a toolchain by an older one; the tags are read as the *)
(* versions they were written from (update.rs:121-140, 160-199, 403-409,    *)
(* channel.rs:131-155).                                                     *)
(***************************************************************************)
FollowsOwnChannel ==
  RoundTrip /\ \A t \in Sample :
    LET beta == DefaultUpdateBeta("none", FALSE, ChannelOf(t))
        betas == {r.v : r \in {q \in releases : q.prerelease /\ IsPrerelease(q.v)}}
        stables == {r.v : r \in {q \in releases : ~q.prerelease /\ ~IsPrerelease(q.v)}}
        offered == IF beta THEN LatestBeta(releases) ELSE Newest(stables)
    IN /\ beta <=> ResolveChannel(ChannelOf(t), "none", "none") = "beta"
       /\ beta => offered = Newest(betas)
       /\ offered # NoVersion /\ ~UpToDate(t, offered, beta) => Less(t, offered)

(* Whoever asks, and on whichever channel, goes by the version texts that    *)
(* manifests, releases and the store hold: the launcher and `inka doctor`    *)
(* by the manifest's lines, `inka update` by the channel a build would use   *)
(* (inka-format lib.rs:714-845, update.rs:121-199).                          *)
VersionsFollowed == ManifestHolds /\ FollowsOwnChannel
=============================================================================
