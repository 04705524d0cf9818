------------------------------ MODULE Versions ------------------------------
(***************************************************************************)
(* Runtime tuples: versions with a beta/rc prerelease, the text they are    *)
(* parsed from, an artifact's constraints on them, and the release channel  *)
(* rules of the command line and of `inka update`.                          *)
(***************************************************************************)
EXTENDS Integers, Sequences

(* ---- versions ------------------------------------------------------------ *)

Beta == 0
Rc == 1
Release == 2

(* `n` is the prerelease counter, 0 for a release. *)
Version ==
  {v \in [major : Nat, minor : Nat, patch : Nat, pre : {Beta, Rc, Release}, n : Nat] :
     v.pre = Release => v.n = 0}

V(a, b, c, p, i) == [major |-> a, minor |-> b, patch |-> c, pre |-> p, n |-> i]

IsPrerelease(v) == v.pre # Release

(* The derived order: field by field, Beta(_) < Rc(_) < Release. *)
Less(v, w) ==
  \/ v.major < w.major
  \/ v.major = w.major /\ v.minor < w.minor
  \/ v.major = w.major /\ v.minor = w.minor /\ v.patch < w.patch
  \/ /\ v.major = w.major /\ v.minor = w.minor /\ v.patch = w.patch
     /\ v.pre < w.pre \/ (v.pre = w.pre /\ v.n < w.n)

AtMost(v, w) == v = w \/ Less(v, w)

NoVersion == [none |-> TRUE]
Newest(S) == IF S = {} THEN NoVersion ELSE CHOOSE v \in S : \A w \in S : AtMost(w, v)

(***************************************************************************)
(* A version text is its dot-separated numbers (Bad: not a u64) and the     *)
(* dash-separated segments after them; a segment "label.number" is a pair.  *)
(* parse_version takes all that follows the first dash for one tag.         *)
(***************************************************************************)
Bad == -1
Labels == [beta |-> Beta, rc |-> Rc]

ParseVersion(t) ==
  LET part(i) == IF i <= Len(t.nums) THEN t.nums[i] ELSE 0
      pre == IF t.tags = <<>> THEN Release ELSE Labels[t.tags[1].label]
      n == IF t.tags = <<>> THEN 0 ELSE t.tags[1].num
  IN IF /\ Len(t.nums) \in 1..3 /\ \A i \in 1..3 : part(i) # Bad
        /\ \/ t.tags = <<>>
           \/ Len(t.tags) = 1 /\ t.tags[1].label \in DOMAIN Labels /\ n # Bad
     THEN V(part(1), part(2), part(3), pre, n)
     ELSE NoVersion

Display(v) ==
  [nums |-> <<v.major, v.minor, v.patch>>,
   tags |-> IF v.pre = Release THEN <<>>
            ELSE <<[label |-> IF v.pre = Beta THEN "beta" ELSE "rc", num |-> v.n]>>]

(* ---- an artifact's manifest ----------------------------------------------- *)

(***************************************************************************)
(* The slots are sets of at most one version.  A line that does not parse   *)
(* makes the manifest malformed for good; of several lines for one slot the *)
(* last one counts.                                                         *)
(***************************************************************************)
NoConstraint == [min |-> {}, gt |-> {}, exact |-> {}, tested |-> {},
                 channel |-> "none", malformed |-> FALSE]

(* Mutant: a version that does not parse is no constraint. *)
ParseLineLenient(m, line) ==
  IF line.key = "channel" THEN [m EXCEPT !.channel = line.val]
  ELSE IF ParseVersion(line.val) = NoVersion THEN m
  ELSE [m EXCEPT ![line.key] = {ParseVersion(line.val)}]

ParseLine(m, line) ==
  CASE line.key = "channel" -> [m EXCEPT !.channel = line.val]
    [] OTHER -> IF ParseVersion(line.val) = NoVersion THEN [m EXCEPT !.malformed = TRUE]
                ELSE [m EXCEPT ![line.key] = {ParseVersion(line.val)}]

ParseManifest(lines) ==
  LET upto[i \in 0..Len(lines)] ==
        IF i = 0 THEN NoConstraint ELSE ParseLine(upto[i - 1], lines[i])
  IN upto[Len(lines)]

WantsPrerelease(m) ==
  \/ m.channel = "beta"
  \/ \E v \in m.min \cup m.gt \cup m.exact \cup m.tested : IsPrerelease(v)

ConstraintAllows(m, v) ==
  /\ \A e \in m.exact : v = e
  /\ \A g \in m.gt : Less(g, v)
  /\ \A f \in m.min : ~Less(v, f)
  /\ \A t \in m.tested : ~Less(t, v)

Eligible(m, allow, S) ==
  {v \in S : ConstraintAllows(m, v) /\ (IsPrerelease(v) => allow)}

(* ---- release channels ----------------------------------------------------- *)

Channel == {"stable", "beta"}

(* The channel of a toolchain: of its version, "dev" when none is baked in. *)
ChannelOf(v) ==
  IF v = NoVersion THEN "dev" ELSE IF IsPrerelease(v) THEN "beta" ELSE "stable"

(* The effective channel of build, run and doctor; "refused" is exit 2. *)
ResolveChannel(toolchain, requested, env) ==
  LET asked == IF requested # "none" THEN requested ELSE env
  IN IF asked = "beta" /\ toolchain = "stable" THEN "refused"
     ELSE IF asked # "none" THEN asked
     ELSE IF toolchain = "beta" THEN "beta" ELSE "stable"

(* The channel `inka update` follows. *)
DefaultUpdateBeta(explicit, baseOverride, toolchain) ==
  IF explicit # "none" THEN explicit = "beta"
  ELSE ~baseOverride /\ toolchain = "beta"

(* The version a release tag names, without the short hash at its end. *)
TagPrereleaseVersion(t) ==
  LET whole == ParseVersion(t)
      head == ParseVersion([t EXCEPT !.tags = SubSeq(@, 1, Len(@) - 1)])
      v == IF whole # NoVersion \/ t.tags = <<>> THEN whole ELSE head
  IN IF v # NoVersion /\ IsPrerelease(v) THEN v ELSE NoVersion

LatestBeta(releases) ==
  Newest({TagPrereleaseVersion(r.tag) : r \in {q \in releases : q.prerelease}}
           \ {NoVersion})

(* Is a toolchain or a runtime of the wanted channel there that is as new?  *)
UpToDate(installed, latest, beta) ==
  /\ installed # NoVersion
  /\ IsPrerelease(installed) = beta
  /\ ~Less(installed, latest)

OfChannel(S, beta) == {v \in S : IsPrerelease(v) = beta}

PlanInstall(S, latest, beta) ==
  LET i == Newest(OfChannel(S, beta)) IN i # NoVersion => Less(i, latest)
=============================================================================
