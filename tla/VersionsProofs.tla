--------------------------- MODULE VersionsProofs ---------------------------
(***************************************************************************)
(* What every choice among versions rests on: the derived order is a strict *)
(* total order, and the "best so far" of a finite set is its greatest       *)
(* element.                                                                 *)
(***************************************************************************)
EXTENDS Versions, FiniteSetTheorems, SequenceTheorems, WellFoundedInduction, TLAPS

(* The derived Ord of Version is irreflexive, transitive and total          *)
(* (lib.rs:22-62).                                                          *)
LEMMA LessIrreflexive == ASSUME NEW v \in Version PROVE ~Less(v, v)
  BY DEF Less, Version, Beta, Rc, Release

(* The order composes (lib.rs:22-62).                                       *)
LEMMA LessTransitive ==
  ASSUME NEW u \in Version, NEW v \in Version, NEW w \in Version,
         Less(u, v), Less(v, w)
  PROVE  Less(u, w)
  BY DEF Less, Version, Beta, Rc, Release

(* Of two different versions one is the older (lib.rs:22-62).               *)
LEMMA LessTotal ==
  ASSUME NEW v \in Version, NEW w \in Version, v # w PROVE Less(v, w) \/ Less(w, v)
<1>1. v = [major |-> v.major, minor |-> v.minor, patch |-> v.patch, pre |-> v.pre, n |-> v.n]
  BY DEF Version
<1>2. w = [major |-> w.major, minor |-> w.minor, patch |-> w.patch, pre |-> w.pre, n |-> w.n]
  BY DEF Version
<1>3. \/ v.major # w.major \/ v.minor # w.minor \/ v.patch # w.patch
      \/ v.pre # w.pre \/ v.n # w.n
  BY <1>1, <1>2
<1> QED
  BY <1>3 DEF Less, Version, Beta, Rc, Release

(***************************************************************************)
(* A finite set of installed tuples has a greatest one: among its elements, *)
(* one that the fewest others exceed is exceeded by none.                   *)
(***************************************************************************)
Above(S, v) == {w \in S : Less(v, w)}

(* A newer version has fewer above it (main.rs:442-447).                    *)
LEMMA AboveShrinks ==
  ASSUME NEW S, IsFiniteSet(S), S \subseteq Version,
         NEW v \in S, NEW w \in S, Less(v, w)
  PROVE  Cardinality(Above(S, w)) < Cardinality(Above(S, v))
<1>1. Above(S, w) \subseteq Above(S, v)
  BY LessTransitive DEF Above
<1>2. w \in Above(S, v) /\ w \notin Above(S, w)
  BY LessIrreflexive DEF Above
<1>3. IsFiniteSet(Above(S, v))
  BY FS_Subset DEF Above
<1>4. IsFiniteSet(Above(S, w)) /\ Cardinality(Above(S, w)) <= Cardinality(Above(S, v))
  BY <1>1, <1>3, FS_Subset
<1>5. Cardinality(Above(S, v)) # Cardinality(Above(S, w))
  BY <1>1, <1>2, <1>3, FS_Subset
<1> QED
  BY <1>3, <1>4, <1>5, FS_CardinalityType

(* The loop that keeps the best version so far ends with the greatest of    *)
(* all, in whatever order the directory lists them (main.rs:442-447,        *)
(* update.rs:194-196, 646-651).                                             *)
THEOREM NewestIsGreatest ==
  ASSUME NEW S, IsFiniteSet(S), S \subseteq Version, S # {}
  PROVE  Newest(S) \in S /\ \A w \in S : AtMost(w, Newest(S))
<1> DEFINE Sizes == {Cardinality(Above(S, v)) : v \in S}
<1>1. \A v \in S : Cardinality(Above(S, v)) \in Nat
  BY FS_Subset, FS_CardinalityType DEF Above
<1>2. Sizes \subseteq Nat /\ Sizes # {}
  BY <1>1
<1>3. \E x \in Sizes : \A y \in Sizes : ~(<<y, x>> \in OpToRel(<, Nat))
  <2> HIDE DEF Sizes
  <2> QED BY <1>2, NatLessThanWellFounded, WFMin
<1>4. PICK v \in S : \A w \in S : ~(Cardinality(Above(S, w)) < Cardinality(Above(S, v)))
  BY <1>1, <1>3 DEF OpToRel
<1>5. \A w \in S : AtMost(w, v)
  <2> SUFFICES ASSUME NEW w \in S PROVE AtMost(w, v)
    OBVIOUS
  <2>1. ~Less(v, w)
    BY <1>4, AboveShrinks
  <2> QED
    BY <2>1, LessTotal DEF AtMost
<1> QED
  BY <1>5 DEF Newest

(* Every set of numbers that is not empty has a least one.                   *)
LEMMA LeastNumber ==
  ASSUME NEW S, S \subseteq Nat, S # {}
  PROVE  \E i \in S : \A j \in S : i <= j
<1> DEFINE R == OpToRel(<, Nat)
<1>1. IsWellFoundedOn(R, Nat)
      BY NatLessThanWellFounded
<1>2. \A x, y \in Nat : x < y => <<x, y>> \in R
      BY DEF OpToRel
<1> HIDE DEF R
<1>3. PICK x \in S : \A y \in S : ~(<<y, x>> \in R)
      BY <1>1, WFMin
<1>4. \A y \in S : ~(y < x)
      BY <1>2, <1>3
<1> QED
      BY <1>4

-----------------------------------------------------------------------------
(* The manifest after the first lines: what the loop over the lines has      *)
(* made of those it has read (lib.rs:714-772).                               *)
ReadsUpTo(f, lines, n) ==
  f = [i \in 0..n |-> IF i = 0 THEN NoConstraint ELSE ParseLine(f[i - 1], lines[i])]

(* The loop gets past every line (lib.rs:714-772).                           *)
LEMMA LoopEnds == ASSUME NEW lines, NEW n \in Nat PROVE \E f : ReadsUpTo(f, lines, n)
<1> DEFINE Stuck == {k \in Nat : ~\E f : ReadsUpTo(f, lines, k)}
<1> SUFFICES Stuck = {}
    OBVIOUS
<1>1. SUFFICES ASSUME Stuck # {} PROVE FALSE
      OBVIOUS
<1>2. PICK k \in Stuck : \A j \in Stuck : k <= j
      BY <1>1, LeastNumber
<1>3. k # 0
  <2>1. ReadsUpTo([i \in 0..0 |-> NoConstraint], lines, 0)
        BY DEF ReadsUpTo
  <2> QED
        BY <2>1
<1>4. k - 1 \in Nat /\ k - 1 \notin Stuck
      BY <1>2, <1>3
<1>5. PICK g : ReadsUpTo(g, lines, k - 1)
      BY <1>4
<1> DEFINE f == [i \in 0..k |-> IF i = k THEN ParseLine(g[k - 1], lines[k]) ELSE g[i]]
<1>6. ReadsUpTo(f, lines, k)
  <2>1. \A i \in 0..(k - 1) : g[i] = IF i = 0 THEN NoConstraint ELSE ParseLine(g[i - 1], lines[i])
        BY <1>5 DEF ReadsUpTo
  <2>2. \A i \in 0..k : f[i] = IF i = 0 THEN NoConstraint ELSE ParseLine(f[i - 1], lines[i])
    <3> TAKE i \in 0..k
    <3>1. CASE i = k
          BY <1>3, <1>4, <3>1
    <3>2. CASE i # k
      <4>1. i \in 0..(k - 1) /\ f[i] = g[i] /\ (i # 0 => f[i - 1] = g[i - 1])
            BY <1>3, <3>2
      <4> QED
            BY <2>1, <4>1
    <3> QED
          BY <3>1, <3>2
  <2> QED
        BY <2>2 DEF ReadsUpTo
<1> QED
      BY <1>6

(* And in one way (lib.rs:714-772): equal lines are read equally.            *)
LEMMA LoopAgrees ==
  ASSUME NEW l, NEW m, NEW f, NEW g, NEW n \in Nat, NEW p \in Nat,
         ReadsUpTo(f, l, n), ReadsUpTo(g, m, p),
         NEW q \in Nat, q <= n, q <= p, \A i \in 1..q : l[i] = m[i]
  PROVE  f[q] = g[q]
<1> DEFINE Differ == {k \in Nat : k <= q /\ f[k] # g[k]}
<1> SUFFICES ASSUME Differ # {} PROVE FALSE
    OBVIOUS
<1>1. PICK k \in Differ : \A j \in Differ : k <= j
      BY LeastNumber
<1>2. f[k] = IF k = 0 THEN NoConstraint ELSE ParseLine(f[k - 1], l[k])
      BY DEF ReadsUpTo
<1>3. g[k] = IF k = 0 THEN NoConstraint ELSE ParseLine(g[k - 1], m[k])
      BY DEF ReadsUpTo
<1>4. k # 0
      BY <1>1, <1>2, <1>3
<1>5. k - 1 \in Nat /\ k - 1 <= q /\ k - 1 \notin Differ
      BY <1>1, <1>4
<1>6. f[k - 1] = g[k - 1] /\ l[k] = m[k]
      BY <1>4, <1>5
<1> QED
      BY <1>1, <1>2, <1>3, <1>4, <1>6

(* What the manifest is of some lines: that of the loop.                     *)
LEMMA ManifestRead ==
  ASSUME NEW lines, Len(lines) \in Nat
  PROVE  \E f : ReadsUpTo(f, lines, Len(lines)) /\ ParseManifest(lines) = f[Len(lines)]
<1> DEFINE f == CHOOSE f : ReadsUpTo(f, lines, Len(lines))
<1>1. ReadsUpTo(f, lines, Len(lines))
      BY LoopEnds
<1>2. ParseManifest(lines) = f[Len(lines)]
      BY DEF ParseManifest, ReadsUpTo
<1> HIDE DEF f
<1> QED
      BY <1>1, <1>2

(* A manifest without lines constrains nothing (lib.rs:714-720).             *)
LEMMA ManifestOfNone == ParseManifest(<<>>) = NoConstraint
<1>1. PICK f : ReadsUpTo(f, <<>>, 0) /\ ParseManifest(<<>>) = f[0]
      BY ManifestRead
<1> QED
      BY <1>1 DEF ReadsUpTo

(* The last line is read on top of those before it (lib.rs:714-772).         *)
LEMMA ManifestOfMore ==
  ASSUME NEW S, NEW lines \in Seq(S), NEW l \in S
  PROVE  ParseManifest(Append(lines, l)) = ParseLine(ParseManifest(lines), l)
<1> DEFINE n == Len(lines)
           more == Append(lines, l)
<1>1. /\ n \in Nat /\ Len(more) = n + 1 /\ more[n + 1] = l
      /\ \A i \in 1..n : more[i] = lines[i]
      OBVIOUS
<1>2. PICK f : ReadsUpTo(f, lines, n) /\ ParseManifest(lines) = f[n]
      BY <1>1, ManifestRead
<1>3. PICK g : ReadsUpTo(g, more, n + 1) /\ ParseManifest(more) = g[n + 1]
  <2> HIDE DEF n, more
  <2> QED
      BY <1>1, ManifestRead
<1> HIDE DEF n, more
<1>4. g[n] = f[n]
      BY <1>1, <1>2, <1>3, LoopAgrees
<1>5. g[n + 1] = ParseLine(g[n], more[n + 1])
      BY <1>1, <1>3 DEF ReadsUpTo
<1> QED
      BY <1>1, <1>2, <1>3, <1>4, <1>5 DEF more

(* A version that was written is read back, whatever holds its numbers and    *)
(* its tag (lib.rs:33-114).                                                  *)
LEMMA WrittenIsRead ==
  ASSUME NEW v \in Version, NEW t, t.nums = Display(v).nums, t.tags = Display(v).tags
  PROVE  ParseVersion(t) = v
<1> DEFINE part(i) == IF i <= Len(t.nums) THEN t.nums[i] ELSE 0
           pre == IF t.tags = <<>> THEN Release ELSE Labels[t.tags[1].label]
           n == IF t.tags = <<>> THEN 0 ELSE t.tags[1].num
<1>1. t.nums = <<v.major, v.minor, v.patch>>
      BY DEF Display
<1>2. t.tags = IF v.pre = Release THEN <<>> ELSE <<[label |-> IF v.pre = Beta THEN "beta" ELSE "rc", num |-> v.n]>>
      BY DEF Display
<1>3. /\ v.major \in Nat /\ v.minor \in Nat /\ v.patch \in Nat /\ v.pre \in {0, 1, 2} /\ v.n \in Nat
      /\ v.pre = 2 => v.n = 0
      BY DEF Version, Beta, Rc, Release
<1>4. v = V(v.major, v.minor, v.patch, v.pre, v.n)
      BY DEF Version, V
<1>6. Len(t.nums) = 3 /\ part(1) = v.major /\ part(2) = v.minor /\ part(3) = v.patch
      BY <1>1
<1>7. \A i \in 1..3 : part(i) # Bad
      BY <1>3, <1>6 DEF Bad
<1>8. DOMAIN Labels = {"beta", "rc"} /\ Labels["beta"] = 0 /\ Labels["rc"] = 1
      BY DEF Labels, Beta, Rc
<1>9. CASE v.pre = Release
  <2>1. t.tags = <<>>
        BY <1>2, <1>9
  <2>2. pre = v.pre /\ n = v.n
        BY <1>3, <1>9, <2>1 DEF Release
  <2>3. ParseVersion(t) = V(part(1), part(2), part(3), pre, n)
        BY <1>6, <1>7, <2>1 DEF ParseVersion
  <2> QED
        BY <1>4, <1>6, <2>2, <2>3
<1>10. CASE v.pre # Release
  <2> DEFINE label == IF v.pre = Beta THEN "beta" ELSE "rc"
  <2>1. t.tags = <<[label |-> label, num |-> v.n]>>
        BY <1>2, <1>10
  <2>2. t.tags # <<>> /\ Len(t.tags) = 1 /\ t.tags[1].label = label /\ t.tags[1].num = v.n
        BY <2>1
  <2>3. label \in {"beta", "rc"} /\ Labels[label] = v.pre
        BY <1>3, <1>8, <1>10 DEF Beta, Rc, Release
  <2>4. pre = v.pre /\ n = v.n /\ n # Bad
        BY <1>3, <2>2, <2>3 DEF Bad
  <2>5. ParseVersion(t) = V(part(1), part(2), part(3), pre, n)
        BY <1>6, <1>7, <1>8, <2>2, <2>3, <2>4 DEF ParseVersion
  <2> QED
        BY <1>4, <1>6, <2>4, <2>5
<1> QED
      BY <1>9, <1>10

(* No version is what a text without one is read as (lib.rs:64-114).         *)
LEMMA NoneIsNoVersion == NoVersion \notin Version
<1>1. \A w \in Version : DOMAIN w = {"major", "minor", "patch", "pre", "n"}
      BY DEF Version
<1>2. DOMAIN NoVersion = {"none"}
      BY DEF NoVersion
<1> QED
      BY <1>1, <1>2

(* The newest of finitely many is one of them, and there is one unless they   *)
(* are none (main.rs:442-447).                                               *)
LEMMA NewestExists ==
  ASSUME NEW S, IsFiniteSet(S), S \subseteq Version
  PROVE  /\ Newest(S) = NoVersion <=> S = {}
         /\ S # {} => Newest(S) \in S /\ \A w \in S : AtMost(w, Newest(S))
<1>1. S = {} => Newest(S) = NoVersion
      BY DEF Newest
<1> QED
      BY <1>1, NewestIsGreatest, NoneIsNoVersion
=============================================================================
