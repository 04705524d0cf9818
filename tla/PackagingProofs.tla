--------------------------- MODULE PackagingProofs ---------------------------
(***************************************************************************)
(* `inka build` and `inka run`: the packages that are embedded, what is     *)
(* granted, the artifact and its launch, for every configuration, command   *)
(* line, package graph and store.  `inka desktop`: what is packaged again   *)
(* and again into the same directories, for any number of those, of         *)
(* commands and of deaths.                                                 *)
(***************************************************************************)
EXTENDS Build, DesktopPackage, VersionsProofs

-----------------------------------------------------------------------------
(* Every dependency of a folder resolves to a folder.                        *)
IsGraph(d) == \A f \in Folder : \A n \in DOMAIN d[f] : d[f][n] \in Folder

PackageNames == {NameOf[f] : f \in Folder} \cup UNION {DOMAIN deps[f] : f \in Folder}
Copies == [folder : Folder, path : Seq(PackageNames) \ {<<>>}]
CopyOf(f, p) == [folder |-> f, path |-> p]
Waiting == {queue[i] : i \in DOMAIN queue}
Seen == visited \cup Waiting

EmbedTyped ==
  /\ IsGraph(deps) /\ asked \in Seq(Folder) /\ left \in Seq(Folder)
  /\ queue \in Seq(Copies) /\ visited \subseteq Copies
  /\ \A n \in DOMAIN claimed : n \in PackageNames /\ claimed[n] \in Folder
  /\ current = Nothing \/ current \in visited
  /\ names \subseteq IF current = Nothing THEN {} ELSE DOMAIN deps[current.folder]

(* A claimed name is copied to the top level, from the folder that claimed it; *)
(* and what is copied below such a copy is the version that one depends on.   *)
ClaimInv ==
  /\ \A n \in DOMAIN claimed : CopyOf(claimed[n], <<n>>) \in Seen
  /\ \A c \in Seen, n \in PackageNames :
       c.path = <<n>> => n \in DOMAIN claimed /\ c.folder = claimed[n]
  /\ \A c \in Seen, m, n \in PackageNames :
       c.path = <<m, n>> => /\ m \in DOMAIN claimed /\ n \in DOMAIN deps[claimed[m]]
                            /\ c.folder = deps[claimed[m]][n]

(* What was copied is in the tree while the package is.                      *)
TreeInv ==
  /\ \A p \in DOMAIN tree : \E c \in visited : c.path = p /\ c.folder = tree[p]
  /\ tree # NoFiles \/ queue # <<>> => \A c \in visited : c.path \in DOMAIN tree
  /\ current # Nothing => tree # NoFiles

(* Every dependency of a copy that was looked at has a copy that it finds.    *)
FollowInv ==
  \A c \in visited : \A n \in DOMAIN deps[c.folder] :
    \/ c = current /\ n \in names
    \/ /\ n \in DOMAIN claimed
       /\ \/ claimed[n] = deps[c.folder][n]
          \/ CopyOf(deps[c.folder][n], Append(c.path, n)) \in Seen

(* And so has every one in the artifact, the right version of it at the top   *)
(* level of a single package.                                                *)
ArtifactInv ==
  /\ \A p \in DOMAIN files :
       /\ p \in Seq(PackageNames) \ {<<>>} /\ files[p] \in Folder
       /\ \A n \in DOMAIN deps[files[p]] : <<n>> \in DOMAIN files \/ Append(p, n) \in DOMAIN files
  /\ left = <<>> => tree = NoFiles /\ queue = <<>> /\ current = Nothing
  /\ Len(asked) = 1 /\ left # <<>> => Len(left) = 1 /\ files = NoFiles
  /\ Len(asked) = 1 /\ left = <<>> =>
       \A m \in PackageNames : <<m>> \in DOMAIN files =>
         \A n \in DOMAIN deps[files[<<m>>]] :
           IF <<m, n>> \in DOMAIN files THEN files[<<m, n>>] = deps[files[<<m>>]][n]
           ELSE <<n>> \in DOMAIN files /\ files[<<n>>] = deps[files[<<m>>]][n]

EmbedInv == EmbedTyped /\ ClaimInv /\ TreeInv /\ FollowInv /\ ArtifactInv

(* Nothing is copied yet (embed.rs:118-148).                                 *)
LEMMA EmbedStarts ==
  ASSUME NEW graphs, NEW externals, EmbedInit(graphs, externals),
         \A d \in graphs : IsGraph(d), externals \subseteq Seq(Folder)
  PROVE  EmbedInv
<1>1. /\ IsGraph(deps) /\ asked \in Seq(Folder) /\ left = asked
      /\ queue = <<>> /\ visited = {} /\ current = Nothing /\ names = {}
      /\ claimed = NoFiles /\ tree = NoFiles /\ files = NoFiles
      BY DEF EmbedInit
<1>2. DOMAIN NoFiles = {} /\ DOMAIN queue = {}
      BY <1>1 DEF NoFiles
<1>3. queue \in Seq(Copies)
      BY <1>1
<1>4. Seen = {}
      BY <1>1, <1>2 DEF Seen, Waiting
<1>5. EmbedTyped
      BY <1>1, <1>2, <1>3 DEF EmbedTyped
<1>6. ClaimInv /\ TreeInv /\ FollowInv
      BY <1>1, <1>2, <1>4 DEF ClaimInv, TreeInv, FollowInv
<1>7. ArtifactInv
      BY <1>1, <1>2 DEF ArtifactInv
<1> QED
      BY <1>5, <1>6, <1>7 DEF EmbedInv

(* ---- sequences of copies ---------------------------------------------------- *)

(* What waits after one more copy was queued.                                *)
LEMMA QueueGrows ==
  ASSUME NEW S, NEW s \in Seq(S), NEW c \in S
  PROVE  LET t == Append(s, c) IN
         /\ t \in Seq(S) /\ t # <<>>
         /\ {t[i] : i \in DOMAIN t} = {s[i] : i \in DOMAIN s} \cup {c}
<1> DEFINE t == Append(s, c)
<1>1. /\ t \in Seq(S) /\ Len(t) = Len(s) + 1 /\ t[Len(s) + 1] = c
      /\ \A i \in 1..Len(s) : t[i] = s[i]
      /\ DOMAIN s = 1..Len(s) /\ DOMAIN t = 1..Len(t) /\ Len(s) \in Nat
      OBVIOUS
<1> HIDE DEF t
<1>2. DOMAIN t = DOMAIN s \cup {Len(s) + 1}
      BY <1>1
<1>3. t # <<>>
      BY <1>1
<1> QED
      BY <1>1, <1>2, <1>3 DEF t

(* What waits after the first copy was taken.                                *)
LEMMA QueueShrinks ==
  ASSUME NEW S, NEW s \in Seq(S), s # <<>>
  PROVE  /\ Tail(s) \in Seq(S) /\ Head(s) \in S
         /\ {s[i] : i \in DOMAIN s} = {Tail(s)[i] : i \in DOMAIN Tail(s)} \cup {Head(s)}
<1> DEFINE t == Tail(s)
<1>1. /\ t \in Seq(S) /\ Len(t) = Len(s) - 1 /\ Head(s) = s[1] /\ Len(s) \in Nat /\ Len(s) # 0
      /\ \A i \in 1..Len(t) : t[i] = s[i + 1]
      /\ DOMAIN s = 1..Len(s) /\ DOMAIN t = 1..Len(t) /\ s[1] \in S
      OBVIOUS
<1> HIDE DEF t
<1>2. \A i \in DOMAIN s : i = 1 \/ (i - 1 \in DOMAIN t /\ t[i - 1] = s[i])
      BY <1>1
<1>3. \A i \in DOMAIN t : i + 1 \in DOMAIN s /\ t[i] = s[i + 1]
      BY <1>1
<1>4. {s[i] : i \in DOMAIN s} \subseteq {t[i] : i \in DOMAIN t} \cup {s[1]}
      BY <1>2
<1>5. {t[i] : i \in DOMAIN t} \subseteq {s[i] : i \in DOMAIN s}
      BY <1>3
<1>6. s[1] \in {s[i] : i \in DOMAIN s}
      BY <1>1
<1> QED
      BY <1>1, <1>4, <1>5, <1>6 DEF t

(* Paths of one name and of two are told apart.                              *)
LEMMA Singles ==
  /\ \A n, m : <<n>> = <<m>> => n = m
  /\ \A n, m, k, l : <<n, m>> = <<k, l>> => n = k /\ m = l
  /\ \A n, m, k : <<n>> # <<m, k>>
  OBVIOUS

(* The path of a name below a top-level copy.                                *)
LEMMA Pair == ASSUME NEW m, NEW n PROVE Append(<<m>>, n) = <<m, n>>
<1> DEFINE S == {m, n}
           a == Append(<<m>>, n)
           b == <<m, n>>
<1>1. a \in Seq(S) /\ Len(a) = 2 /\ a[1] = m /\ a[2] = n
  <2>1. <<m>> \in Seq(S) /\ n \in S /\ Len(<<m>>) = 1 /\ <<m>>[1] = m
        OBVIOUS
  <2> HIDE DEF S
  <2> QED
        BY <2>1, AppendProperties
<1>2. b \in Seq(S) /\ Len(b) = 2 /\ b[1] = m /\ b[2] = n
      OBVIOUS
<1> HIDE DEF a, b
<1>3. \A i \in 1..2 : i = 1 \/ i = 2
      OBVIOUS
<1>4. a = b
      BY <1>1, <1>2, <1>3, SeqEqual
<1> QED
      BY <1>4 DEF a, b

(* A path below another one has two names or more; with two, the other one   *)
(* was a top-level path.                                                     *)
LEMMA PathGrows ==
  ASSUME NEW S, NEW p \in Seq(S) \ {<<>>}, NEW n \in S
  PROVE  /\ Append(p, n) \in Seq(S) \ {<<>>}
         /\ \A k : Append(p, n) # <<k>>
         /\ \A k, l : Append(p, n) = <<k, l>> => p = <<k>> /\ n = l
<1> DEFINE q == Append(p, n)
<1>1. /\ q \in Seq(S) /\ Len(q) = Len(p) + 1 /\ q # <<>>
      /\ \A i \in 1..Len(p) : q[i] = p[i]
      /\ q[Len(p) + 1] = n
      BY AppendProperties
<1>2. Len(p) \in Nat /\ Len(p) # 0
      OBVIOUS
<1> HIDE DEF q
<1>3. \A k : q # <<k>>
      BY <1>1, <1>2
<1>4. ASSUME NEW k, NEW l, q = <<k, l>> PROVE p = <<k>> /\ n = l
  <2>1. Len(q) = 2 /\ q[1] = k /\ q[2] = l
        BY <1>4
  <2>2. Len(p) = 1
    <3>1. Len(q) = Len(p) + 1 /\ Len(p) \in Nat /\ Len(q) = 2
          BY <1>1, <1>2, <2>1
    <3>2. \A x, y \in Nat : x = y + 1 /\ x = 2 => y = 1
          OBVIOUS
    <3> QED
          BY ONLY <3>1, <3>2
  <2>3. p[1] = k /\ n = l
        BY <1>1, <2>1, <2>2
  <2>4. p = <<p[1]>>
        BY <2>2
  <2> QED
        BY <2>3, <2>4
<1> QED
      BY <1>1, <1>3, <1>4 DEF q

(* The folder and the path of a copy.                                        *)
LEMMA CopyFields ==
  /\ \A f, p : CopyOf(f, p).folder = f /\ CopyOf(f, p).path = p
  /\ \A c \in Copies : c = CopyOf(c.folder, c.path) /\ c.folder \in Folder /\ c.path \in Seq(PackageNames) \ {<<>>}
  /\ \A f \in Folder : \A p \in Seq(PackageNames) \ {<<>>} : CopyOf(f, p) \in Copies
  BY DEF CopyOf, Copies

(* ---- steps -------------------------------------------------------------------- *)

(* The next package asked for claims its own name (embed.rs:143-148).        *)
LEMMA BeginKeeps == ASSUME EmbedInv, BeginPackage PROVE EmbedInv'
<1>0. EmbedTyped /\ ClaimInv /\ TreeInv /\ FollowInv /\ ArtifactInv
      BY DEF EmbedInv
<1> DEFINE f == Head(left)
           c0 == CopyOf(f, <<NameOf[f]>>)
<1>1. /\ left # <<>> /\ current = Nothing /\ tree = NoFiles
      /\ claimed' = With(NoFiles, NameOf[f], f) /\ queue' = <<c0>> /\ visited' = {}
      /\ UNCHANGED <<deps, asked, left, current, names, tree, files>>
      BY DEF BeginPackage, CopyOf
<1>2. f \in Folder
      BY <1>0, <1>1 DEF EmbedTyped
<1> HIDE DEF f
<1>3. NameOf[f] \in PackageNames /\ PackageNames' = PackageNames /\ Copies' = Copies
      BY <1>1, <1>2 DEF PackageNames, Copies
<1>4. c0 \in Copies /\ c0.folder = f /\ c0.path = <<NameOf[f]>>
  <2>1. <<NameOf[f]>> \in Seq(PackageNames) \ {<<>>}
        BY <1>3
  <2> QED
        BY <1>2, <2>1, CopyFields
<1> HIDE DEF c0
<1>5. queue' \in Seq(Copies) /\ Seen' = {c0}
      BY <1>1, <1>4 DEF Seen, Waiting
<1>6. DOMAIN claimed' = {NameOf[f]} /\ claimed'[NameOf[f]] = f
  <2>1. DOMAIN NoFiles = {}
        BY DEF NoFiles
  <2> QED
        BY <1>1, <2>1 DEF With
<1>7. EmbedTyped'
      BY <1>0, <1>1, <1>2, <1>3, <1>5, <1>6 DEF EmbedTyped
<1>8. ClaimInv'
  <2>1. CopyOf(claimed'[NameOf[f]], <<NameOf[f]>>) = c0
        BY <1>6 DEF c0
  <2>2. \A c \in Seen' : \A n : c.path = <<n>> => n \in DOMAIN claimed' /\ c.folder = claimed'[n]
        BY <1>4, <1>5, <1>6, Singles
  <2>3. \A c \in Seen' : \A m, n : c.path # <<m, n>>
        BY <1>4, <1>5, Singles
  <2> QED
        BY <1>3, <1>5, <1>6, <2>1, <2>2, <2>3 DEF ClaimInv
<1>9. TreeInv' /\ FollowInv'
  <2>1. DOMAIN NoFiles = {}
        BY DEF NoFiles
  <2> QED
        BY <1>1, <2>1 DEF TreeInv, FollowInv
<1>10. ArtifactInv'
      BY <1>0, <1>1, <1>3 DEF ArtifactInv
<1> QED
      BY <1>7, <1>8, <1>9, <1>10 DEF EmbedInv

(* The files of a folder are copied, or were already (embed.rs:150-154).     *)
LEMMA CopyKeeps == ASSUME EmbedInv, Copy PROVE EmbedInv'
<1>0. EmbedTyped /\ ClaimInv /\ TreeInv /\ FollowInv /\ ArtifactInv
      BY DEF EmbedInv
<1> DEFINE c == Head(queue)
<1>1. /\ current = Nothing /\ queue # <<>> /\ queue' = Tail(queue)
      /\ UNCHANGED <<deps, asked, left, claimed, files>>
      BY DEF Copy
<1>2. queue \in Seq(Copies)
      BY <1>0 DEF EmbedTyped
<1>3. queue' \in Seq(Copies) /\ c \in Copies /\ Waiting = Waiting' \cup {c}
      BY <1>1, <1>2, QueueShrinks DEF Waiting
<1>4. names = {} /\ left # <<>> /\ PackageNames' = PackageNames /\ Copies' = Copies
      BY <1>0, <1>1 DEF EmbedTyped, ArtifactInv, PackageNames, Copies
<1>5. \/ c \in visited /\ UNCHANGED <<visited, tree, current, names>>
      \/ /\ c \notin visited /\ visited' = visited \cup {c} /\ tree' = With(tree, c.path, c.folder)
         /\ current' = c /\ names' = DOMAIN deps[c.folder]
      BY DEF Copy
<1> HIDE DEF c
<1>6. Seen' = Seen
      BY <1>3, <1>5 DEF Seen
<1>7. ClaimInv'
      BY <1>0, <1>1, <1>4, <1>6 DEF ClaimInv
<1>8. ArtifactInv'
      BY <1>0, <1>1, <1>4 DEF ArtifactInv
<1>9. CASE c \in visited /\ UNCHANGED <<visited, tree, current, names>>
  <2>1. EmbedTyped'
        BY <1>0, <1>1, <1>3, <1>4, <1>9 DEF EmbedTyped
  <2>2. TreeInv' /\ FollowInv'
        BY <1>0, <1>1, <1>6, <1>9 DEF TreeInv, FollowInv
  <2> QED
        BY <1>7, <1>8, <2>1, <2>2 DEF EmbedInv
<1>10. CASE /\ c \notin visited /\ visited' = visited \cup {c} /\ tree' = With(tree, c.path, c.folder)
            /\ current' = c /\ names' = DOMAIN deps[c.folder]
  <2>1. EmbedTyped'
    <3>1. c # Nothing
      <4>1. Nothing.path = <<>>
            BY DEF Nothing
      <4> QED
            BY <1>3, <4>1, CopyFields
    <3> QED
          BY <1>0, <1>1, <1>3, <1>4, <1>10, <3>1 DEF EmbedTyped
  <2>2. TreeInv'
    <3>1. /\ DOMAIN tree' = DOMAIN tree \cup {c.path} /\ tree'[c.path] = c.folder
          /\ \A p \in DOMAIN tree \ {c.path} : tree'[p] = tree[p]
          BY <1>10 DEF With
    <3>2. tree' # NoFiles
      <4>1. DOMAIN NoFiles = {}
            BY DEF NoFiles
      <4> QED
            BY <3>1, <4>1
    <3> QED
          BY <1>0, <1>1, <1>10, <3>1, <3>2 DEF TreeInv
  <2>3. FollowInv'
        BY <1>0, <1>1, <1>4, <1>6, <1>10 DEF FollowInv
  <2> QED
        BY <1>7, <1>8, <2>1, <2>2, <2>3 DEF EmbedInv
<1> QED
      BY <1>5, <1>9, <1>10

(* A dependency shares a copy, is nested or claims its name                  *)
(* (embed.rs:155-168).                                                       *)
LEMMA FollowKeeps == ASSUME EmbedInv, NEW n \in names, FollowDep(n) PROVE EmbedInv'
<1>0. EmbedTyped /\ ClaimInv /\ TreeInv /\ FollowInv /\ ArtifactInv
      BY DEF EmbedInv
<1> DEFINE g == deps[current.folder][n]
           f == current.folder
           p == current.path
<1>1. /\ names' = names \ {n}
      /\ UNCHANGED <<deps, asked, left, visited, current, tree, files>>
      /\ \/ n \in DOMAIN claimed /\ claimed[n] = g /\ UNCHANGED <<queue, claimed>>
         \/ /\ n \in DOMAIN claimed /\ claimed[n] # g /\ UNCHANGED claimed
            /\ queue' = Append(queue, CopyOf(g, Append(p, n)))
         \/ /\ n \notin DOMAIN claimed /\ claimed' = With(claimed, n, g)
            /\ queue' = Append(queue, CopyOf(g, <<n>>))
      BY DEF FollowDep, CopyOf
<1>2. current # Nothing /\ current \in visited /\ n \in DOMAIN deps[f] /\ visited \subseteq Copies
      BY <1>0 DEF EmbedTyped
<1>3. f \in Folder /\ p \in Seq(PackageNames) \ {<<>>} /\ current = CopyOf(f, p)
      BY <1>2, CopyFields
<1>4. g \in Folder /\ n \in PackageNames /\ PackageNames' = PackageNames /\ Copies' = Copies
      BY <1>0, <1>1, <1>2, <1>3 DEF EmbedTyped, IsGraph, PackageNames, Copies
<1>5. left # <<>>
      BY <1>0, <1>2 DEF ArtifactInv
<1>6. queue \in Seq(Copies) /\ current \in Seen
      BY <1>0, <1>2 DEF EmbedTyped, Seen
<1> HIDE DEF f, g, p
<1>7. TreeInv' /\ ArtifactInv'
  <2>1. TreeInv'
        BY <1>0, <1>1, <1>2 DEF TreeInv
  <2>2. ArtifactInv'
        BY <1>0, <1>1, <1>2, <1>4, <1>5 DEF ArtifactInv
  <2> QED
        BY <2>1, <2>2
<1>8. CASE n \in DOMAIN claimed /\ claimed[n] = g /\ UNCHANGED <<queue, claimed>>
  <2>1. Seen' = Seen
        BY <1>1, <1>8 DEF Seen, Waiting
  <2>2. EmbedTyped' /\ ClaimInv'
        BY <1>0, <1>1, <1>2, <1>4, <1>8, <2>1 DEF EmbedTyped, ClaimInv
  <2>3. FollowInv'
        BY <1>0, <1>1, <1>8, <2>1 DEF FollowInv, g
  <2> QED
        BY <1>7, <2>2, <2>3 DEF EmbedInv
<1> DEFINE below == CopyOf(g, Append(p, n))
           top == CopyOf(g, <<n>>)
<1>9. CASE /\ n \in DOMAIN claimed /\ claimed[n] # g /\ UNCHANGED claimed /\ queue' = Append(queue, below)
  <2>1. below \in Copies /\ below.folder = g /\ below.path = Append(p, n)
        BY <1>3, <1>4, PathGrows, CopyFields
  <2> HIDE DEF below
  <2>2. queue' \in Seq(Copies) /\ Seen' = Seen \cup {below}
    <3>1. queue' = Append(queue, below) /\ visited' = visited
          BY <1>1, <1>9
    <3>2. queue' \in Seq(Copies) /\ Waiting' = Waiting \cup {below}
          BY <1>6, <2>1, <3>1, QueueGrows DEF Waiting
    <3> QED
          BY <3>1, <3>2 DEF Seen
  <2>3. EmbedTyped'
        BY <1>0, <1>1, <1>2, <1>4, <1>9, <2>2 DEF EmbedTyped
  <2>4. ClaimInv'
    <3>1. \A k \in DOMAIN claimed' : CopyOf(claimed'[k], <<k>>) \in Seen'
          BY <1>0, <1>9, <2>2 DEF ClaimInv
    <3>2. \A c \in Seen', k \in PackageNames' : c.path = <<k>> => k \in DOMAIN claimed' /\ c.folder = claimed'[k]
      <4>1. \A k : below.path # <<k>>
            BY <1>3, <1>4, <2>1, PathGrows
      <4> QED
            BY <1>0, <1>4, <1>9, <2>2, <4>1 DEF ClaimInv
    <3>3. \A c \in Seen', m, k \in PackageNames' :
            c.path = <<m, k>> => /\ m \in DOMAIN claimed' /\ k \in DOMAIN deps'[claimed'[m]]
                                 /\ c.folder = deps'[claimed'[m]][k]
      <4>1. ASSUME NEW m \in PackageNames, NEW k, below.path = <<m, k>>
            PROVE  m \in DOMAIN claimed /\ k \in DOMAIN deps[claimed[m]] /\ below.folder = deps[claimed[m]][k]
        <5>1. p = <<m>> /\ n = k
          <6>1. \A a, b : Append(p, n) = <<a, b>> => p = <<a>> /\ n = b
                BY <1>3, <1>4, PathGrows
          <6> QED
                BY <2>1, <4>1, <6>1
        <5>2. m \in DOMAIN claimed /\ f = claimed[m]
              BY <1>0, <1>6, <5>1 DEF ClaimInv, f, p
        <5> QED
              BY <1>2, <2>1, <5>1, <5>2 DEF g, f
      <4> QED
            BY <1>0, <1>1, <1>4, <1>9, <2>2, <4>1 DEF ClaimInv
    <3> QED
          BY <3>1, <3>2, <3>3 DEF ClaimInv
  <2>5. FollowInv'
    <3>1. CopyOf(deps[current.folder][n], Append(current.path, n)) = below
          BY DEF below, g, f, p
    <3> QED
          BY <1>0, <1>1, <1>9, <2>2, <3>1 DEF FollowInv
  <2> QED
        BY <1>7, <2>3, <2>4, <2>5 DEF EmbedInv
<1>10. CASE /\ n \notin DOMAIN claimed /\ claimed' = With(claimed, n, g) /\ queue' = Append(queue, top)
  <2>1. top \in Copies /\ top.folder = g /\ top.path = <<n>>
    <3>1. <<n>> \in Seq(PackageNames) \ {<<>>}
          BY <1>4
    <3> QED
          BY <1>4, <3>1, CopyFields
  <2> HIDE DEF top
  <2>2. queue' \in Seq(Copies) /\ Seen' = Seen \cup {top}
        BY <1>1, <1>6, <1>10, <2>1, QueueGrows DEF Seen, Waiting
  <2>3. /\ DOMAIN claimed' = DOMAIN claimed \cup {n} /\ claimed'[n] = g
        /\ \A k \in DOMAIN claimed : claimed'[k] = claimed[k]
        BY <1>10 DEF With
  <2>4. EmbedTyped'
        BY <1>0, <1>1, <1>2, <1>4, <2>2, <2>3 DEF EmbedTyped
  <2>5. ClaimInv'
    <3>1. \A k \in DOMAIN claimed' : CopyOf(claimed'[k], <<k>>) \in Seen'
          BY <1>0, <2>2, <2>3 DEF ClaimInv, top
    <3>2. \A c \in Seen', k \in PackageNames' : c.path = <<k>> => k \in DOMAIN claimed' /\ c.folder = claimed'[k]
          BY <1>0, <1>4, <2>1, <2>2, <2>3, Singles DEF ClaimInv
    <3>3. \A c \in Seen', m, k \in PackageNames' :
            c.path = <<m, k>> => /\ m \in DOMAIN claimed' /\ k \in DOMAIN deps'[claimed'[m]]
                                 /\ c.folder = deps'[claimed'[m]][k]
          BY <1>0, <1>1, <1>4, <2>1, <2>2, <2>3, Singles DEF ClaimInv
    <3> QED
          BY <3>1, <3>2, <3>3 DEF ClaimInv
  <2>6. FollowInv'
        BY <1>0, <1>1, <2>2, <2>3 DEF FollowInv, g, f
  <2> QED
        BY <1>7, <2>4, <2>5, <2>6 DEF EmbedInv
<1> QED
      BY <1>1, <1>8, <1>9, <1>10

(* The next copy is looked at when no dependency of this one is left.        *)
LEMMA EndCopyKeeps == ASSUME EmbedInv, EndCopy PROVE EmbedInv'
<1>0. EmbedTyped /\ ClaimInv /\ TreeInv /\ FollowInv /\ ArtifactInv
      BY DEF EmbedInv
<1>1. /\ names = {} /\ current' = Nothing
      /\ UNCHANGED <<deps, asked, left, queue, visited, names, claimed, tree, files>>
      BY DEF EndCopy
<1>2. Seen' = Seen /\ PackageNames' = PackageNames /\ Copies' = Copies
      BY <1>1 DEF Seen, Waiting, PackageNames, Copies
<1>3. EmbedTyped' /\ ClaimInv' /\ TreeInv'
      BY <1>0, <1>1, <1>2 DEF EmbedTyped, ClaimInv, TreeInv
<1>4. FollowInv'
      BY <1>0, <1>1, <1>2 DEF FollowInv
<1>5. ArtifactInv'
      BY <1>0, <1>1, <1>2 DEF ArtifactInv
<1> QED
      BY <1>3, <1>4, <1>5 DEF EmbedInv

(* What a package brings is added to what the artifact has, and replaces     *)
(* nothing (build.rs:303-318).                                               *)
LEMMA EndPackageKeeps == ASSUME EmbedInv, EndPackage PROVE EmbedInv'
<1>0. EmbedTyped /\ ClaimInv /\ TreeInv /\ FollowInv /\ ArtifactInv
      BY DEF EmbedInv
<1>1. /\ tree # NoFiles /\ queue = <<>> /\ current = Nothing
      /\ files' = Overlaid(files, tree) /\ tree' = NoFiles /\ left' = Tail(left)
      /\ UNCHANGED <<deps, asked, queue, visited, current, names, claimed>>
      BY DEF EndPackage
<1>2. /\ Seen' = Seen /\ PackageNames' = PackageNames /\ Copies' = Copies /\ Seen = visited
      /\ names = {} /\ left # <<>> /\ left \in Seq(Folder) /\ visited \subseteq Copies
  <2>1. DOMAIN queue = {}
        BY <1>1
  <2>2. Seen' = Seen /\ PackageNames' = PackageNames /\ Copies' = Copies /\ Seen = visited
        BY <1>1, <2>1 DEF Seen, Waiting, PackageNames, Copies
  <2> QED
        BY <1>0, <1>1, <2>2 DEF EmbedTyped, ArtifactInv
<1>3. left' \in Seq(Folder) /\ Len(left') = Len(left) - 1 /\ Len(left) \in Nat
      BY <1>1, <1>2
<1>4. EmbedTyped' /\ ClaimInv' /\ FollowInv'
      BY <1>0, <1>1, <1>2, <1>3 DEF EmbedTyped, ClaimInv, FollowInv
<1>5. TreeInv'
  <2>1. DOMAIN NoFiles = {}
        BY DEF NoFiles
  <2> QED
        BY <1>1, <2>1 DEF TreeInv
<1>6. /\ DOMAIN files' = DOMAIN files \cup DOMAIN tree
      /\ \A p \in DOMAIN files' : files'[p] = IF p \in DOMAIN files THEN files[p] ELSE tree[p]
      BY <1>1 DEF Overlaid
<1>7. \A p \in DOMAIN tree : \E c \in visited : c.path = p /\ c.folder = tree[p]
      BY <1>0 DEF TreeInv
<1>8. \A c \in visited : c.path \in DOMAIN tree
      BY <1>0, <1>1 DEF TreeInv
<1>9. ASSUME NEW c \in visited, NEW n \in DOMAIN deps[c.folder]
      PROVE  /\ n \in DOMAIN claimed /\ <<n>> \in DOMAIN tree
             /\ \/ claimed[n] = deps[c.folder][n]
                \/ Append(c.path, n) \in DOMAIN tree
  <2>1. /\ n \in DOMAIN claimed
        /\ \/ claimed[n] = deps[c.folder][n]
           \/ CopyOf(deps[c.folder][n], Append(c.path, n)) \in visited
        BY <1>0, <1>2 DEF FollowInv
  <2>2. CopyOf(claimed[n], <<n>>) \in visited
        BY <1>0, <1>2, <2>1 DEF ClaimInv
  <2> QED
        BY <1>8, <2>1, <2>2, CopyFields
<1>10. ASSUME NEW p \in DOMAIN files'
       PROVE  /\ p \in Seq(PackageNames) \ {<<>>} /\ files'[p] \in Folder
              /\ \A n \in DOMAIN deps[files'[p]] : <<n>> \in DOMAIN files' \/ Append(p, n) \in DOMAIN files'
  <2>1. CASE p \in DOMAIN files
        BY <1>0, <1>6, <2>1 DEF ArtifactInv
  <2>2. CASE p \notin DOMAIN files
    <3>1. PICK c \in visited : c.path = p /\ c.folder = tree[p]
          BY <1>6, <1>7, <2>2
    <3>2. files'[p] = c.folder /\ c.folder \in Folder /\ p \in Seq(PackageNames) \ {<<>>}
          BY <1>2, <1>6, <2>2, <3>1, CopyFields
    <3>3. \A n \in DOMAIN deps[c.folder] : <<n>> \in DOMAIN tree
          BY <1>9
    <3> QED
          BY <1>6, <3>2, <3>3
  <2> QED
        BY <2>1, <2>2
<1>11. ASSUME Len(asked) = 1 PROVE left' = <<>> /\ DOMAIN files' = DOMAIN tree /\ \A p \in DOMAIN tree : files'[p] = tree[p]
  <2>1. Len(left) = 1 /\ files = NoFiles
        BY <1>0, <1>2, <1>11 DEF ArtifactInv
  <2>2. DOMAIN NoFiles = {}
        BY DEF NoFiles
  <2>3. left' = <<>>
        BY <1>3, <2>1
  <2> QED
        BY <1>6, <2>1, <2>2, <2>3
<1>12. ASSUME Len(asked) = 1, NEW m \in PackageNames, <<m>> \in DOMAIN files', NEW n \in DOMAIN deps[files'[<<m>>]]
       PROVE  IF <<m, n>> \in DOMAIN files' THEN files'[<<m, n>>] = deps[files'[<<m>>]][n]
              ELSE <<n>> \in DOMAIN files' /\ files'[<<n>>] = deps[files'[<<m>>]][n]
  <2>1. PICK c \in visited : c.path = <<m>> /\ c.folder = tree[<<m>>]
        BY <1>7, <1>11, <1>12
  <2>2. m \in DOMAIN claimed /\ c.folder = claimed[m] /\ files'[<<m>>] = c.folder
        BY <1>0, <1>2, <1>11, <1>12, <2>1 DEF ClaimInv
  <2>3. c.folder \in Folder /\ n \in DOMAIN deps[c.folder] /\ n \in PackageNames
        BY <1>2, <1>12, <2>2, CopyFields DEF PackageNames
  <2>4. CASE <<m, n>> \in DOMAIN tree
    <3>1. PICK d \in visited : d.path = <<m, n>> /\ d.folder = tree[<<m, n>>]
          BY <1>7, <2>4
    <3>2. d.folder = deps[claimed[m]][n]
          BY <1>0, <1>2, <2>3, <3>1 DEF ClaimInv
    <3> QED
          BY <1>11, <1>12, <2>2, <2>4, <3>1, <3>2
  <2>5. CASE <<m, n>> \notin DOMAIN tree
    <3>1. Append(<<m>>, n) = <<m, n>>
          BY Pair
    <3>2. n \in DOMAIN claimed /\ <<n>> \in DOMAIN tree /\ claimed[n] = deps[c.folder][n]
          BY <1>9, <2>1, <2>3, <2>5, <3>1
    <3>3. PICK d \in visited : d.path = <<n>> /\ d.folder = tree[<<n>>]
          BY <1>7, <3>2
    <3>4. d.folder = claimed[n]
          BY <1>0, <1>2, <2>3, <3>3 DEF ClaimInv
    <3> QED
          BY <1>11, <1>12, <2>2, <2>5, <3>2, <3>3, <3>4
  <2> QED
        BY <2>4, <2>5
<1>13. ArtifactInv'
      BY <1>1, <1>2, <1>10, <1>11, <1>12 DEF ArtifactInv
<1> QED
      BY <1>4, <1>5, <1>13 DEF EmbedInv

(* Every step of the walk keeps the invariant.                               *)
LEMMA EmbedStep == ASSUME EmbedInv, [EmbedNext]_embedVars PROVE EmbedInv'
<1>1. CASE UNCHANGED embedVars
  <2>1. UNCHANGED <<deps, asked, left, queue, visited, current, names, claimed, tree, files>>
        BY <1>1 DEF embedVars
  <2>2. Seen' = Seen /\ PackageNames' = PackageNames /\ Copies' = Copies
        BY <2>1 DEF Seen, Waiting, PackageNames, Copies
  <2> QED
    <3>1. EmbedTyped' /\ ClaimInv'
          BY <2>1, <2>2 DEF EmbedInv, EmbedTyped, ClaimInv
    <3>2. TreeInv' /\ FollowInv'
          BY <2>1, <2>2 DEF EmbedInv, TreeInv, FollowInv
    <3>3. ArtifactInv'
          BY <2>1, <2>2 DEF EmbedInv, ArtifactInv
    <3> QED
          BY <3>1, <3>2, <3>3 DEF EmbedInv
<1> QED
      BY <1>1, BeginKeeps, CopyKeeps, FollowKeeps, EndCopyKeeps, EndPackageKeeps DEF EmbedNext

-----------------------------------------------------------------------------
(* Of finitely many numbers one is the greatest.                             *)
LEMMA GreatestNumber ==
  ASSUME NEW S, NEW m \in Nat, S \subseteq 0..m, S # {}
  PROVE  \E i \in S : \A j \in S : j <= i
<1> DEFINE T == {m - i : i \in S}
<1>1. T \subseteq Nat /\ T # {}
  <2>1. \A i \in 0..m : m - i \in Nat
        OBVIOUS
  <2> QED
        BY <2>1
<1>2. \E x \in T : \A y \in T : x <= y
  <2> HIDE DEF T
  <2> QED
      BY <1>1, LeastNumber
<1>3. PICK i \in S : \A y \in T : m - i <= y
      BY <1>2
<1>4. \A j \in S : m - i <= m - j
      BY <1>3
<1> QED
      BY <1>4

(* Where a dependency is found: the nearest node_modules that has it, from    *)
(* the package's own (below it) to the top level.                            *)
LEMMA FoundWhere ==
  ASSUME NEW p \in Seq(PackageNames) \ {<<>>}, NEW n \in PackageNames,
         <<n>> \in DOMAIN files \/ Append(p, n) \in DOMAIN files
  PROVE  /\ \E q \in DOMAIN files : Found(p, n) = files[q]
         /\ Append(p, n) \in DOMAIN files => Found(p, n) = files[Append(p, n)]
         /\ Len(p) = 1 /\ Append(p, n) \notin DOMAIN files => Found(p, n) = files[<<n>>]
<1> DEFINE at(k) == Append(SubSeq(p, 1, k), n)
           ks == {k \in 0..Len(p) : at(k) \in DOMAIN files}
           top(k) == k \in ks /\ \A j \in ks : j <= k
<1>1. Len(p) \in Nat
      OBVIOUS
<1>2. at(0) = <<n>> /\ at(Len(p)) = Append(p, n)
  <2>1. SubSeq(p, 1, 0) = <<>> /\ SubSeq(p, 1, Len(p)) = p
        BY SubSeqEmpty, SubSeqFull
  <2>2. Append(<<>>, n) = <<n>>
        OBVIOUS
  <2>3. at(0) = Append(SubSeq(p, 1, 0), n) /\ at(Len(p)) = Append(SubSeq(p, 1, Len(p)), n)
        OBVIOUS
  <2> QED
        BY <2>1, <2>2, <2>3
<1>3. Found(p, n) = IF ks = {} THEN NoFolder ELSE files[at(CHOOSE k \in ks : \A j \in ks : j <= k)]
      BY DEF Found
<1> HIDE DEF at
<1>b. 0 \in 0..Len(p) /\ Len(p) \in 0..Len(p)
      BY <1>1
<1>m. \A k : k \in ks <=> k \in 0..Len(p) /\ at(k) \in DOMAIN files
      OBVIOUS
<1> HIDE DEF ks
<1>4. ks # {} /\ ks \subseteq 0..Len(p)
      BY <1>2, <1>b, <1>m
<1>5. \E k \in ks : \A j \in ks : j <= k
  <2> HIDE DEF ks
  <2> QED
      BY <1>1, <1>4, GreatestNumber
<1> DEFINE k == CHOOSE k \in ks : \A j \in ks : j <= k
<1>6. k \in ks /\ \A j \in ks : j <= k
      BY <1>5
<1>7. Found(p, n) = files[at(k)]
      BY <1>3, <1>4
<1> HIDE DEF k
<1>8. at(k) \in DOMAIN files /\ k \in 0..Len(p)
      BY <1>6, <1>m
<1>9. Append(p, n) \in DOMAIN files => k = Len(p)
  <2>1. Append(p, n) \in DOMAIN files => Len(p) \in ks
        BY <1>2, <1>b, <1>m
  <2> QED
        BY <1>1, <1>6, <1>8, <2>1
<1>10. Len(p) = 1 /\ Append(p, n) \notin DOMAIN files => k = 0
  <2>1. ASSUME Len(p) = 1 PROVE k = 0 \/ k = Len(p)
        BY <1>8, <2>1
  <2> QED
        BY <1>2, <1>8, <2>1
<1> QED
      BY <1>2, <1>7, <1>8, <1>9, <1>10

(* When all packages are embedded, every dependency is where Node looks for  *)
(* it.                                                                       *)
LEMMA EmbedImplies == ASSUME EmbedInv PROVE EmbeddedResolves
<1> SUFFICES ASSUME Embedded, NEW p \in DOMAIN files, NEW n \in DOMAIN deps[files[p]]
             PROVE  /\ Found(p, n) # NoFolder
                    /\ Len(asked) = 1 /\ Len(p) = 1 => Found(p, n) = deps[files[p]][n]
      BY DEF EmbeddedResolves
<1>1. ArtifactInv /\ IsGraph(deps)
      BY DEF EmbedInv, EmbedTyped
<1>2. /\ p \in Seq(PackageNames) \ {<<>>} /\ \A q \in DOMAIN files : files[q] \in Folder
      /\ <<n>> \in DOMAIN files \/ Append(p, n) \in DOMAIN files
      /\ n \in PackageNames
      BY <1>1 DEF ArtifactInv, PackageNames
<1>3. Found(p, n) # NoFolder
      BY <1>2, FoundWhere, EmbedAssumption
<1>4. ASSUME Len(asked) = 1, Len(p) = 1 PROVE Found(p, n) = deps[files[p]][n]
  <2> DEFINE m == p[1]
  <2>1. p = <<m>> /\ m \in PackageNames
        BY <1>2, <1>4
  <2> HIDE DEF m
  <2>2. IF <<m, n>> \in DOMAIN files THEN files[<<m, n>>] = deps[files[<<m>>]][n]
        ELSE <<n>> \in DOMAIN files /\ files[<<n>>] = deps[files[<<m>>]][n]
        BY <1>1, <1>4, <2>1 DEF ArtifactInv, Embedded
  <2>3. Append(p, n) = <<m, n>>
        BY <2>1, Pair
  <2> QED
        BY <1>2, <1>4, <2>1, <2>2, <2>3, FoundWhere
<1> QED
      BY <1>3, <1>4

-----------------------------------------------------------------------------
(* ---- what a line of the manifest becomes ---------------------------------- *)

Base == IF cmd = "build" THEN manifest.base ELSE flags.base
Anchored(list, c) == IF c \in PathCategory THEN {AnchorItem(i, Base) : i \in list} ELSE list

(* An item that is anchored is still all of a category, or nothing, and at   *)
(* the place the specification gives it (config.rs:11-19, lib.rs:888-953).    *)
LEMMA AnchorPlaces ==
  ASSUME NEW c \in PathCategory, NEW i \in Items, NEW j \in Places
  PROVE  /\ AnchorItem(i, Base) = All <=> i = All
         /\ AnchorItem(i, Base) = Empty <=> i = Empty
         /\ AnchorItem(i, Base) = j <=> Place(c, i) = j
<1> DEFINE b == Base
<1>0. /\ All.text = "*" /\ All.at = "launch" /\ Empty.text = "" /\ Empty.at = "launch"
      BY DEF All, Empty, Item
<1>1. /\ i.text \in Plain \cup Relative \cup Special \cup {"."} /\ i.at \in {"launch", "exe", "project"}
      /\ i = [text |-> i.text, at |-> i.at]
      BY DEF Items
<1>2. j.at \in {"launch", "exe"} /\ j.text \in Plain \cup Relative \cup {"."} /\ j = [text |-> j.text, at |-> j.at]
      BY DEF Places
<1>3. Special \cap (Plain \cup Relative \cup {"."}) = {}
      BY PermissionsAssumption DEF Special
<1>4. {"*", "", "exe token", "project token"} \subseteq Special
      BY DEF Special
<1>5. Place(c, i) = IF i.text = "exe token" THEN [text |-> ".", at |-> "exe"]
                    ELSE IF i.text \in Relative /\ b = "exe" THEN [text |-> i.text, at |-> "exe"] ELSE i
      BY DEF Place, Base
<1> HIDE DEF b
<1>r. ASSUME NEW t, NEW d PROVE [text |-> t, at |-> d].text = t /\ [text |-> t, at |-> d].at = d
      OBVIOUS
<1>k. "exe token" \notin Relative /\ "project token" \notin Relative
      BY <1>3, <1>4
<1>6. CASE i.text = "exe token"
  <2>1. AnchorItem(i, b) = [text |-> ".", at |-> "exe"]
        BY <1>k, <1>6 DEF AnchorItem
  <2>2. Place(c, i) = [text |-> ".", at |-> "exe"]
        BY <1>5, <1>6
  <2>3. AnchorItem(i, b).text = "." /\ i.text # "*" /\ i.text # ""
        BY <1>6, <1>r, <2>1
  <2> QED
        BY <1>0, <2>1, <2>2, <2>3 DEF b
<1>7. CASE i.text = "project token"
  <2>1. AnchorItem(i, b) = [text |-> ".", at |-> "project"]
        BY <1>k, <1>7 DEF AnchorItem
  <2>2. Place(c, i) = i
        BY <1>k, <1>5, <1>7
  <2>3. AnchorItem(i, b).text = "." /\ AnchorItem(i, b).at = "project"
        BY ONLY <1>r, <2>1
  <2>5. i.text # "*" /\ i.text # ""
        BY <1>7
  <2>4. j.text # "project token" /\ j.at # "project"
        BY <1>2, <1>3, <1>4
  <2> QED
        BY <1>0, <2>2, <2>3, <2>4, <2>5, <1>7 DEF b
<1>8. CASE i.text \notin {"exe token", "project token"} /\ i.text \in Relative /\ b = "exe"
  <2>1. AnchorItem(i, b) = [text |-> i.text, at |-> "exe"] /\ Place(c, i) = [text |-> i.text, at |-> "exe"]
        BY <1>1, <1>5, <1>8 DEF AnchorItem
  <2>2. i.text # "*" /\ i.text # ""
        BY <1>3, <1>4, <1>8
  <2>3. AnchorItem(i, b).text = i.text
        BY <1>r, <2>1
  <2> QED
        BY <1>0, <2>1, <2>2, <2>3 DEF b
<1>9. CASE i.text \notin {"exe token", "project token"} /\ ~(i.text \in Relative /\ b = "exe")
  <2>1. AnchorItem(i, b) = i /\ Place(c, i) = i
        BY <1>5, <1>9 DEF AnchorItem
  <2> QED
        BY <2>1 DEF b
<1> QED
      BY <1>6, <1>7, <1>8, <1>9

(* What the container makes of a line (permissions.rs:161, lib.rs:472-606).   *)
LEMMA LineReaches ==
  ASSUME NEW c \in Category, NEW list, list \subseteq Items, NEW j \in Places
  PROVE  LET line == Anchored(list, c) IN
         /\ line = {} <=> list = {}
         /\ HasItems(line) <=> HasItems(list)
         /\ Names(Expand(line), j) <=> ~HasItems(list) \/ Covers(list, c, j)
<1> DEFINE line == Anchored(list, c)
<1>1. /\ line = {} <=> list = {}
      /\ HasItems(line) <=> HasItems(list)
      /\ All \in line <=> All \in list
      /\ j \in line \ {Empty} <=> \E i \in list \ {Empty} : Place(c, i) = j
  <2>1. CASE c \in PathCategory
    <3>1. line = {AnchorItem(i, Base) : i \in list}
          BY <2>1 DEF Anchored
    <3>2. \A i \in list : /\ AnchorItem(i, Base) = All <=> i = All
                          /\ AnchorItem(i, Base) = Empty <=> i = Empty
                          /\ AnchorItem(i, Base) = j <=> Place(c, i) = j
          BY <2>1, AnchorPlaces
    <3> HIDE DEF line
    <3> QED
          BY <3>1, <3>2 DEF HasItems
  <2>2. CASE c \notin PathCategory
    <3>1. \A i : Place(c, i) = i
          BY <2>2 DEF Place
    <3>2. line = list
          BY <2>2 DEF Anchored
    <3> HIDE DEF line
    <3> QED
          BY <3>1, <3>2 DEF HasItems
  <2> QED
        BY <2>1, <2>2
<1> HIDE DEF line
<1>2. Names(Expand(line), j) <=> All \in line \/ ~HasItems(line) \/ j \in line \ {Empty}
      BY DEF Names, Expand, HasItems
<1>3. Covers(list, c, j) <=> All \in list \/ j \in line \ {Empty}
      BY <1>1 DEF Covers
<1> QED
      BY <1>1, <1>2, <1>3 DEF line

-----------------------------------------------------------------------------
(* ---- what a line holds of what was asked ----------------------------------- *)

(* The same coverage: the same items but for empty ones, or all.              *)
Same(line, said) == line \ {Empty} = said \ {Empty} \/ (All \in line /\ All \in said)

(* Nothing special is an empty item.                                          *)
LEMMA SpecialItems == All # Empty /\ All \in Items /\ Empty \in Items
<1>1. All.text = "*" /\ Empty.text = ""
      BY DEF All, Empty, Item
<1> QED
      BY <1>1 DEF All, Empty, Item, Items, Special

(* A value that an allow or a deny line is made of (config.rs:566-640).       *)
LEMMA PushedSays ==
  ASSUME NEW v, IsValue(v)
  PROVE  LET line == Pushed(Rendered(v)) IN
         /\ line \subseteq Items /\ line # {Empty} /\ Same(line, Said(v))
         /\ (line = {} \/ HasItems(line)) /\ Said(v) # {Empty}
<1> DEFINE r == Rendered(v)
<1>1. CASE v.kind = "true"
  <2>1. Rendered(v) = {All} /\ Said(v) = {All}
        BY <1>1 DEF Rendered, Said
  <2>2. Pushed(Rendered(v)) = {All}
        BY <2>1, SpecialItems DEF Pushed, HasItems
  <2> QED
        BY <2>1, <2>2, SpecialItems DEF Same, HasItems
<1>2. CASE v.kind = "string"
  <2>1. Rendered(v) = v.items /\ Said(v) = v.items \ {Empty}
        BY <1>2 DEF Rendered, Said
  <2> QED
        BY <2>1 DEF Pushed, HasItems, Same, IsValue, NoLine
<1>3. CASE v.kind = "array" /\ v.items \ {Empty} # {}
  <2>1. Rendered(v) = v.items \ {Empty} /\ Said(v) = v.items \ {Empty}
        BY <1>3 DEF Rendered, Said
  <2> QED
        BY <2>1 DEF Pushed, HasItems, Same, IsValue, NoLine
<1>4. CASE ~(v.kind \in {"true", "string"}) /\ ~(v.kind = "array" /\ v.items \ {Empty} # {})
  <2>1. Rendered(v) = {Empty}
        BY <1>4 DEF Rendered
  <2>2. Said(v) = {}
        BY <1>4 DEF Said
  <2> QED
        BY <2>1, <2>2 DEF Pushed, HasItems, Same, NoLine
<1> QED
      BY <1>1, <1>2, <1>3, <1>4

(* An entry of a category map: what its lines hold is what it says.           *)
LEMMA EntrySays ==
  ASSUME NEW e, IsEntry(e)
  PROVE  /\ LET said == Said(IF e.kind = "object" THEN e.allow ELSE e)
            IN AllowLine(e) \subseteq Items /\ Same(AllowLine(e), said)
         /\ DenyLine(e) \subseteq Items /\ Same(DenyLine(e), Said(e.deny))
         /\ DenyLine(e) # {Empty} /\ Said(e.deny) # {Empty}
<1>0. /\ IsValue(e) /\ IsValue(e.allow) /\ IsValue(e.deny)
      /\ e.kind # "object" => e.deny.kind = "absent"
      BY DEF IsEntry
<1>n. \A v : v.kind \notin {"true", "string", "array"} => Said(v) = {}
      BY DEF Said
<1>e. Same({}, {})
      BY DEF Same
<1>1. LET said == Said(IF e.kind = "object" THEN e.allow ELSE e)
      IN AllowLine(e) \subseteq Items /\ Same(AllowLine(e), said)
  <2>1. CASE e.kind \in {"true", "string", "array"}
    <3>1. AllowLine(e) = Pushed(Rendered(e))
          BY <2>1 DEF AllowLine
    <3> QED
          BY <1>0, <2>1, <3>1, PushedSays
  <2>2. CASE e.kind = "object" /\ e.allow.kind # "absent"
    <3>1. AllowLine(e) = Pushed(Rendered(e.allow))
          BY <2>2 DEF AllowLine
    <3> QED
          BY <1>0, <2>2, <3>1, PushedSays
  <2>3. CASE e.kind = "object" /\ e.allow.kind = "absent"
    <3>1. AllowLine(e) = {}
          BY <2>3 DEF AllowLine, NoLine
    <3>2. Said(e.allow) = {}
          BY <1>n, <2>3
    <3> QED
          BY <1>e, <2>3, <3>1, <3>2
  <2>4. CASE e.kind \notin {"true", "string", "array", "object"}
    <3>1. AllowLine(e) = {}
          BY <2>4 DEF AllowLine, NoLine
    <3>2. Said(e) = {}
          BY <1>n, <2>4
    <3> QED
          BY <1>e, <2>4, <3>1, <3>2
  <2> QED
        BY <2>1, <2>2, <2>3, <2>4
<1>2. /\ DenyLine(e) \subseteq Items /\ Same(DenyLine(e), Said(e.deny))
      /\ DenyLine(e) # {Empty} /\ Said(e.deny) # {Empty}
  <2>1. CASE e.kind = "object" /\ e.deny.kind # "absent"
    <3>1. DenyLine(e) = Pushed(Rendered(e.deny))
          BY <2>1 DEF DenyLine
    <3> QED
          BY <1>0, <3>1, PushedSays
  <2>2. CASE e.deny.kind = "absent"
    <3>1. DenyLine(e) = {}
          BY <2>2 DEF DenyLine, NoLine
    <3>2. Said(e.deny) = {}
          BY <1>n, <2>2
    <3> QED
          BY <1>e, <3>1, <3>2
  <2> QED
        BY <1>0, <2>1, <2>2
<1> QED
      BY <1>1, <1>2

(* A DSL grants and denies of a category what was asked, before paths are     *)
(* anchored.                                                                 *)
DslSays(dsl, c, granted, denied) ==
  /\ dsl.allow[c] \subseteq Items /\ dsl.deny[c] \subseteq Items
  /\ dsl.all => granted = {All} /\ dsl.allow[c] = {}
  /\ ~dsl.all => Same(dsl.allow[c], granted)
  /\ Same(dsl.deny[c], denied) /\ (dsl.deny[c] = {Empty} <=> denied = {Empty})

(* A category map (config.rs:566-640).                                        *)
LEMMA MapGrants ==
  ASSUME NEW map, IsMap(map), NEW c \in Category
  PROVE  DslSays(CategoryMap(map), c, MapSays(map, c, FALSE), MapSays(map, c, TRUE))
<1> DEFINE dsl == CategoryMap(map)
<1>1. /\ dsl.all = FALSE
      /\ dsl.allow[c] = IF c \in DOMAIN map THEN AllowLine(map[c]) ELSE {}
      /\ dsl.deny[c] = IF c \in DOMAIN map THEN DenyLine(map[c]) ELSE {}
      BY DEF CategoryMap, NoLine
<1> HIDE DEF dsl
<1>2. CASE c \in DOMAIN map
  <2>1. IsEntry(map[c])
        BY <1>2 DEF IsMap
  <2>2. /\ MapSays(map, c, FALSE) = Said(IF map[c].kind = "object" THEN map[c].allow ELSE map[c])
        /\ MapSays(map, c, TRUE) = Said(map[c].deny)
        BY <1>2 DEF MapSays
  <2>3. dsl.allow[c] = AllowLine(map[c]) /\ dsl.deny[c] = DenyLine(map[c])
        BY <1>1, <1>2
  <2>4. DslSays(dsl, c, MapSays(map, c, FALSE), MapSays(map, c, TRUE))
        BY <1>1, <2>1, <2>2, <2>3, EntrySays DEF DslSays
  <2> QED
        BY <2>4 DEF dsl
<1>3. CASE c \notin DOMAIN map
  <2>1. MapSays(map, c, FALSE) = {} /\ MapSays(map, c, TRUE) = {}
        BY <1>3 DEF MapSays
  <2>2. DslSays(dsl, c, {}, {})
        BY <1>1, <1>3 DEF DslSays, Same
  <2> QED
        BY <2>1, <2>2 DEF dsl
<1> QED
      BY <1>2, <1>3

(* ---- configurations --------------------------------------------------------- *)

(* What the files of a project hold.                                          *)
LEMMA ConfigsTyped ==
  ASSUME project \in Project
  PROVE  IsConfig(Deno) /\ IsConfig(Package)
<1>1. IsConfig(project.json) /\ IsConfig(project.jsonc) /\ IsConfig(project.pkg)
      BY BuildAssumption
<1>2. IsConfig(NoConfig)
  <2>1. /\ NoConfig.compile = Absent /\ NoConfig.marker = Absent /\ NoConfig.sets = <<>>
        BY DEF NoConfig
  <2>2. Absent.map = <<>>
        BY DEF Absent, Source
  <2>3. DOMAIN <<>> = {}
        OBVIOUS
  <2> QED
        BY <2>1, <2>2, <2>3 DEF IsConfig, IsMap
<1> QED
      BY <1>1, <1>2 DEF Deno, Package, Usable

(* A named set: per category deno.json before package.json                    *)
(* (config.rs:642-700).                                                       *)
LEMMA NamedSetSays ==
  ASSUME project \in Project, NEW n
  PROVE  /\ IsMap(NamedSet(n).map)
         /\ \A c, deny : MapSays(NamedSet(n).map, c, deny) = SetSays(n, c, deny)
<1>0. IsConfig(Deno) /\ IsConfig(Package)
      BY ConfigsTyped
<1> DEFINE d == n \in DOMAIN Deno.sets
           p == n \in DOMAIN Package.sets
           dm == Deno.sets[n].map
           pm == Package.sets[n].map
<1>1. (d => IsMap(dm)) /\ (p => IsMap(pm))
      BY <1>0 DEF IsConfig
<1>2. CASE d /\ p /\ Deno.sets[n].object
  <2>1. NamedSet(n).map = Overlaid(dm, pm)
        BY <1>2 DEF NamedSet, Set
  <2>2. /\ DOMAIN (Overlaid(dm, pm)) = DOMAIN dm \cup DOMAIN pm
        /\ \A x \in DOMAIN dm \cup DOMAIN pm : (Overlaid(dm, pm))[x] = IF x \in DOMAIN dm THEN dm[x] ELSE pm[x]
        BY DEF Overlaid
  <2>3. \A c, deny : SetSays(n, c, deny) = IF c \in DOMAIN dm THEN MapSays(dm, c, deny) ELSE MapSays(pm, c, deny)
        BY <1>2 DEF SetSays
  <2> HIDE DEF dm, pm
  <2>4. IsMap(Overlaid(dm, pm))
        BY <1>1, <1>2, <2>2 DEF IsMap
  <2>5. \A c, deny : MapSays(Overlaid(dm, pm), c, deny) = IF c \in DOMAIN dm THEN MapSays(dm, c, deny) ELSE MapSays(pm, c, deny)
        BY <2>2 DEF MapSays
  <2> QED
        BY <2>1, <2>3, <2>4, <2>5
<1>3. CASE d /\ ~(p /\ Deno.sets[n].object)
  <2>1. NamedSet(n).map = dm
        BY <1>3 DEF NamedSet
  <2>2. \A c, deny : SetSays(n, c, deny) = MapSays(dm, c, deny)
        BY <1>3 DEF SetSays, MapSays
  <2> QED
        BY <1>1, <1>3, <2>1, <2>2
<1>4. CASE p /\ ~d
  <2>1. NamedSet(n).map = pm
        BY <1>4 DEF NamedSet
  <2>2. \A c, deny : SetSays(n, c, deny) = MapSays(pm, c, deny)
        BY <1>4 DEF SetSays
  <2> QED
        BY <1>1, <1>4, <2>1, <2>2
<1>5. CASE ~d /\ ~p
  <2>1. NamedSet(n).map = <<>>
        BY <1>5 DEF NamedSet, NoSet, Set
  <2>2. DOMAIN <<>> = {}
        OBVIOUS
  <2>3. \A c, deny : SetSays(n, c, deny) = {}
        BY <1>5 DEF SetSays
  <2> QED
        BY <2>1, <2>2, <2>3 DEF IsMap, MapSays
<1> QED
      BY <1>2, <1>3, <1>4, <1>5

(* A source that a configuration names (config.rs:700-790).                   *)
LEMMA SelectedSays ==
  ASSUME project \in Project, NEW s, IsMap(s.map)
  PROVE  /\ IsMap(Selected(s).map)
         /\ \A c, deny : MapSays(Selected(s).map, c, deny) = SourceSays(s, c, deny)
<1>1. CASE s.kind = "map"
      BY <1>1 DEF Selected, SourceSays, Set
<1>2. CASE s.kind = "name"
      BY <1>2, NamedSetSays DEF Selected, SourceSays
<1>3. CASE s.kind \notin {"map", "name"}
  <2>1. Selected(s).map = <<>>
        BY <1>3 DEF Selected, NoSet, Set
  <2>2. DOMAIN <<>> = {}
        OBVIOUS
  <2>3. \A c, deny : SourceSays(s, c, deny) = {}
        BY <1>3 DEF SourceSays
  <2> QED
        BY <2>1, <2>2, <2>3 DEF IsMap, MapSays
<1> QED
      BY <1>1, <1>2, <1>3

-----------------------------------------------------------------------------
(* What ends up in the manifest, or is handed to the runtime by `inka run`.    *)
Wanted == IF cmd = "run" \/ Selects THEN CliDsl ELSE ConfigDsl

IsFlags(f) ==
  /\ f.all \in BOOLEAN
  /\ \A e \in f.allow \cup f.deny : e.list \subseteq Items

Listed(entries, c) == UNION {e.list : e \in {x \in entries : x.cat = c}}

(* Repeated flags of a category (config.rs:942-1010).                          *)
LEMMA MergeSays ==
  ASSUME NEW entries, \A e \in entries : e.list \subseteq Items, NEW c
  PROVE  /\ MergeCat(entries, c) \subseteq Items
         /\ Same(MergeCat(entries, c), Listed(entries, c))
         /\ MergeCat(entries, c) = {Empty} <=> Listed(entries, c) = {Empty}
<1> DEFINE lists == {e.list : e \in {x \in entries : x.cat = c}}
<1>1. MergeCat(entries, c) = IF {All} \in lists THEN {All} ELSE UNION lists
      BY DEF MergeCat
<1>2. Listed(entries, c) = UNION lists
      BY DEF Listed
<1>3. \A l \in lists : l \subseteq Items
      OBVIOUS
<1> HIDE DEF lists
<1>4. CASE {All} \in lists
  <2>1. All \in UNION lists
        BY <1>4
  <2> QED
        BY <1>1, <1>2, <1>4, <2>1, SpecialItems DEF Same
<1>5. CASE {All} \notin lists
  <2>1. UNION lists \subseteq Items
        BY <1>3
  <2> QED
        BY <1>1, <1>2, <1>5, <2>1 DEF Same
<1> QED
      BY <1>4, <1>5

(* Granular flags, or -A with denials.                                        *)
LEMMA FlagsSay ==
  ASSUME IsFlags(flags), NEW c \in Category
  PROVE  DslSays(FlagsDsl(flags), c, IF flags.all THEN {All} ELSE Listed(flags.allow, c), Listed(flags.deny, c))
<1> DEFINE dsl == FlagsDsl(flags)
<1>1. /\ dsl.all = flags.all
      /\ dsl.allow[c] = IF flags.all THEN {} ELSE MergeCat(flags.allow, c)
      /\ dsl.deny[c] = MergeCat(flags.deny, c)
      BY DEF FlagsDsl, NoLine
<1> HIDE DEF dsl
<1>2. /\ MergeCat(flags.allow, c) \subseteq Items
      /\ Same(MergeCat(flags.allow, c), Listed(flags.allow, c))
      BY MergeSays DEF IsFlags
<1>3. /\ MergeCat(flags.deny, c) \subseteq Items
      /\ Same(MergeCat(flags.deny, c), Listed(flags.deny, c))
      /\ MergeCat(flags.deny, c) = {Empty} <=> Listed(flags.deny, c) = {Empty}
      BY MergeSays DEF IsFlags
<1>4. flags.all \in BOOLEAN
      BY DEF IsFlags
<1>5. DslSays(dsl, c, IF flags.all THEN {All} ELSE Listed(flags.allow, c), Listed(flags.deny, c))
  <2>1. CASE flags.all
        BY <1>1, <1>3, <2>1 DEF DslSays
  <2>2. CASE ~flags.all
        BY <1>1, <1>2, <1>3, <2>2 DEF DslSays
  <2> QED
        BY <2>1, <2>2
<1> QED
      BY <1>1, <1>5 DEF dsl

(* The DSL of a command grants and denies what its source says               *)
(* (config.rs:700-800, build.rs:300-340, run.rs:400-446).                    *)
LEMMA WantedSays ==
  ASSUME project \in Project, cmd \in {"build", "run"}, IsFlags(flags), Valid, NEW c \in Category
  PROVE  DslSays(Wanted, c, Asked(c, FALSE), Asked(c, TRUE))
<1>0. IsConfig(Deno) /\ IsConfig(Package)
      BY ConfigsTyped
<1>1. CASE flags.all
  <2>1. flags.set = ""
        BY <1>1 DEF Valid
  <2>2. Wanted = FlagsDsl(flags)
        BY <1>1, <2>1 DEF Wanted, CliDsl, Selects
  <2>3. Asked(c, FALSE) = {All} /\ Asked(c, TRUE) = Listed(flags.deny, c)
        BY <1>1, <2>1 DEF Asked, Listed, Selects
  <2> QED
        BY <1>1, <2>2, <2>3, FlagsSay
<1>2. CASE flags.set # ""
  <2>1. ~flags.all /\ flags.allow = {}
        BY <1>2 DEF Valid
  <2>2. Wanted = CategoryMap(NamedSet(flags.set).map)
        BY <1>2 DEF Wanted, CliDsl, Selects
  <2>3. Asked(c, FALSE) = SetSays(flags.set, c, FALSE) /\ Asked(c, TRUE) = SetSays(flags.set, c, TRUE)
        BY <1>2, <2>1 DEF Asked, Selects
  <2>4. IsMap(NamedSet(flags.set).map)
        /\ \A deny : MapSays(NamedSet(flags.set).map, c, deny) = SetSays(flags.set, c, deny)
        BY NamedSetSays
  <2>5. DslSays(CategoryMap(NamedSet(flags.set).map), c, SetSays(flags.set, c, FALSE), SetSays(flags.set, c, TRUE))
        BY <2>4, MapGrants
  <2> QED
        BY <2>2, <2>3, <2>5
<1>3. CASE ~flags.all /\ flags.set = "" /\ flags.allow # {}
  <2>1. Wanted = FlagsDsl(flags)
        BY <1>3 DEF Wanted, CliDsl, Selects
  <2>2. Asked(c, FALSE) = Listed(flags.allow, c) /\ Asked(c, TRUE) = Listed(flags.deny, c)
        BY <1>3 DEF Asked, Listed, Selects
  <2> QED
        BY <1>3, <2>1, <2>2, FlagsSay
<1>4. CASE ~Selects /\ cmd = "run"
  <2>1. ~flags.all /\ flags.set = "" /\ flags.allow = {}
        BY <1>4 DEF Selects
  <2>2. flags.deny = {}
        BY <2>1 DEF Valid
  <2>3. Wanted = FlagsDsl(flags)
        BY <1>4, <2>1 DEF Wanted, CliDsl
  <2>4. Listed(flags.allow, c) = {} /\ Listed(flags.deny, c) = {}
        BY <2>1, <2>2 DEF Listed
  <2>5. Asked(c, FALSE) = {} /\ Asked(c, TRUE) = {}
        BY <1>4, <2>1 DEF Asked
  <2> QED
        BY <2>1, <2>3, <2>4, <2>5, FlagsSay
<1>5. CASE ~Selects /\ cmd = "build" /\ Deno.compile # Absent
  <2>1. ~flags.all /\ flags.set = "" /\ flags.allow = {}
        BY <1>5 DEF Selects
  <2>2. Wanted = CategoryMap(Selected(Deno.compile).map)
        BY <1>5 DEF Wanted, ConfigDsl
  <2>3. Asked(c, FALSE) = SourceSays(Deno.compile, c, FALSE) /\ Asked(c, TRUE) = SourceSays(Deno.compile, c, TRUE)
        BY <1>5, <2>1 DEF Asked
  <2>4. IsMap(Selected(Deno.compile).map)
        /\ \A deny : MapSays(Selected(Deno.compile).map, c, deny) = SourceSays(Deno.compile, c, deny)
        BY <1>0, SelectedSays DEF IsConfig
  <2>5. DslSays(CategoryMap(Selected(Deno.compile).map), c, SourceSays(Deno.compile, c, FALSE), SourceSays(Deno.compile, c, TRUE))
        BY <2>4, MapGrants
  <2> QED
        BY <2>2, <2>3, <2>5
<1>6. CASE ~Selects /\ cmd = "build" /\ Deno.compile = Absent /\ Marker.kind = "name" /\ Marker.name = "all"
  <2>1. ~flags.all /\ flags.set = "" /\ flags.allow = {}
        BY <1>6 DEF Selects
  <2>2. Wanted = [NoDsl EXCEPT !.all = TRUE]
        BY <1>6 DEF Wanted, ConfigDsl
  <2>3. Asked(c, FALSE) = {All} /\ Asked(c, TRUE) = {}
        BY <1>6, <2>1 DEF Asked
  <2>4. Wanted.all = TRUE /\ Wanted.allow[c] = {} /\ Wanted.deny[c] = {}
        BY <2>2 DEF NoDsl, NoLine
  <2> QED
        BY <2>3, <2>4 DEF DslSays, Same
<1>7. CASE ~Selects /\ cmd = "build" /\ Deno.compile = Absent /\ ~(Marker.kind = "name" /\ Marker.name = "all")
  <2>1. ~flags.all /\ flags.set = "" /\ flags.allow = {}
        BY <1>7 DEF Selects
  <2>2. Wanted = CategoryMap(Selected(Marker).map)
        BY <1>7 DEF Wanted, ConfigDsl
  <2>3. Asked(c, FALSE) = SourceSays(Marker, c, FALSE) /\ Asked(c, TRUE) = SourceSays(Marker, c, TRUE)
        BY <1>7, <2>1 DEF Asked
  <2>m. IsMap(Marker.map)
    <3>1. IsMap(Absent.map)
      <4>1. Absent.map = <<>> /\ DOMAIN <<>> = {}
            BY DEF Absent, Source
      <4> QED
            BY <4>1 DEF IsMap
    <3> QED
          BY <1>0, <3>1 DEF IsConfig, Marker, First
  <2>4. IsMap(Selected(Marker).map)
        /\ \A deny : MapSays(Selected(Marker).map, c, deny) = SourceSays(Marker, c, deny)
        BY <2>m, SelectedSays
  <2>5. DslSays(CategoryMap(Selected(Marker).map), c, SourceSays(Marker, c, FALSE), SourceSays(Marker, c, TRUE))
        BY <2>4, MapGrants
  <2> QED
        BY <2>2, <2>3, <2>5
<1> QED
      BY <1>1, <1>2, <1>3, <1>4, <1>5, <1>6, <1>7 DEF Selects

(* What Deno's container answers of a DSL once it is anchored                *)
(* (permissions.rs:161, lib.rs:472-606, 888-953).                            *)
LEMMA ContainerAnswers ==
  ASSUME NEW dsl, NEW c \in Category, NEW j \in Places,
         NEW granted, NEW denied, DslSays(dsl, c, granted, denied),
         Accepted(ExpandPermissions(dsl, Base))
  PROVE  Permits(ExpandPermissions(dsl, Base), c, j) <=>
           Covers(granted, c, j) /\ ~(denied = {Empty} \/ Covers(denied, c, j))
<1> DEFINE E == ExpandPermissions(dsl, Base)
           allow == dsl.allow[c]
           deny == dsl.deny[c]
<1>1. E.all = dsl.all /\ E.allow[c] = Anchored(allow, c) /\ E.deny[c] = Anchored(deny, c)
  <2>1. E = [all |-> dsl.all, allow |-> ExpandLines(dsl.allow, Base), deny |-> ExpandLines(dsl.deny, Base)]
        BY DEF ExpandPermissions
  <2>2. \A lines : ExpandLines(lines, Base)[c] = Anchored(lines[c], c)
        BY DEF ExpandLines, Anchored
  <2> QED
        BY <2>1, <2>2
<1>2. /\ allow \subseteq Items /\ deny \subseteq Items
      /\ dsl.all => granted = {All} /\ allow = {}
      /\ ~dsl.all => Same(allow, granted)
      /\ Same(deny, denied) /\ (deny = {Empty} <=> denied = {Empty})
      BY DEF DslSays
<1>3. E.allow[c] # {} => HasItems(E.allow[c])
      BY DEF Accepted, NoLine
<1> HIDE DEF E, allow, deny
<1>4. \A line, said : Same(line, said) => (Covers(line, c, j) <=> Covers(said, c, j))
      BY SpecialItems DEF Same, Covers
<1>5. \A line : line \ {Empty} = {} => ~Covers(line, c, j)
      BY SpecialItems DEF Covers
<1>6. \A list : list \subseteq Items =>
        /\ Anchored(list, c) = {} <=> list = {}
        /\ HasItems(Anchored(list, c)) <=> HasItems(list)
        /\ Names(Expand(Anchored(list, c)), j) <=> ~HasItems(list) \/ Covers(list, c, j)
      BY LineReaches
<1>e. \A s : Names(<<>>, s) = FALSE
      BY DEF Names
<1>f. Names(<<{}>>, j)
      BY DEF Names
<1>7. Names(CatAllow(E, c), j) <=> Covers(granted, c, j)
  <2>1. CASE allow # {}
    <3>1. E.allow[c] # {} /\ CatAllow(E, c) = Expand(Anchored(allow, c))
          BY <1>1, <1>2, <1>6, <2>1 DEF CatAllow, NoLine
    <3>2. HasItems(allow)
          BY <1>1, <1>2, <1>3, <1>6, <3>1
    <3>3. ~dsl.all
          BY <1>2, <2>1
    <3> QED
          BY <1>2, <1>4, <1>6, <3>1, <3>2, <3>3
  <2>2. CASE allow = {} /\ dsl.all
    <3>1. CatAllow(E, c) = <<{}>>
          BY <1>1, <1>2, <1>6, <2>2 DEF CatAllow, NoLine
    <3>2. Covers(granted, c, j)
          BY <1>2, <2>2 DEF Covers
    <3> QED
          BY <1>f, <3>1, <3>2
  <2>3. CASE allow = {} /\ ~dsl.all
    <3>1. CatAllow(E, c) = <<>>
          BY <1>1, <1>2, <1>6, <2>3 DEF CatAllow, NoLine
    <3>2. ~Covers(granted, c, j)
          BY <1>2, <1>4, <1>5, <2>3
    <3> QED
          BY <1>e, <3>1, <3>2
  <2> QED
        BY <2>1, <2>2, <2>3
<1>8. Names(CatDeny(E, c), j) <=> denied = {Empty} \/ Covers(denied, c, j)
  <2>1. CASE deny # {}
    <3>1. CatDeny(E, c) = Expand(Anchored(deny, c))
          BY <1>1, <1>2, <1>6, <2>1 DEF CatDeny, NoLine
    <3>2. ~HasItems(deny) <=> deny = {Empty}
          BY <2>1 DEF HasItems
    <3> QED
          BY <1>2, <1>4, <1>6, <3>1, <3>2
  <2>2. CASE deny = {}
    <3>1. CatDeny(E, c) = <<>>
          BY <1>1, <1>2, <1>6, <2>2 DEF CatDeny, NoLine
    <3>2. ~Covers(denied, c, j)
          BY <1>2, <1>4, <1>5, <2>2
    <3> QED
          BY <1>2, <1>e, <2>2, <3>1, <3>2
  <2> QED
        BY <2>1, <2>2
<1> QED
      BY <1>7, <1>8 DEF Permits, E

-----------------------------------------------------------------------------
Phases == {"args", "manifest", "start", "embed", "create", "write", "rename",
           "built", "running", "refused", "failed"}
Packed == {"embed", "create", "write", "rename", "built", "refused"}

(* Flags stay within the vocabulary of items, and past the validation they    *)
(* are valid; an artifact holds the DSL that was wanted, and what runs got it *)
(* anchored.                                                                  *)
GrantInv ==
  /\ project \in Project /\ cmd \in {"build", "run"} /\ phase \in Phases
  /\ IsFlags(flags) /\ DOMAIN flags = DOMAIN NoFlags
  /\ phase \notin {"args", "failed"} => Valid
  /\ phase = "manifest" => cmd = "build"
  /\ phase = "start" => cmd = "run"
  /\ phase \in Packed => cmd = "build" /\ manifest.dsl = Wanted /\ {"dsl", "base"} \subseteq DOMAIN manifest
  /\ phase = "running" => Accepted(launched.dsl) /\ launched.dsl = ExpandPermissions(Wanted, Base)

(* Reading an argument (build.rs:60-200, run.rs:60-180).                      *)
LEMMA TokenTyped ==
  ASSUME NEW t \in Token, IsFlags(flags), DOMAIN flags = DOMAIN NoFlags
  PROVE  IsFlags(WithToken(flags, t)) /\ DOMAIN WithToken(flags, t) = DOMAIN NoFlags
<1>0. DOMAIN NoFlags = {"all", "set", "allow", "deny", "base", "runtime", "tested", "beta", "stable"}
      BY DEF NoFlags
<1>1. /\ t.k \in {"all", "set", "allow", "deny", "base", "runtime", "tested", "beta", "stable"}
      /\ t.k \in {"allow", "deny"} => t.list \subseteq Items
      BY BuildAssumption
<1>2. \A x : \A k \in DOMAIN NoFlags :
        LET g == [flags EXCEPT ![k] = x] IN
        /\ DOMAIN g = DOMAIN NoFlags /\ g[k] = x
        /\ \A l \in DOMAIN NoFlags \ {k} : g[l] = flags[l]
      OBVIOUS
<1>3. CASE t.k = "all"
  <2>1. WithToken(flags, t) = [flags EXCEPT !["all"] = TRUE]
        BY <1>3 DEF WithToken
  <2> QED
        BY <1>0, <1>2, <2>1 DEF IsFlags
<1>4. CASE t.k = "set"
  <2>1. WithToken(flags, t) = [flags EXCEPT !["set"] = t.name]
        BY <1>4 DEF WithToken
  <2> QED
        BY <1>0, <1>2, <2>1 DEF IsFlags
<1>5. CASE t.k \in {"allow", "deny"}
  <2>1. WithToken(flags, t) = [flags EXCEPT ![t.k] = flags[t.k] \cup {[cat |-> t.cat, list |-> ListOf(t)]}]
        BY <1>5 DEF WithToken
  <2>2. ListOf(t) \subseteq Items
        BY <1>1, <1>5, SpecialItems DEF ListOf
  <2>3. [cat |-> t.cat, list |-> ListOf(t)].list = ListOf(t)
        OBVIOUS
  <2>4. t.k \in DOMAIN NoFlags
        BY <1>0, <1>5
  <2> HIDE DEF NoFlags
  <2>5. CASE t.k = "allow"
    <3>1. /\ WithToken(flags, t).allow = flags.allow \cup {[cat |-> t.cat, list |-> ListOf(t)]}
          /\ WithToken(flags, t).deny = flags.deny /\ WithToken(flags, t).all = flags.all
          BY <1>0, <1>2, <2>1, <2>5
    <3> QED
          BY <1>2, <2>1, <2>2, <2>3, <2>4, <3>1 DEF IsFlags
  <2>6. CASE t.k = "deny"
    <3>1. /\ WithToken(flags, t).deny = flags.deny \cup {[cat |-> t.cat, list |-> ListOf(t)]}
          /\ WithToken(flags, t).allow = flags.allow /\ WithToken(flags, t).all = flags.all
          BY <1>0, <1>2, <2>1, <2>6
    <3> QED
          BY <1>2, <2>1, <2>2, <2>3, <2>4, <3>1 DEF IsFlags
  <2> QED
        BY <1>5, <2>5, <2>6
<1>6. CASE t.k \in {"base", "runtime", "tested"}
  <2>1. WithToken(flags, t) = [flags EXCEPT ![t.k] = t.val]
        BY <1>6 DEF WithToken
  <2> QED
        BY <1>0, <1>2, <1>6, <2>1 DEF IsFlags
<1>7. CASE t.k \in {"beta", "stable"}
  <2>1. WithToken(flags, t) = [flags EXCEPT ![t.k] = TRUE]
        BY <1>7 DEF WithToken
  <2> QED
        BY <1>0, <1>2, <1>7, <2>1 DEF IsFlags
<1> QED
      BY <1>1, <1>3, <1>4, <1>5, <1>6, <1>7

(* The invariant holds at first.                                             *)
LEMMA GrantInit ==
  ASSUME NEW graphs, NEW externals, BuildInit(graphs, externals) PROVE GrantInv
<1>1. project \in Project /\ cmd \in {"build", "run"} /\ flags = NoFlags /\ phase = "args"
      BY DEF BuildInit
<1>2. NoFlags.all = FALSE /\ NoFlags.allow = {} /\ NoFlags.deny = {}
      BY DEF NoFlags
<1> QED
      BY <1>1, <1>2 DEF GrantInv, Phases, Packed, IsFlags

(* What the invariant speaks of is left alone.                                *)
Still == UNCHANGED <<cmd, project, flags>>

(* What is asked for stays as long as the command line and the configuration *)
(* do.                                                                       *)
LEMMA WantedStays == ASSUME Still PROVE Wanted' = Wanted /\ (Valid' <=> Valid)
<1>0. cmd' = cmd /\ project' = project /\ flags' = flags
      BY DEF Still
<1>1. Deno' = Deno /\ Package' = Package
      BY <1>0 DEF Deno, Package, Usable, NoConfig
<1>2. \A n : (NamedSet(n))' = NamedSet(n)
      BY <1>1 DEF NamedSet
<1>3. CliDsl' = CliDsl
      BY <1>0, <1>2 DEF CliDsl
<1>4. Marker' = Marker
      BY <1>1 DEF Marker
<1>5. \A s : Selected(s)' = Selected(s)
      BY <1>2 DEF Selected
<1>6. ConfigDsl' = ConfigDsl
      BY <1>1, <1>4, <1>5 DEF ConfigDsl
<1>7. Selects' = Selects
      BY <1>0 DEF Selects
<1> QED
      BY <1>0, <1>3, <1>6, <1>7 DEF Wanted, Valid

(* Every step keeps the invariant.                                           *)
LEMMA GrantStep == ASSUME GrantInv, [BuildNext]_buildVars PROVE GrantInv'
<1>0. /\ project \in Project /\ cmd \in {"build", "run"} /\ phase \in Phases
      /\ IsFlags(flags) /\ DOMAIN flags = DOMAIN NoFlags
      /\ phase \notin {"args", "failed"} => Valid
      /\ phase = "manifest" => cmd = "build"
      /\ phase = "start" => cmd = "run"
      /\ phase \in Packed => cmd = "build" /\ manifest.dsl = Wanted /\ {"dsl", "base"} \subseteq DOMAIN manifest
      /\ phase = "running" => Accepted(launched.dsl) /\ launched.dsl = ExpandPermissions(Wanted, Base)
      BY DEF GrantInv
<1>u. ASSUME Still,
             phase' \in Phases /\ (phase' \notin {"args", "failed"} => Valid),
             (phase' = "manifest" => cmd = "build") /\ (phase' = "start" => cmd = "run"),
             phase' \in Packed => cmd = "build" /\ manifest'.dsl = Wanted /\ {"dsl", "base"} \subseteq DOMAIN manifest',
             phase' = "running" => Accepted(launched'.dsl) /\ launched'.dsl = ExpandPermissions(Wanted, Base')
      PROVE  GrantInv'
  <2>1. Wanted' = Wanted /\ (Valid' <=> Valid) /\ project' = project /\ cmd' = cmd /\ flags' = flags
        BY <1>u, WantedStays DEF Still
  <2>2. IsFlags(flags)' /\ (Accepted(launched.dsl))' <=> Accepted(launched'.dsl)
        BY <1>0, <2>1 DEF IsFlags
  <2> QED
        BY <1>0, <1>u, <2>1 DEF GrantInv, IsFlags
<1>b. UNCHANGED <<cmd, flags, manifest>> => Base' = Base
      BY DEF Base
<1>p. phase' = "failed" => phase' \in Phases /\ phase' \notin Packed
      BY DEF Phases, Packed
<1>1. ASSUME NEW t \in Token, ReadArg(t) PROVE GrantInv'
  <2>1. phase = "args" /\ UNCHANGED <<cmd, project>>
        BY <1>1 DEF ReadArg
  <2>2. phase' \in {"args", "failed"} /\ (flags' = flags \/ flags' = WithToken(flags, t))
        BY <1>1 DEF ReadArg, Fail
  <2>3. IsFlags(flags') /\ DOMAIN flags' = DOMAIN NoFlags
        BY <1>0, <2>2, TokenTyped
  <2> QED
        BY <1>0, <2>1, <2>2, <2>3 DEF GrantInv, Phases, Packed, IsFlags
<1>2. CASE ValidateArgs
  <2>1. Still /\ phase' \in {"manifest", "start", "failed"}
        BY <1>2 DEF ValidateArgs, Still, Fail
  <2>2. phase' # "failed" => Valid /\ (phase' = "manifest" => cmd = "build") /\ (phase' = "start" => cmd = "run")
        BY <1>0, <1>2 DEF ValidateArgs, Fail
  <2> QED
        BY <1>u, <2>1, <2>2 DEF Phases, Packed
<1>3. CASE ResolveManifest
  <2>1. Still /\ phase = "manifest" /\ cmd = "build" /\ Valid
        BY <1>0, <1>3 DEF ResolveManifest, Still
  <2>2. phase' = "failed" \/ (phase' = "embed" /\ manifest'.dsl = Wanted /\ {"dsl", "base"} \subseteq DOMAIN manifest')
    <3>1. Wanted = IF Selects THEN CliDsl ELSE ConfigDsl
          BY <2>1 DEF Wanted
    <3>2. ASSUME NEW r, NEW t, NEW b, NEW d, NEW x,
                 manifest' = [[runtime |-> r, tested |-> t, base |-> b, channel |-> "none", dsl |-> d, requires |-> {}]
                                 EXCEPT !.channel = x]
          PROVE  manifest'.dsl = d /\ {"dsl", "base"} \subseteq DOMAIN manifest'
          BY <3>2
    <3> QED
          BY <1>3, <3>1, <3>2 DEF ResolveManifest, Fail
  <2> QED
        BY <1>u, <2>1, <2>2 DEF Phases, Packed
<1>4. CASE EmbedPackages
  <2>1. UNCHANGED <<cmd, project, flags, phase, manifest, launched>>
        BY <1>4 DEF EmbedPackages, buildOnly
  <2> QED
        BY <1>0, <1>b, <1>u, <2>1 DEF Still
<1>5. ASSUME NEW native \in BOOLEAN, Pack(native) PROVE GrantInv'
  <2>1. Still /\ phase = "embed" /\ phase' \in {"create", "failed"}
        BY <1>5 DEF Pack, Still, Fail
  <2>2. PICK r, n : manifest' = [manifest EXCEPT !.requires = n, !.runtime = r]
        BY <1>5 DEF Pack
  <2>3. manifest'.dsl = manifest.dsl /\ DOMAIN manifest' = DOMAIN manifest
        BY <1>0, <2>1, <2>2 DEF Packed
  <2> QED
        BY <1>0, <1>u, <2>1, <2>3 DEF Phases, Packed
<1>6. CASE CreateTemp \/ WriteTemp \/ RenameTemp \/ Killed
  <2>1. UNCHANGED <<cmd, project, flags, manifest, launched>> /\ phase \in Packed \ {"refused"}
        BY <1>6 DEF CreateTemp, WriteTemp, RenameTemp, Killed, Packed
  <2>2. phase' \in {"write", "rename", "built", "failed"}
        BY <1>6 DEF CreateTemp, WriteTemp, RenameTemp, Killed, Fail
  <2>3. phase \notin {"args", "failed"}
        BY <2>1 DEF Packed
  <2> QED
        BY <1>0, <1>b, <1>u, <2>1, <2>2, <2>3 DEF Phases, Packed, Still
<1>7. ASSUME NEW S \in Store, Launch(S) PROVE GrantInv'
  <2>1. UNCHANGED <<cmd, project, flags, manifest>> /\ phase = "built"
        BY <1>7 DEF Launch
  <2>2. phase' \in {"running", "refused"} /\ launched'.dsl = ExpandPermissions(manifest.dsl, manifest.base)
        BY <1>7 DEF Launch
  <2>3. phase' = "running" => Accepted(launched'.dsl)
        BY <1>7 DEF Launch
  <2>4. cmd = "build" /\ manifest.dsl = Wanted /\ Base = manifest.base /\ {"dsl", "base"} \subseteq DOMAIN manifest
        BY <1>0, <2>1 DEF Packed, Base
  <2> QED
        BY <1>0, <1>b, <1>u, <2>1, <2>2, <2>3, <2>4 DEF Phases, Packed, Still
<1>8. ASSUME NEW S \in Store, RunDirectly(S) PROVE GrantInv'
  <2>1. UNCHANGED <<cmd, project, flags, manifest>> /\ phase = "start"
        BY <1>8 DEF RunDirectly
  <2>2. \/ phase' = "failed"
        \/ phase' = "running" /\ launched'.dsl = ExpandPermissions(CliDsl, flags.base) /\ Accepted(launched'.dsl)
    <3> DEFINE d == ExpandPermissions(CliDsl, flags.base)
    <3>1. \/ phase' = "failed"
          \/ phase' = "running" /\ Accepted(d) /\ \E v : launched' = [dsl |-> d, tuple |-> v, of |-> S]
          BY <1>8 DEF RunDirectly, Fail
    <3>s. \A v : [dsl |-> d, tuple |-> v, of |-> S].dsl = d
          OBVIOUS
    <3> HIDE DEF d
    <3>2. phase' = "failed" \/ (phase' = "running" /\ Accepted(d) /\ launched'.dsl = d)
          BY <3>1, <3>s
    <3> QED
          BY <3>2 DEF d
  <2>3. Wanted = CliDsl /\ Base = flags.base
        BY <1>0, <2>1 DEF Wanted, Base
  <2> QED
        BY <1>0, <1>b, <1>u, <2>1, <2>2, <2>3 DEF Phases, Packed, Still
<1>9. CASE UNCHANGED buildVars
  <2>1. UNCHANGED <<cmd, project, flags, phase, manifest, launched>>
        BY <1>9 DEF buildVars, buildOnly
  <2> QED
        BY <1>0, <1>b, <1>u, <2>1 DEF Still
<1> QED
      BY <1>1, <1>2, <1>3, <1>4, <1>5, <1>6, <1>7, <1>8, <1>9 DEF BuildNext

(* The hint names the set that is baked (config.rs:880-942).                 *)
LEMMA HintHolds == HintReproducesBuild
<1> SUFFICES ASSUME HintedSet # "" PROVE CategoryMap(NamedSet(HintedSet).map) = ConfigDsl
      BY DEF HintReproducesBuild
<1>1. CASE Deno.compile # Absent
  <2>1. HintedSet = IF Deno.compile.kind = "name" THEN Deno.compile.name ELSE ""
        BY <1>1 DEF HintedSet, First
  <2> QED
        BY <1>1, <2>1 DEF ConfigDsl, Selected
<1>2. CASE Deno.compile = Absent
  <2>1. First(Deno.compile, Marker, Absent) = Marker
        BY <1>2 DEF First
  <2>2. HintedSet = IF Marker.kind = "name" /\ Marker.name # "all" THEN Marker.name ELSE ""
        BY <1>2, <2>1 DEF HintedSet
  <2> QED
        BY <1>2, <2>2 DEF ConfigDsl, Selected
<1> QED
      BY <1>1, <1>2

(* The safety invariant follows.                                             *)
LEMMA GrantImplies == ASSUME GrantInv PROVE RunsAsGranted
<1>1. ASSUME phase = "running", NEW c \in Category, NEW j \in Places
      PROVE  Permits(launched.dsl, c, j) <=> Covers(Asked(c, FALSE), c, j) /\ ~Denied(c, j)
  <2>1. /\ project \in Project /\ cmd \in {"build", "run"} /\ IsFlags(flags) /\ Valid
        /\ launched.dsl = ExpandPermissions(Wanted, Base) /\ Accepted(launched.dsl)
        BY <1>1 DEF GrantInv
  <2>2. DslSays(Wanted, c, Asked(c, FALSE), Asked(c, TRUE))
        BY <2>1, WantedSays
  <2>3. Permits(launched.dsl, c, j) <=>
          Covers(Asked(c, FALSE), c, j) /\ ~(Asked(c, TRUE) = {Empty} \/ Covers(Asked(c, TRUE), c, j))
        BY <2>1, <2>2, ContainerAnswers
  <2> QED
        BY <2>3 DEF Denied
<1> QED
      BY <1>1, HintHolds DEF RunsAsGranted

(* RunsAsGranted, for every configuration, command line, package graph and   *)
(* store: what `inka run` and a built artifact start with permits exactly    *)
(* what the source that counts grants and does not deny (config.rs:11-19,    *)
(* permissions.rs:161, lib.rs:888-953, runtime lib.rs:472-606).              *)
THEOREM Granted ==
  ASSUME NEW graphs, NEW externals
  PROVE  BuildInit(graphs, externals) /\ [][BuildNext]_buildVars => []RunsAsGranted
<1>1. BuildInit(graphs, externals) => GrantInv
      BY GrantInit
<1>2. GrantInv /\ [BuildNext]_buildVars => GrantInv'
      BY GrantStep
<1>3. GrantInv => RunsAsGranted
      BY GrantImplies
<1> QED
      BY <1>1, <1>2, <1>3, PTL

-----------------------------------------------------------------------------
Capabilities == {"native-addon", "raw-cjs", "import-perm"}

(* Without a runtime of its own an artifact requires the floor; what its      *)
(* files need is known from the packing on.  What runs is no older, and what  *)
(* is refused had nothing that is not, or an empty list.                     *)
FloorInv ==
  /\ phase \in Packed \cup {"running"} /\ cmd = "build" =>
       /\ {"runtime", "tested", "channel"} \subseteq DOMAIN manifest
       /\ ~explicit => manifest.runtime = AtLeast(Floor)
       /\ phase # "embed" => needs \subseteq Capabilities
  /\ phase = "running" /\ cmd = "build" /\ ~explicit => ~Less(launched.tuple, Floor)
  /\ phase = "refused" =>
       \/ explicit \/ manifest.tested # NoSpec
       \/ \A v \in launched.of : ~IsPrerelease(v) => Less(v, Floor)
       \/ EmptyList

(* What the launcher makes of such a manifest (lib.rs:714-772).              *)
LEMMA FloorRead ==
  ASSUME NEW m, m.runtime = AtLeast(Floor)
  PROVE  LET p == ParseManifest(LinesOf(m)) IN
         /\ p.min = {Floor}
         /\ m.tested = NoSpec => /\ p.gt = {} /\ p.exact = {} /\ p.tested = {}
                                 /\ p.malformed = FALSE
<1> DEFINE r == RuntimeLine(m.runtime)
           t == TestedLine(m.tested)
           c == [key |-> "channel", val |-> m.channel]
           L == {r, t, c}
           a == <<r>>
           b == IF m.tested = NoSpec THEN a ELSE Append(a, t)
           l == IF m.channel = "none" THEN b ELSE Append(b, c)
           pa == ParseManifest(a)
           pb == ParseManifest(b)
           pl == ParseManifest(l)
<1>1. r.key = "min" /\ r.val = Display(Floor) /\ t.key = "tested" /\ c.key = "channel"
  <2>1. /\ AtLeast(Floor).op = ">=" /\ AtLeast(Floor).text = Display(Floor)
        BY DEF AtLeast
  <2>2. r.val = Display(Floor)
        BY <2>1 DEF RuntimeLine
  <2>3. r.key = "min"
        BY <2>1 DEF RuntimeLine
  <2>4. t.key = "tested"
        BY DEF TestedLine
  <2> QED
        BY <2>2, <2>3, <2>4
<1>2. m.runtime # NoSpec
  <2>1. AtLeast(Floor).op = ">=" /\ NoSpec.op = "none"
        BY DEF AtLeast, NoSpec
  <2> QED
        BY <2>1
<1> HIDE DEF r, t, c
<1>3. a \in Seq(L) /\ b \in Seq(L) /\ a = Append(<<>>, r) /\ <<>> \in Seq(L)
  <2>1. r \in L /\ t \in L
        OBVIOUS
  <2> HIDE DEF L
  <2>2. a \in Seq(L) /\ a = Append(<<>>, r) /\ <<>> \in Seq(L)
        BY <2>1
  <2>3. Append(a, t) \in Seq(L)
        BY <2>1, <2>2, AppendProperties
  <2> QED
        BY <2>2, <2>3
<1>4. LinesOf(m) = l
  <2>1. LinesOf(m) = <<r>> \o (IF m.tested = NoSpec THEN <<>> ELSE <<t>>) \o (IF m.channel = "none" THEN <<>> ELSE <<c>>)
        BY <1>2 DEF LinesOf, r, t, c
  <2>2. \A s \in Seq(L) : s \o <<>> = s /\ \A x \in L : s \o <<x>> = Append(s, x)
        OBVIOUS
  <2> QED
        BY <1>3, <2>1, <2>2
<1> HIDE DEF a, b, l
<1>5. ParseVersion(Display(Floor)) = Floor /\ Floor # NoVersion
      BY BuildAssumption, WrittenIsRead, NoneIsNoVersion
<1>6. pa = ParseLine(NoConstraint, r)
      BY <1>3, ManifestOfNone, ManifestOfMore
<1>7. pa = [NoConstraint EXCEPT !["min"] = {Floor}]
      BY <1>1, <1>5, <1>6 DEF ParseLine
<1>8. /\ pa.min = {Floor} /\ pa.gt = {} /\ pa.exact = {} /\ pa.tested = {} /\ pa.malformed = FALSE
      /\ DOMAIN pa = {"min", "gt", "exact", "tested", "channel", "malformed"}
      BY <1>7 DEF NoConstraint
<1> HIDE DEF pa
<1>9. /\ pb.min = {Floor} /\ DOMAIN pb = DOMAIN pa
      /\ m.tested = NoSpec => pb = pa
  <2>1. CASE m.tested = NoSpec
        BY <1>8, <2>1 DEF pa, b
  <2>2. CASE m.tested # NoSpec
    <3>1. pb = ParseLine(pa, t)
          BY <1>3, <2>2, ManifestOfMore DEF b, pa
    <3>2. pb = [pa EXCEPT !.malformed = TRUE] \/ pb = [pa EXCEPT !["tested"] = {ParseVersion(t.val)}]
          BY <1>1, <3>1 DEF ParseLine
    <3> HIDE DEF pb
    <3> QED
          BY <1>8, <2>2, <3>2
  <2> QED
        BY <2>1, <2>2
<1> HIDE DEF pb
<1>10. /\ pl.min = pb.min /\ pl.gt = pb.gt /\ pl.exact = pb.exact /\ pl.tested = pb.tested
       /\ pl.malformed = pb.malformed
  <2>1. CASE m.channel = "none"
        BY <2>1 DEF pb, l
  <2>2. CASE m.channel # "none"
    <3>1. pl = ParseLine(pb, c)
          BY <1>3, <2>2, ManifestOfMore DEF l, pb
    <3>2. pl = [pb EXCEPT !.channel = c.val]
          BY <1>1, <3>1 DEF ParseLine
    <3> HIDE DEF pl
    <3> QED
          BY <1>8, <1>9, <3>2
  <2> QED
        BY <2>1, <2>2
<1> QED
      BY <1>4, <1>8, <1>9, <1>10

(* What is launched meets the floor, and what meets it is launched            *)
(* (main.rs:397-448).                                                        *)
LEMMA FloorMet ==
  ASSUME NEW S \in Store, manifest.runtime = AtLeast(Floor)
  PROVE  LET v == Newest(Eligibles(S)) IN
         /\ v # NoVersion => ~Less(v, Floor)
         /\ v = NoVersion /\ manifest.tested = NoSpec => \A w \in S : ~IsPrerelease(w) => Less(w, Floor)
<1> DEFINE p == ParseManifest(LinesOf(manifest))
           E == Eligibles(S)
<1>1. /\ p.min = {Floor}
      /\ manifest.tested = NoSpec => p.gt = {} /\ p.exact = {} /\ p.tested = {} /\ p.malformed = FALSE
      BY FloorRead
<1>2. E = IF p.malformed THEN {} ELSE Eligible(p, WantsPrerelease(p), S)
      BY DEF Eligibles
<1> HIDE DEF p
<1>3. E \subseteq S /\ S \subseteq Version /\ IsFiniteSet(S)
      BY <1>2, BuildAssumption DEF Eligible
<1>4. \A w \in E : ~Less(w, Floor)
      BY <1>1, <1>2 DEF Eligible, ConstraintAllows
<1>5. manifest.tested = NoSpec => \A w \in S : ~IsPrerelease(w) /\ ~Less(w, Floor) => w \in E
      BY <1>1, <1>2 DEF Eligible, ConstraintAllows
<1> HIDE DEF E
<1>6. /\ Newest(E) = NoVersion <=> E = {}
      /\ E # {} => Newest(E) \in E
      BY <1>3, FS_Subset, NewestExists
<1> QED
      BY <1>4, <1>5, <1>6 DEF E

(* A DSL that the runtime refuses has a list of nothing but separators         *)
(* (lib.rs:472-606).                                                         *)
LEMMA RefusedHasEmpty ==
  ASSUME GrantInv, phase \in Packed, ~Accepted(ExpandPermissions(manifest.dsl, manifest.base))
  PROVE  EmptyList
<1>1. /\ project \in Project /\ cmd \in {"build", "run"} /\ IsFlags(flags) /\ Valid
      /\ manifest.dsl = Wanted /\ Base = manifest.base
      BY DEF GrantInv, Packed, Base
<1> DEFINE E == ExpandPermissions(manifest.dsl, manifest.base)
<1>2. PICK c \in Category : E.allow[c] # {} /\ ~HasItems(E.allow[c])
      BY DEF Accepted, NoLine
<1>3. E.allow[c] = Anchored(manifest.dsl.allow[c], c)
      BY <1>1 DEF ExpandPermissions, ExpandLines, Anchored
<1>4. manifest.dsl.allow[c] \subseteq Items
      BY <1>1, WantedSays DEF DslSays
<1>5. [text |-> ".", at |-> "launch"] \in Places
      BY DEF Places
<1>6. manifest.dsl.allow[c] # {} /\ ~HasItems(manifest.dsl.allow[c])
      BY <1>2, <1>3, <1>4, <1>5, LineReaches
<1> QED
      BY <1>6 DEF HasItems, EmptyList

(* Every step keeps the requirement that the embedded files need.            *)
LEMMA FloorStep == ASSUME GrantInv, FloorInv, [BuildNext]_buildVars PROVE FloorInv'
<1>0. /\ phase \in Packed \cup {"running"} /\ cmd = "build" =>
           /\ {"runtime", "tested", "channel"} \subseteq DOMAIN manifest
           /\ ~explicit => manifest.runtime = AtLeast(Floor)
           /\ phase # "embed" => needs \subseteq Capabilities
      /\ phase = "running" /\ cmd = "build" /\ ~explicit => ~Less(launched.tuple, Floor)
      BY DEF FloorInv
<1>d. phase \in Packed => cmd = "build" /\ {"dsl", "base"} \subseteq DOMAIN manifest
      BY DEF GrantInv
<1>n. ASSUME phase' \notin Packed \cup {"running"} PROVE FloorInv'
      BY <1>n DEF FloorInv, Packed
<1>1. ASSUME NEW t \in Token, ReadArg(t) PROVE FloorInv'
  <2>1. phase' \in {"args", "failed"}
        BY <1>1 DEF ReadArg, Fail
  <2> QED
        BY <1>n, <2>1 DEF Packed
<1>2. CASE ValidateArgs
  <2>1. phase' \in {"manifest", "start", "failed"}
        BY <1>2 DEF ValidateArgs, Fail
  <2> QED
        BY <1>n, <2>1 DEF Packed
<1>3. CASE ResolveManifest
  <2>1. cmd' = cmd /\ (phase' = "failed" \/ phase' = "embed")
        BY <1>3 DEF ResolveManifest, Fail
  <2>2. ASSUME phase' = "embed"
        PROVE  /\ {"runtime", "tested", "channel"} \subseteq DOMAIN manifest'
               /\ ~explicit' => manifest'.runtime = AtLeast(Floor)
    <3> DEFINE runtime == First(flags.runtime, ConfigRuntime, NoSpec)
               rt == First(runtime, AtLeast(Floor), NoSpec)
    <3>1. explicit' = (runtime # NoSpec)
          BY <1>3, <2>2 DEF ResolveManifest, Fail
    <3>m. ASSUME NEW r, NEW t, NEW b, NEW d, NEW x,
                 manifest' = [[runtime |-> r, tested |-> t, base |-> b, channel |-> "none", dsl |-> d, requires |-> {}]
                                 EXCEPT !.channel = x]
          PROVE  {"runtime", "tested", "channel"} \subseteq DOMAIN manifest' /\ manifest'.runtime = r
          BY <3>m
    <3>2. {"runtime", "tested", "channel"} \subseteq DOMAIN manifest' /\ manifest'.runtime = rt
          BY <1>3, <2>2, <3>m DEF ResolveManifest, Fail
    <3>3. ~explicit' => rt = AtLeast(Floor)
          BY <3>1 DEF rt, First
    <3> QED
          BY <3>2, <3>3
  <2> QED
        BY <1>n, <2>1, <2>2 DEF FloorInv, Packed
<1>4. CASE EmbedPackages
  <2>1. UNCHANGED <<cmd, phase, manifest, explicit, needs, launched>>
        BY <1>4 DEF EmbedPackages, buildOnly
  <2> QED
        BY <2>1 DEF FloorInv, EmptyList
<1>5. ASSUME NEW native \in BOOLEAN, Pack(native) PROVE FloorInv'
  <2>1. phase = "embed" /\ phase' \in {"create", "failed"} /\ UNCHANGED <<cmd, explicit>>
        BY <1>5 DEF Pack, Fail
  <2>2. needs' \subseteq Capabilities
        BY <1>5 DEF Pack, Capabilities
  <2>3. PICK n : manifest' = [manifest EXCEPT !.requires = n, !.runtime = IF explicit THEN @ ELSE AtLeast(Floor)]
        BY <1>5 DEF Pack
  <2>4. {"runtime", "tested", "channel"} \subseteq DOMAIN manifest
        BY <1>0, <1>d, <2>1 DEF Packed
  <2>5. DOMAIN manifest' = DOMAIN manifest /\ (~explicit => manifest'.runtime = AtLeast(Floor))
        BY <2>3, <2>4
  <2> QED
        BY <1>n, <2>1, <2>2, <2>4, <2>5 DEF FloorInv, Packed
<1>6. CASE CreateTemp \/ WriteTemp \/ RenameTemp \/ Killed
  <2>1. UNCHANGED <<cmd, manifest, explicit, needs, launched>> /\ phase \in Packed
        BY <1>6 DEF CreateTemp, WriteTemp, RenameTemp, Killed, Packed
  <2>2. phase' = "failed" \/ (phase # "embed" /\ phase' \in {"write", "rename", "built"})
        BY <1>6 DEF CreateTemp, WriteTemp, RenameTemp, Killed, Fail
  <2> QED
        BY <1>0, <1>d, <1>n, <2>1, <2>2 DEF FloorInv, Packed
<1>7. ASSUME NEW S \in Store, Launch(S) PROVE FloorInv'
  <2> DEFINE v == Newest(Eligibles(S))
             dsl == ExpandPermissions(manifest.dsl, manifest.base)
  <2>1. UNCHANGED <<cmd, manifest, explicit, needs>> /\ phase = "built"
        BY <1>7 DEF Launch
  <2>2. /\ launched' = [dsl |-> dsl, tuple |-> v, of |-> S]
        /\ \/ phase' = "running" /\ v # NoVersion
           \/ phase' = "refused" /\ (v = NoVersion \/ ~Accepted(dsl))
        BY <1>7 DEF Launch
  <2>3. ~Accepted(dsl) => EmptyList
        BY <2>1, RefusedHasEmpty DEF Packed
  <2>4. EmptyList' <=> EmptyList
        BY <2>1 DEF EmptyList
  <2>5. /\ cmd = "build" /\ {"runtime", "tested", "channel"} \subseteq DOMAIN manifest
        /\ ~explicit => manifest.runtime = AtLeast(Floor)
        /\ needs \subseteq Capabilities
        BY <1>0, <1>d, <2>1 DEF Packed
  <2>6. manifest.runtime = AtLeast(Floor) =>
          /\ v # NoVersion => ~Less(v, Floor)
          /\ v = NoVersion /\ manifest.tested = NoSpec => \A w \in S : ~IsPrerelease(w) => Less(w, Floor)
        BY FloorMet
  <2> HIDE DEF v, dsl
  <2>7. launched'.tuple = v /\ launched'.of = S
        BY <2>2
  <2> QED
        BY <2>1, <2>2, <2>3, <2>4, <2>5, <2>6, <2>7 DEF FloorInv, Packed
<1>8. ASSUME NEW S \in Store, RunDirectly(S) PROVE FloorInv'
  <2>1. cmd' = "run" /\ phase' \in {"running", "failed"}
        BY <1>8 DEF RunDirectly, Fail, GrantInv
  <2> QED
        BY <2>1 DEF FloorInv, Packed
<1>9. CASE UNCHANGED buildVars
  <2>1. UNCHANGED <<cmd, phase, manifest, explicit, needs, launched>>
        BY <1>9 DEF buildVars, buildOnly
  <2> QED
        BY <2>1 DEF FloorInv, EmptyList
<1> QED
      BY <1>1, <1>2, <1>3, <1>4, <1>5, <1>6, <1>7, <1>8, <1>9 DEF BuildNext

-----------------------------------------------------------------------------
(* A tuple that is chosen has the capabilities, and one is chosen if one has *)
(* them.                                                                     *)
LEMMA FloorImplies == ASSUME FloorInv PROVE StartsAsBuilt
<1>1. \A v : Has(v) = IF Less(v, Floor) THEN {} ELSE Capabilities
      BY DEF Has, Capabilities
<1>2. phase = "running" /\ cmd = "build" /\ ~explicit => needs \subseteq Has(launched.tuple)
      BY <1>1 DEF FloorInv
<1>3. phase = "refused" =>
       \/ explicit \/ manifest.tested # NoSpec
       \/ \A v \in launched.of : ~IsPrerelease(v) => Has(v) = {}
       \/ EmptyList
      BY <1>1 DEF FloorInv
<1> QED
      BY <1>2, <1>3 DEF StartsAsBuilt

(* An artifact whose runtime was not named runs only on tuples with every    *)
(* capability its files need, and is refused by no store with such a tuple   *)
(* but for a requirement of its own or a list of nothing but separators      *)
(* (build.rs:340-366, 541-581, launcher main.rs:397-448).                    *)
THEOREM BuiltStarts ==
  ASSUME NEW graphs, NEW externals
  PROVE  BuildInit(graphs, externals) /\ [][BuildNext]_buildVars => []StartsAsBuilt
<1>1. BuildInit(graphs, externals) => GrantInv /\ FloorInv
  <2>1. BuildInit(graphs, externals) => phase = "args"
        BY DEF BuildInit
  <2> QED
        BY <2>1, GrantInit DEF FloorInv, Packed
<1>2. GrantInv /\ FloorInv /\ [BuildNext]_buildVars => (GrantInv /\ FloorInv)'
      BY GrantStep, FloorStep
<1>3. GrantInv /\ FloorInv => StartsAsBuilt
      BY FloorImplies
<1> QED
      BY <1>1, <1>2, <1>3, PTL

(* The temporary file while it is being made.                                *)
TempInv ==
  /\ phase \in {"args", "manifest", "start", "embed", "create"} => tmp = "none"
  /\ phase = "write" => tmp = "part"
  /\ phase = "rename" => tmp = "new"

(* A step of the command is a step of the replaced file, or leaves it alone. *)
LEMMA TempStep ==
  ASSUME TempInv, [BuildNext]_buildVars
  PROVE  TempInv' /\ [Output!Next]_(Output!fileVars)
<1> DEFINE Goal == TempInv' /\ [Output!Next]_(Output!fileVars)
<1>u. ASSUME UNCHANGED <<tmp, out>>,
             phase' = phase \/ phase' \in {"running", "refused", "failed", "built"}
               \/ (phase \in {"args", "manifest", "embed"} /\ phase' \in {"manifest", "start", "embed", "create"})
      PROVE  Goal
      BY <1>u DEF TempInv, Output!fileVars
<1>1. ASSUME NEW t \in Token, ReadArg(t) PROVE Goal
      BY <1>1, <1>u DEF ReadArg, Fail
<1>2. CASE ValidateArgs
      BY <1>2, <1>u DEF ValidateArgs, Fail
<1>3. CASE ResolveManifest
      BY <1>3, <1>u DEF ResolveManifest, Fail
<1>4. CASE EmbedPackages
      BY <1>4, <1>u DEF EmbedPackages, buildOnly
<1>5. ASSUME NEW native \in BOOLEAN, Pack(native) PROVE Goal
      BY <1>5, <1>u DEF Pack, Fail
<1>6. CASE CreateTemp
      BY <1>6 DEF CreateTemp, Fail, TempInv, Output!fileVars
<1>7. CASE WriteTemp
      BY <1>7 DEF WriteTemp, Fail, TempInv, Output!fileVars, Output!Next, Output!Finish
<1>8. CASE RenameTemp
      BY <1>8 DEF RenameTemp, Fail, TempInv, Output!fileVars, Output!Next, Output!Publish, Output!GiveUp
<1>9. CASE Killed
      BY <1>9, <1>u DEF Killed, Fail
<1>10. ASSUME NEW S \in Store, Launch(S) \/ RunDirectly(S) PROVE Goal
      BY <1>10, <1>u DEF Launch, RunDirectly, Fail
<1>11. CASE UNCHANGED buildVars
      BY <1>11, <1>u DEF buildVars, buildOnly
<1> QED
      BY <1>1, <1>2, <1>3, <1>4, <1>5, <1>6, <1>7, <1>8, <1>9, <1>10, <1>11 DEF BuildNext

(* A build is an implementation of AtomicFile: the output path holds what it *)
(* held or a finished artifact, in every run and after every failure         *)
(* (build.rs:462-499).                                                       *)
THEOREM OutputReplaced ==
  ASSUME NEW graphs, NEW externals
  PROVE  BuildInit(graphs, externals) /\ [][BuildNext]_buildVars => ReplacesAtomically
<1>1. BuildInit(graphs, externals) => TempInv /\ Output!Init
      BY DEF BuildInit, TempInv, Output!Init
<1> QED
      BY <1>1, TempStep, PTL DEF ReplacesAtomically, Output!Spec

(* EmbeddedResolves, for every graph of packages and every list of them:     *)
(* whatever an artifact embeds finds each dependency, in the version it      *)
(* found in the project (embed.rs:118-170).                                  *)
THEOREM PackagesResolve ==
  ASSUME NEW graphs, NEW externals, \A d \in graphs : IsGraph(d), externals \subseteq Seq(Folder)
  PROVE  BuildInit(graphs, externals) /\ [][BuildNext]_buildVars => []EmbeddedResolves
<1>1. BuildInit(graphs, externals) => EmbedInv
      BY EmbedStarts DEF BuildInit
<1>2. [BuildNext]_buildVars => [EmbedNext]_embedVars
  <2>1. EmbedPackages => EmbedNext
        BY DEF EmbedPackages
  <2>2. \A t \in Token : ReadArg(t) => UNCHANGED embedVars
        BY DEF ReadArg
  <2>3. \A native \in BOOLEAN : Pack(native) => UNCHANGED embedVars
        BY DEF Pack
  <2>4. \A S \in Store : Launch(S) \/ RunDirectly(S) => UNCHANGED embedVars
        BY DEF Launch, RunDirectly
  <2>5. ValidateArgs \/ ResolveManifest \/ CreateTemp \/ WriteTemp \/ RenameTemp \/ Killed => UNCHANGED embedVars
        BY DEF ValidateArgs, ResolveManifest, CreateTemp, WriteTemp, RenameTemp, Killed
  <2>6. UNCHANGED buildVars => UNCHANGED embedVars
        BY DEF buildVars
  <2> QED
        BY <2>1, <2>2, <2>3, <2>4, <2>5, <2>6 DEF BuildNext
<1>3. EmbedInv /\ [EmbedNext]_embedVars => EmbedInv'
      BY EmbedStep
<1>4. EmbedInv => EmbeddedResolves
      BY EmbedImplies
<1> QED
      BY <1>1, <1>2, <1>3, <1>4, PTL

-----------------------------------------------------------------------------
(***************************************************************************)
(* `inka desktop`, for any number of app directories, builds and deaths.    *)
(* Up to here a command has not touched what it found in the directory but  *)
(* for the staging directory; from "backend" to "reserve" that is gone; and *)
(* from the clearing to the self-extracting form the marker says whose the  *)
(* directory is.                                                           *)
(***************************************************************************)

Filling == {"clear backend", "remove backend", "publish backend"}
Sharing == {"clear shared", "remove shared", "publish shared"}
Staged == {"payload", "bundle", "outputs", "collect"}
Collected == {"backend", "download", "shim", "reserve", "refused"} \cup Filling
Early == {"idle", "failed", "dead"} \cup Staged \cup Collected
Marked == {"stage", "ensure", "mark shared", "link", "linking", "pack", "rename", "version"} \cup Sharing
Label == Early \cup Marked \cup {"done", "clear", "mark", "own", "compress", "thin", "thin launcher", "artifacts"}

(* A directory: contents under names.                                        *)
Directory == UNION {[S -> Content] : S \in SUBSET DirEntry}

TreesTypeOK ==
  /\ ships \in {Runtime, {}}
  /\ stored \in [Cache -> [Tree -> SUBSET CacheItem]]
  /\ name \in [Cache -> Tree \cup {None}]
  /\ mine \in [App -> Tree \cup {None}] /\ rm \in [App -> Tree \cup {None}]

DirsTypeOK ==
  /\ pc \in [App -> Label]
  /\ dir \in [App -> Directory \cup {None}]
  /\ packed \in [App -> Directory \cup {None}]
  /\ listing \in [App -> SUBSET CacheItem]
  /\ opt \in [App -> Option \cup {PlainOption}]

(* What a command has found in its directory or made there.                  *)
DirInv(a) ==
  /\ OwnFile(a) => Entries(a) \subseteq {"user", "staging"} /\ pc[a] \in Early
  /\ pc[a] \in Staged => "staging" \in Entries(a)
  /\ pc[a] \in {"mark", "thin"} => dir[a] # None
  /\ pc[a] \in Collected => "staging" \notin Entries(a) \/ a \in cut
  /\ pc[a] \in Marked => dir[a] # None /\ ("marker" \in Entries(a) \/ a \in cut)
  /\ pc[a] = "thin launcher" => "payload" \in Entries(a)
  /\ \/ Entries(a) \subseteq {"staging"} \/ a \in cut
     \/ {"user", "payload", "marker", "version"} \cap Entries(a) # {}
  /\ At(a, "refused") => {"user", "payload"} \cap Entries(a) # {} \/ a \in cut

PackageTypeOK == TreesTypeOK /\ DirsTypeOK
PackageInv == PackageTypeOK /\ \A a \in App : DirInv(a)

(* A directory is none but its names, and has what was laid into it.         *)
LEMMA Directories ==
  ASSUME NEW d, d \in Directory
  PROVE  /\ d # None /\ DOMAIN d \subseteq DirEntry
         /\ \A S \in SUBSET DOMAIN d : Restrict(d, S) \in Directory /\ DOMAIN Restrict(d, S) = S
                                       /\ \A n \in S : Restrict(d, S)[n] = d[n]
         /\ \A n \in DirEntry, w \in Content :
              /\ Laid(d, n, w) \in Directory /\ DOMAIN Laid(d, n, w) = DOMAIN d \cup {n}
              /\ Laid(d, n, w)[n] = w /\ \A m \in DOMAIN d \ {n} : Laid(d, n, w)[m] = d[m]
<1>1. PICK T \in SUBSET DirEntry : d \in [T -> Content]
      BY DEF Directory
<1>2. d # None
      BY <1>1, PackageAssumption
<1>3. DOMAIN d = T /\ \A n \in T : d[n] \in Content
      BY <1>1
<1>4. ASSUME NEW S \in SUBSET DOMAIN d
      PROVE  Restrict(d, S) \in Directory /\ DOMAIN Restrict(d, S) = S /\ \A n \in S : Restrict(d, S)[n] = d[n]
  <2>1. Restrict(d, S) \in [S -> Content]
        BY <1>3 DEF Restrict
  <2> QED
        BY <1>3, <2>1 DEF Directory, Restrict
<1>5. ASSUME NEW n \in DirEntry, NEW w \in Content
      PROVE  /\ Laid(d, n, w) \in Directory /\ DOMAIN Laid(d, n, w) = DOMAIN d \cup {n}
             /\ Laid(d, n, w)[n] = w /\ \A m \in DOMAIN d \ {n} : Laid(d, n, w)[m] = d[m]
  <2>1. Laid(d, n, w) \in [DOMAIN d \cup {n} -> Content]
        BY <1>3 DEF Laid
  <2>2. DOMAIN d \cup {n} \in SUBSET DirEntry
        BY <1>3
  <2> QED
        BY <2>1, <2>2 DEF Directory, Laid
<1> QED
      BY <1>2, <1>3, <1>4, <1>5

(* The same of every directory.                                              *)
LEMMA Layings ==
  /\ \A d \in Directory, n \in DirEntry, w \in Content :
       Laid(d, n, w) \in Directory /\ DOMAIN Laid(d, n, w) = DOMAIN d \cup {n}
  /\ \A d \in Directory : \A S \in SUBSET DOMAIN d :
       Restrict(d, S) \in Directory /\ DOMAIN Restrict(d, S) = S
  /\ None \notin Directory
BY Directories

(* Names and contents that are laid into one.                                *)
LEMMA Known ==
  /\ "staging" \in DirEntry /\ "marker" \in DirEntry /\ "launcher" \in DirEntry /\ "version" \in DirEntry
  /\ "entry" \in DirEntry /\ "payload" \in DirEntry /\ "exe" \in DirEntry /\ "so" \in DirEntry /\ "lib" \in DirEntry
  /\ "payload" \in Content /\ "marker" \in Content /\ "backend" \in Content /\ "tuple" \in Content
  /\ "entry" \in Content /\ "archive" \in Content /\ "torn" \in Content /\ "script" \in Content
  /\ "shim" \in Content /\ "link" \in Content
BY DEF DirEntry, CacheItem, Runtime, Content

(* A directory that was cleared.                                             *)
LEMMA Bare == EmptyDir \in Directory /\ DOMAIN EmptyDir = {}
<1>1. EmptyDir \in [{} -> Content]
      BY DEF EmptyDir
<1> QED
      BY <1>1 DEF Directory, EmptyDir

(* A step of one command moves it alone.                                     *)
LEMMA Moves ==
  ASSUME DirsTypeOK, NEW a \in App, NEW l \in Label, Goto(a, l)
  PROVE  pc' \in [App -> Label] /\ pc'[a] = l /\ \A b \in App \ {a} : pc'[b] = pc[b]
BY DEF DirsTypeOK, Goto

(* What the caches hold are items of theirs.                                 *)
LEMMA HeldItems ==
  ASSUME TreesTypeOK, NEW c \in Cache
  PROVE  Held(c) \subseteq CacheItem
BY DEF TreesTypeOK, Held

-----------------------------------------------------------------------------
(* A tree aside is one no command has, or the step is not taken.             *)
LEMMA FreshTree ==
  ASSUME NEW a \in App, NEW c \in Cache, NEW items, TreesTypeOK, Fill(a, c, items)
  PROVE  \E t \in Fresh(c) :
           /\ mine' = [mine EXCEPT ![a] = t] /\ stored' = [stored EXCEPT ![c][t] = items]
           /\ Goto(a, Clearing[c]) /\ UNCHANGED <<ships, name, rm>>
<1>1. Fresh(c) # {}
      BY DEF Fill
<1>2. (CHOOSE x \in Fresh(c) : TRUE) \in Fresh(c)
      BY <1>1
<1> QED
      BY <1>2 DEF Fill

(* What a directory holds after a step has changed it; the others hold what  *)
(* they held.                                                                *)
LEMMA Changed ==
  ASSUME TreesTypeOK, NEW c \in Cache, NEW t, NEW X, t \in Tree => X \subseteq CacheItem,
         stored' = [stored EXCEPT ![c][t] = X]
  PROVE  /\ stored' \in [Cache -> [Tree -> SUBSET CacheItem]]
         /\ \A k \in Cache, u \in Tree : stored'[k][u] = IF k = c /\ u = t THEN X ELSE stored[k][u]
<1>1. stored \in [Cache -> [Tree -> SUBSET CacheItem]]
      BY DEF TreesTypeOK
<1>2. stored' = [stored EXCEPT ![c] = [stored[c] EXCEPT ![t] = X]]
      OBVIOUS
<1>3. stored[c] \in [Tree -> SUBSET CacheItem]
      BY <1>1
<1> DEFINE g == [stored[c] EXCEPT ![t] = X]
<1>4. g \in [Tree -> SUBSET CacheItem] /\ \A u \in Tree : g[u] = IF u = t THEN X ELSE stored[c][u]
      BY <1>3
<1> HIDE DEF g
<1>5. stored' = [stored EXCEPT ![c] = g]
      BY <1>2 DEF g
<1> QED
      BY <1>1, <1>4, <1>5

(* What is filled aside is of the cache.                                    *)
LEMMA FillTyped ==
  ASSUME NEW a \in App, NEW c \in Cache, NEW items \in SUBSET CacheItem, TreesTypeOK, Fill(a, c, items)
  PROVE  TreesTypeOK'
<1>1. PICK t \in Fresh(c) :
           /\ mine' = [mine EXCEPT ![a] = t] /\ stored' = [stored EXCEPT ![c][t] = items]
           /\ UNCHANGED <<ships, name, rm>>
      BY FreshTree
<1>2. t \in Tree
      BY DEF Fresh
<1> QED
      BY <1>1, <1>2 DEF TreesTypeOK

(* The two caches, what they hold when whole, and the steps that fill them.  *)
LEMMA CacheSteps ==
  /\ Cache = {"laufey", "cef"}
  /\ Whole["laufey"] = {"exe", "mark"} \cup ships /\ Whole["cef"] = Runtime \cup {"mark"}
  /\ Clearing["laufey"] = "clear backend" /\ Clearing["cef"] = "clear shared"
  /\ Removing["laufey"] = "remove backend" /\ Removing["cef"] = "remove shared"
  /\ Publishing["laufey"] = "publish backend" /\ Publishing["cef"] = "publish shared"
BY DEF Cache, Whole, Clearing, Removing, Publishing

(* The caches keep their types, and hold nothing but items of theirs.        *)
LEMMA TreesStep == ASSUME PackageTypeOK, [PackageNext]_packageVars PROVE TreesTypeOK'
<1> USE DEF PackageTypeOK
<1>u. ASSUME UNCHANGED <<ships, stored, name, mine, rm>> PROVE TreesTypeOK'
      BY <1>u DEF TreesTypeOK
<1>1. ASSUME NEW a \in App, Command(a) PROVE TreesTypeOK'
  <2>1. CASE Start(a) \/ CopyPayload(a) \/ BuildFramework(a) \/ BundleFramework(a) \/ CopyOutputs(a) \/ BuildEntry(a)
             \/ Collect(a) \/ ResolveBackend(a) \/ ResolveShim(a) \/ Reserve(a) \/ Clear(a) \/ MarkDir(a)
        BY <2>1, <1>u DEF Start, CopyPayload, BuildFramework, BundleFramework, CopyOutputs, BuildEntry, Step,
                          Collect, ResolveBackend, ResolveShim, Reserve, Clear, MarkDir
  <2>2. CASE StageBackend(a) \/ ListShared(a) \/ LinkOne(a) \/ Linked(a) \/ OwnCopy(a)
             \/ PackShim(a) \/ RenameBackend(a) \/ WriteVersion(a)
             \/ MoveAside(a) \/ WriteThin(a) \/ WriteLauncher(a) \/ Installer(a) \/ PortableArchive(a)
        BY <2>2, <1>u DEF StageBackend, ListShared, LinkOne, Linked, OwnCopy, PackShim, RenameBackend, WriteVersion,
                          MoveAside, WriteThin, WriteLauncher, Installer, PortableArchive, Step
  <2>3. CASE Download(a)
    <3>1. Whole.laufey \subseteq CacheItem
          BY DEF TreesTypeOK, Whole, CacheItem
    <3>2. CASE Fill(a, "laufey", Whole.laufey)
          BY <3>1, <3>2, FillTyped DEF Cache
    <3> QED
          BY <2>3, <3>2, <1>u DEF Download
  <2>4. CASE EnsureShared(a)
    <3>1. Held("laufey") \cap Runtime \subseteq CacheItem
          BY DEF CacheItem
    <3>2. CASE Fill(a, "cef", Held("laufey") \cap Runtime)
          BY <3>1, <3>2, FillTyped DEF Cache
    <3> QED
          BY <2>4, <3>2, <1>u DEF EnsureShared
  <2>5. CASE MarkShared(a)
    <3> DEFINE t == name["cef"]
               X == stored["cef"][t] \cup {"mark"}
    <3>1. UNCHANGED <<ships, name, mine, rm>> /\ (stored' = stored \/ stored' = [stored EXCEPT !["cef"][t] = X])
          BY <2>5 DEF MarkShared
    <3>2. t \in Tree => X \subseteq CacheItem
          BY DEF TreesTypeOK, Cache, CacheItem
    <3> HIDE DEF t, X
    <3>3. stored' \in [Cache -> [Tree -> SUBSET CacheItem]]
          BY <3>1, <3>2, Changed DEF Cache, TreesTypeOK
    <3> QED
          BY <3>1, <3>3 DEF TreesTypeOK
  <2> QED
        BY <1>1, <2>1, <2>2, <2>3, <2>4, <2>5 DEF Command
<1>2. ASSUME NEW a \in App, NEW c \in Cache, OpenOld(a, c) \/ RemoveItem(a, c) \/ Removed(a, c) PROVE TreesTypeOK'
  <2>1. CASE OpenOld(a, c)
        BY <2>1 DEF OpenOld, TreesTypeOK
  <2>2. CASE RemoveItem(a, c)
    <3>1. PICK i : stored' = [stored EXCEPT ![c][rm[a]] = @ \ {i}]
          BY <2>2 DEF RemoveItem
    <3> DEFINE t == rm[a]
               X == stored[c][t] \ {i}
    <3>2. stored' = [stored EXCEPT ![c][t] = X]
          BY <3>1
    <3>3. t \in Tree => X \subseteq CacheItem
          BY DEF TreesTypeOK
    <3> HIDE DEF t, X
    <3>4. stored' \in [Cache -> [Tree -> SUBSET CacheItem]]
          BY <3>2, <3>3, Changed
    <3>5. UNCHANGED <<ships, name, mine, rm>>
          BY <2>2 DEF RemoveItem
    <3> QED
          BY <3>4, <3>5 DEF TreesTypeOK
  <2>3. CASE Removed(a, c)
        BY <2>3 DEF Removed, TreesTypeOK
  <2> QED
        BY <1>2, <2>1, <2>2, <2>3
<1>3. ASSUME NEW a \in App, NEW c \in Cache, NEW then, NEW else, Publish(a, c, then, else) PROVE TreesTypeOK'
  <2>1. stored' = stored \/ stored' = [stored EXCEPT ![c][mine[a]] = {}]
        BY <1>3 DEF Publish
  <2>2. stored' \in [Cache -> [Tree -> SUBSET CacheItem]]
        BY <2>1, Changed DEF TreesTypeOK
  <2>3. name' = name \/ name' = [name EXCEPT ![c] = mine[a]]
        BY <1>3 DEF Publish
  <2>4. mine' = [mine EXCEPT ![a] = None] /\ UNCHANGED <<ships, rm>>
        BY <1>3 DEF Publish
  <2> QED
        BY <2>2, <2>3, <2>4 DEF TreesTypeOK
<1>4. ASSUME NEW a \in App, Die(a) PROVE TreesTypeOK'
  <2>1. Forget(a) /\ UNCHANGED <<ships, name>>
        BY <1>4 DEF Die
  <2>2. stored' \in [Cache -> [Tree -> SUBSET CacheItem]]
        BY <2>1 DEF Forget, TreesTypeOK
  <2> QED
        BY <2>1, <2>2 DEF Forget, TreesTypeOK
<1>5. CASE UNCHANGED packageVars
      BY <1>5, <1>u DEF packageVars, treeVars
<1> QED
      BY <1>1, <1>2, <1>3, <1>4, <1>5 DEF PackageNext, Replace, PublishBackend, PublishShared, Cache

-----------------------------------------------------------------------------
(* The other directories keep what is known of them.                         *)
LEMMA Elsewhere ==
  ASSUME NEW b, DirInv(b), dir'[b] = dir[b], pc'[b] = pc[b], b \in cut <=> b \in cut'
  PROVE  DirInv(b)'
BY DEF DirInv, OwnFile, Entries, At

(* A step that leaves the directories alone and moves its command no further *)
(* than it may go without them.                                              *)
LEMMA LeavesDirs ==
  ASSUME PackageInv, NEW a \in App, UNCHANGED ownVars, NEW l \in Label, Goto(a, l),
         pc[a] \in Early => l \in Early, l \in Collected => pc[a] \in Collected,
         l \in Marked => pc[a] \in Marked, l \in Staged => pc[a] \in Staged,
         l \notin {"mark", "thin", "thin launcher", "refused"}
  PROVE  DirsTypeOK' /\ \A b \in App : DirInv(b)'
<1>1. UNCHANGED <<dir, listing, opt, packed, cut>>
      BY DEF ownVars
<1>2. pc' \in [App -> Label] /\ pc'[a] = l /\ \A b \in App \ {a} : pc'[b] = pc[b]
      BY Moves DEF PackageInv, PackageTypeOK
<1>3. DirsTypeOK'
      BY <1>1, <1>2 DEF PackageInv, PackageTypeOK, DirsTypeOK
<1>4. Entries(a)' = Entries(a)
      BY <1>1 DEF Entries
<1>5. DirInv(a)
      BY DEF PackageInv
<1>6. DirInv(a)'
      BY <1>1, <1>2, <1>4, <1>5 DEF DirInv, OwnFile, At
<1> QED
      BY <1>1, <1>2, <1>3, <1>6, Elsewhere DEF PackageInv

(* A step that changes one directory.                                        *)
LEMMA ChangesDir ==
  ASSUME PackageInv, NEW a \in App, NEW d, dir' = [dir EXCEPT ![a] = d], d = None \/ d \in Directory,
         NEW l \in Label, Goto(a, l) \/ (UNCHANGED pc /\ l = pc[a]),
         \A b \in App \ {a} : b \in cut <=> b \in cut',
         listing' \in [App -> SUBSET CacheItem], opt' \in [App -> Option \cup {PlainOption}],
         packed' = packed \/ \E p : packed' = [packed EXCEPT ![a] = p] /\ (p = None \/ p \in Directory),
         LET E == IF d = None THEN {} ELSE DOMAIN d IN
           /\ "user" \in E => E \subseteq {"user", "staging"} /\ l \in Early
           /\ l \in Staged => "staging" \in E
           /\ l \in {"mark", "thin"} => d # None
           /\ l \in Collected => "staging" \notin E \/ a \in cut'
           /\ l \in Marked => d # None /\ ("marker" \in E \/ a \in cut')
           /\ l = "thin launcher" => "payload" \in E
           /\ E \subseteq {"staging"} \/ a \in cut' \/ {"user", "payload", "marker", "version"} \cap E # {}
           /\ l = "refused" => {"user", "payload"} \cap E # {} \/ a \in cut'
  PROVE  DirsTypeOK' /\ \A b \in App : DirInv(b)'
<1>0. DirsTypeOK /\ \A b \in App : DirInv(b)
      BY DEF PackageInv, PackageTypeOK
<1>1. pc' \in [App -> Label] /\ pc'[a] = l /\ \A b \in App \ {a} : pc'[b] = pc[b]
      BY <1>0, Moves DEF DirsTypeOK
<1>2. dir' \in [App -> Directory \cup {None}] /\ dir'[a] = d /\ \A b \in App \ {a} : dir'[b] = dir[b]
      BY <1>0 DEF DirsTypeOK
<1>3. packed' \in [App -> Directory \cup {None}]
      BY <1>0 DEF DirsTypeOK
<1>4. DirsTypeOK'
      BY <1>0, <1>1, <1>2, <1>3 DEF DirsTypeOK
<1>5. Entries(a)' = IF d = None THEN {} ELSE DOMAIN d
      BY <1>2 DEF Entries
<1>6. DirInv(a)'
      BY <1>1, <1>2, <1>5 DEF DirInv, OwnFile, At
<1> QED
      BY <1>0, <1>1, <1>2, <1>4, <1>6, Elsewhere

(* What is known of a directory before a step.                               *)
LEMMA Before ==
  ASSUME PackageInv, NEW a \in App
  PROVE  /\ dir[a] = None \/ dir[a] \in Directory
         /\ Entries(a) = IF dir[a] = None THEN {} ELSE DOMAIN dir[a]
         /\ pc[a] \in Marked => dir[a] \in Directory /\ ("marker" \in DOMAIN dir[a] \/ a \in cut)
         /\ pc[a] \in Label \ Early => "user" \notin Entries(a)
         /\ listing \in [App -> SUBSET CacheItem] /\ opt \in [App -> Option \cup {PlainOption}]
BY DEF PackageInv, PackageTypeOK, DirsTypeOK, Entries, DirInv, OwnFile

(* A step that leaves the directories and moves its command on.              *)
LEMMA KeepsDir ==
  ASSUME PackageInv, NEW a \in App, UNCHANGED <<dir, opt, packed, cut>>, NEW l \in Label, Goto(a, l),
         listing' \in [App -> SUBSET CacheItem],
         OwnFile(a) => l \in Early,
         l \in Staged => "staging" \in Entries(a),
         l \in {"mark", "thin"} => dir[a] # None,
         l \in Collected => "staging" \notin Entries(a) \/ a \in cut,
         l \in Marked => dir[a] # None /\ ("marker" \in Entries(a) \/ a \in cut),
         l = "thin launcher" => "payload" \in Entries(a),
         l = "refused" => {"user", "payload"} \cap Entries(a) # {} \/ a \in cut
  PROVE  DirsTypeOK' /\ \A b \in App : DirInv(b)'
<1>1. dir' = [dir EXCEPT ![a] = dir[a]]
      BY DEF PackageInv, PackageTypeOK, DirsTypeOK
<1>2. DirInv(a)
      BY DEF PackageInv
<1>3. opt' \in [App -> Option \cup {PlainOption}] /\ (dir[a] = None \/ dir[a] \in Directory)
      BY Before
<1> DEFINE d == dir[a]
           E == IF d = None THEN {} ELSE DOMAIN d
<1>4. E = Entries(a)
      BY DEF Entries
<1>5. "user" \in E => E \subseteq {"user", "staging"} /\ l \in Early
      BY <1>2, <1>4 DEF DirInv, OwnFile
<1>6. E \subseteq {"staging"} \/ a \in cut' \/ {"user", "payload", "marker", "version"} \cap E # {}
      BY <1>2, <1>4 DEF DirInv
<1> QED
      BY <1>1, <1>3, <1>4, <1>5, <1>6, ChangesDir

(* A clearing that is cut short leaves some of what was there, and the        *)
(* directory is remembered when nothing of that says whose it is.            *)
LEMMA ClearsLess ==
  ASSUME NEW a \in App, dir[a] \in Directory, ClearsPart(a)
  PROVE  \E kept \in SUBSET DOMAIN dir[a] :
           /\ dir' = [dir EXCEPT ![a] = Restrict(dir[a], kept)]
           /\ cut' = cut \/ cut' = cut \cup {a}
           /\ kept = {} \/ a \in cut' \/ {"marker", "version"} \cap kept # {}
<1>1. Entries(a) = DOMAIN dir[a]
      BY Directories DEF Entries
<1>2. PICK said \in SUBSET (Entries(a) \cap Telling), rest \in {{}, Entries(a) \ Telling} :
        /\ dir' = [dir EXCEPT ![a] = Restrict(dir[a], said \cup rest)]
        /\ cut' = IF Unmarked(said \cup rest) THEN cut \cup {a} ELSE cut
      BY DEF ClearsPart
<1>3. said \cup rest \in SUBSET DOMAIN dir[a]
      BY <1>1
<1> QED
      BY <1>2, <1>3 DEF Unmarked

(* So a step that clears a part and ends keeps what is known.                *)
LEMMA ClearsDir ==
  ASSUME PackageInv, NEW a \in App, dir[a] # None, ClearsPart(a), "user" \notin Entries(a),
         NEW l \in {"failed", "dead"}, Goto(a, l), UNCHANGED <<opt, packed>>, listing' \in [App -> SUBSET CacheItem]
  PROVE  DirsTypeOK' /\ \A b \in App : DirInv(b)'
<1>1. dir[a] \in Directory /\ Entries(a) = DOMAIN dir[a]
      BY Before
<1>2. PICK kept \in SUBSET DOMAIN dir[a] :
           /\ dir' = [dir EXCEPT ![a] = Restrict(dir[a], kept)]
           /\ cut' = cut \/ cut' = cut \cup {a}
           /\ kept = {} \/ a \in cut' \/ {"marker", "version"} \cap kept # {}
      BY <1>1, ClearsLess
<1> DEFINE d == Restrict(dir[a], kept)
<1>3. d \in Directory /\ DOMAIN d = kept /\ d # None
      BY <1>1, Directories
<1> HIDE DEF d
<1>4. dir' = [dir EXCEPT ![a] = d]
      BY <1>2 DEF d
<1>5. "user" \notin DOMAIN d /\ \A b \in App \ {a} : b \in cut <=> b \in cut'
      BY <1>1, <1>2, <1>3
<1>6. opt' \in [App -> Option \cup {PlainOption}] /\ packed' = packed
      BY Before
<1>7. l \in Label /\ l \notin Collected \cup Staged \cup Marked \cup {"mark", "thin", "thin launcher", "refused"}
      BY DEF Label, Early, Collected, Staged, Marked, Filling, Sharing
<1>8. DOMAIN d \subseteq {"staging"} \/ a \in cut' \/ {"user", "payload", "marker", "version"} \cap DOMAIN d # {}
      BY <1>2, <1>3
<1> QED
      BY <1>3, <1>4, <1>5, <1>6, <1>7, <1>8, ChangesDir

(* Every step of every command keeps what is known of the directories.       *)
LEMMA DirsStep ==
  ASSUME PackageInv, [PackageNext]_packageVars
  PROVE  DirsTypeOK' /\ \A b \in App : DirInv(b)'
<1> DEFINE Goal == DirsTypeOK' /\ \A b \in App : DirInv(b)'
<1> USE DEF Label, Staged, Early, Collected, Marked, Filling, Sharing
<1>1. ASSUME NEW a \in App, Start(a) PROVE Goal
  <2> DEFINE e == IF dir[a] = None THEN EmptyDir ELSE dir[a]
             d == Laid(e, "staging", "payload")
  <2>1. pc[a] \in Resting /\ dir' = [dir EXCEPT ![a] = d] /\ Goto(a, "payload") /\ UNCHANGED <<listing, cut>>
        BY <1>1 DEF Start
  <2>2. d \in Directory /\ DOMAIN d = Entries(a) \cup {"staging"} /\ d # None
    <3>1. e \in Directory /\ DOMAIN e = Entries(a)
          BY Before, Bare
    <3> HIDE DEF e
    <3>2. d \in Directory /\ DOMAIN d = DOMAIN e \cup {"staging"}
          BY <3>1, Directories, Known
    <3> QED
          BY <3>1, <3>2, Directories
  <2>3. opt' \in [App -> Option \cup {PlainOption}]
        BY <1>1, Before DEF Start
  <2>4. packed' = [packed EXCEPT ![a] = EmptyDir] /\ EmptyDir \in Directory
        BY <1>1, Bare DEF Start
  <2>5. DirInv(a)
        BY DEF PackageInv
  <2> HIDE DEF d
  <2>6. /\ "user" \in DOMAIN d => DOMAIN d \subseteq {"user", "staging"}
        /\ DOMAIN d \subseteq {"staging"} \/ a \in cut' \/ {"user", "payload", "marker", "version"} \cap DOMAIN d # {}
        BY <2>1, <2>2, <2>5 DEF DirInv, OwnFile
  <2> QED
        BY <2>1, <2>2, <2>3, <2>4, <2>6, Before, ChangesDir
<1>2. ASSUME NEW a \in App, CopyPayload(a) \/ BuildFramework(a) \/ BundleFramework(a) \/ CopyOutputs(a) \/ BuildEntry(a)
               \/ ResolveShim(a) \/ Installer(a) \/ PortableArchive(a)
      PROVE  Goal
  <2>1. UNCHANGED ownVars
        BY <1>2 DEF CopyPayload, BuildFramework, BundleFramework, CopyOutputs, BuildEntry, ResolveShim, Installer,
                    PortableArchive, Step
  <2>2. \/ pc[a] \in {"payload", "bundle", "outputs"} /\ \E l \in {"bundle", "outputs", "collect", "failed"} : Goto(a, l)
        \/ pc[a] = "shim" /\ \E l \in {"reserve", "failed"} : Goto(a, l)
        \/ pc[a] = "artifacts" /\ \E l \in {"done", "failed"} : Goto(a, l)
        BY <1>2 DEF CopyPayload, BuildFramework, BundleFramework, CopyOutputs, BuildEntry, ResolveShim, Installer,
                    PortableArchive, Step, At
  <2> QED
        BY <2>1, <2>2, LeavesDirs
<1>3. ASSUME NEW a \in App, Collect(a) PROVE Goal
  <2>1. pc[a] = "collect" /\ UNCHANGED <<listing, opt, packed, builds, kills>>
        BY <1>3 DEF Collect, At
  <2>2. CASE Goto(a, "failed") /\ UNCHANGED <<dir, cut>>
        BY <2>1, <2>2, LeavesDirs DEF ownVars
  <2>4. CASE UNCHANGED dir /\ Goto(a, "backend") /\ cut' = cut \cup {a}
    <3>1. DirInv(a) /\ dir' = [dir EXCEPT ![a] = dir[a]]
          BY <2>4 DEF PackageInv, PackageTypeOK, DirsTypeOK
    <3> DEFINE d == dir[a]
    <3>2. Entries(a) = IF d = None THEN {} ELSE DOMAIN d
          BY DEF Entries
    <3>3. "user" \in Entries(a) => Entries(a) \subseteq {"user", "staging"}
          BY <3>1 DEF DirInv, OwnFile
    <3>4. d = None \/ d \in Directory
          BY Before
    <3> HIDE DEF d
    <3> QED
          BY <2>1, <2>4, <3>1, <3>2, <3>3, <3>4, Before, ChangesDir DEF d
  <2>3. CASE Drop(a, "staging") /\ Goto(a, "backend") /\ UNCHANGED cut
    <3> DEFINE d == Restrict(dir[a], DOMAIN dir[a] \ {"staging"})
    <3>1. dir' = [dir EXCEPT ![a] = d]
          BY <2>3 DEF Drop
    <3>2. DirInv(a)
          BY DEF PackageInv
    <3>3. dir[a] \in Directory /\ Entries(a) = DOMAIN dir[a]
          BY <2>1, <3>2, Before DEF DirInv
    <3>4. d \in Directory /\ DOMAIN d = DOMAIN dir[a] \ {"staging"} /\ d # None
          BY <3>3, Directories
    <3> HIDE DEF d
    <3>5. /\ "user" \in DOMAIN d => DOMAIN d \subseteq {"user", "staging"}
          /\ DOMAIN d \subseteq {"staging"} \/ a \in cut' \/ {"user", "payload", "marker", "version"} \cap DOMAIN d # {}
          BY <2>1, <2>3, <3>2, <3>3, <3>4 DEF DirInv, OwnFile
    <3> QED
          BY <2>1, <2>3, <3>1, <3>4, <3>5, Before, ChangesDir
  <2> QED
        BY <1>3, <2>2, <2>3, <2>4 DEF Collect
<1>4. ASSUME NEW a \in App, ResolveBackend(a) \/ Download(a) \/ EnsureShared(a) \/ MarkShared(a) PROVE Goal
  <2>1. UNCHANGED ownVars
        BY <1>4 DEF ResolveBackend, Download, EnsureShared, MarkShared
  <2>2. \/ pc[a] = "backend" /\ \E l \in {"shim", "download"} : Goto(a, l)
        \/ pc[a] = "download" /\ \E l \in {"shim", "clear backend", "failed"} : Goto(a, l)
        \/ pc[a] = "ensure" /\ \E l \in {"link", "clear shared", "own"} : Goto(a, l)
        \/ pc[a] = "mark shared" /\ \E l \in {"link", "own"} : Goto(a, l)
        BY <1>4, CacheSteps DEF ResolveBackend, Download, EnsureShared, MarkShared, Fill, At
  <2> QED
        BY <2>1, <2>2, LeavesDirs
<1>5. ASSUME NEW a \in App, Reserve(a) PROVE Goal
  <2>1. pc[a] = "reserve" /\ UNCHANGED ownVars
        BY <1>5 DEF Reserve, At
  <2>2. UNCHANGED <<dir, listing, opt, packed, cut>> /\ listing' \in [App -> SUBSET CacheItem]
        BY <2>1, Before DEF ownVars
  <2>3. DirInv(a)
        BY DEF PackageInv
  <2>4. CASE Goto(a, "clear") /\ ~(dir[a] # None /\ ~Ours(a) /\ Entries(a) # {})
    <3>1. ~OwnFile(a)
          BY <2>1, <2>3, <2>4 DEF DirInv, OwnFile, Ours, Entries
    <3> QED
          BY <2>2, <2>4, <3>1, KeepsDir
  <2>5. CASE Goto(a, "refused") /\ dir[a] # None /\ ~Ours(a) /\ Entries(a) # {}
    <3>1. ({"user", "payload"} \cap Entries(a) # {} /\ "staging" \notin Entries(a)) \/ a \in cut
          BY <2>1, <2>3, <2>5 DEF DirInv, Ours
    <3> QED
          BY <2>2, <2>5, <3>1, KeepsDir
  <2> QED
        BY <1>5, <2>4, <2>5 DEF Reserve
<1>6. ASSUME NEW a \in App, Clear(a) PROVE Goal
  <2>1. pc[a] = "clear" /\ UNCHANGED <<listing, opt, packed>>
        BY <1>6 DEF Clear, At
  <2>2. CASE dir' = [dir EXCEPT ![a] = EmptyDir] /\ cut' = cut \ {a} /\ Goto(a, "mark")
        BY <2>1, <2>2, Bare, Directories, Before, ChangesDir
  <2>3. CASE dir[a] # None /\ ClearsPart(a) /\ Goto(a, "failed")
    <3>1. "user" \notin Entries(a)
          BY <2>1, Before
    <3> QED
          BY <2>1, <2>3, <3>1, Before, ClearsDir
  <2> QED
        BY <1>6, <2>2, <2>3 DEF Clear
<1>7. ASSUME NEW a \in App, MarkDir(a) PROVE Goal
  <2> DEFINE d == Laid(dir[a], "marker", "marker")
  <2>1. /\ pc[a] = "mark" /\ Goto(a, "stage") /\ UNCHANGED <<listing, opt, packed>>
        /\ \/ dir' = [dir EXCEPT ![a] = d] /\ cut' = cut
           \/ dir' = dir /\ cut' = cut \cup {a}
        BY <1>7 DEF MarkDir, At, Put
  <2>2. dir[a] \in Directory /\ dir[a] # None
    <3>1. dir[a] # None
          BY <2>1 DEF PackageInv, DirInv
    <3> QED
          BY <3>1, Before
  <2>3. d \in Directory /\ DOMAIN d = DOMAIN dir[a] \cup {"marker"} /\ d # None
    <3>1. d \in Directory /\ DOMAIN d = DOMAIN dir[a] \cup {"marker"}
          BY <2>2, Layings, Known
    <3> QED
          BY <3>1, Layings
  <2>4. "user" \notin DOMAIN dir[a]
        BY <2>1, <2>2, Before, Directories
  <2> HIDE DEF d
  <2>5. CASE dir' = [dir EXCEPT ![a] = d] /\ cut' = cut
        BY <2>1, <2>3, <2>4, <2>5, Before, ChangesDir
  <2>6. CASE dir' = dir /\ cut' = cut \cup {a}
    <3> DEFINE e == dir[a]
    <3>1. dir' = [dir EXCEPT ![a] = e]
          BY <2>6 DEF PackageInv, PackageTypeOK, DirsTypeOK
    <3>2. e \in Directory /\ e # None /\ "user" \notin DOMAIN e
          BY <2>2, <2>4
    <3> HIDE DEF e
    <3> QED
          BY <2>1, <2>6, <3>1, <3>2, Before, ChangesDir
  <2> QED
        BY <2>1, <2>5, <2>6
(* From the marking on, entries are laid beside the marker and commands go on. *)
<1>m. ASSUME NEW a \in App, pc[a] \in Marked, NEW n \in DirEntry \ {"user"}, NEW w \in Content, Put(a, n, w),
             NEW l \in (Label \ (Early \ {"failed"})) \ {"thin", "thin launcher"},
             Goto(a, l) \/ (UNCHANGED pc /\ l = pc[a]), listing' \in [App -> SUBSET CacheItem], UNCHANGED <<opt, packed, cut>>
      PROVE  Goal
  <2> DEFINE d == Laid(dir[a], n, w)
  <2>1. dir[a] \in Directory /\ ("marker" \in DOMAIN dir[a] \/ a \in cut)
        BY <1>m, Before
  <2>2. d \in Directory /\ DOMAIN d = DOMAIN dir[a] \cup {n} /\ d # None
        BY <2>1, Directories
  <2>3. "user" \notin DOMAIN dir[a]
        BY <1>m, <2>1, Before, Directories
  <2>4. dir' = [dir EXCEPT ![a] = d]
        BY <1>m DEF Put
  <2> HIDE DEF d
  <2> QED
        BY <1>m, <2>1, <2>2, <2>3, <2>4, Before, ChangesDir
<1>n. ASSUME NEW a \in App, pc[a] \in Marked, NEW l \in (Label \ (Early \ {"failed"})) \ {"thin", "thin launcher", "mark"},
             Goto(a, l), listing' \in [App -> SUBSET CacheItem], UNCHANGED <<dir, opt, packed, cut>>
      PROVE  Goal
  <2>1. ("marker" \in Entries(a) \/ a \in cut) /\ dir[a] # None /\ ~OwnFile(a)
        BY <1>n DEF PackageInv, DirInv, OwnFile, Entries
  <2> QED
        BY <1>n, <2>1, KeepsDir
<1>8. ASSUME NEW a \in App, StageBackend(a) PROVE Goal
  <2>1. pc[a] = "stage" /\ UNCHANGED <<listing, opt, packed, cut>>
        BY <1>8 DEF StageBackend, At
  <2>2. CASE \E l \in {"ensure", "failed"} : Goto(a, l) /\ UNCHANGED dir
        BY <2>1, <2>2, <1>n, Before
  <2>3. CASE PlaceExe(a) /\ Goto(a, "pack")
        BY <2>1, <2>3, <1>m, Before DEF PlaceExe, DirEntry, CacheItem, Content
  <2> QED
        BY <1>8, <2>2, <2>3 DEF StageBackend
<1>9. ASSUME NEW a \in App, ListShared(a) PROVE Goal
  <2>1. pc[a] = "link" /\ UNCHANGED <<dir, opt, packed, cut>>
        BY <1>9 DEF ListShared, At
  <2>2. listing' \in [App -> SUBSET CacheItem]
    <3>1. Held("cef") \ {"mark"} \subseteq CacheItem
          BY HeldItems DEF Cache, PackageInv, PackageTypeOK
    <3>2. listing' = listing \/ listing' = [listing EXCEPT ![a] = Held("cef") \ {"mark"}]
          BY <1>9 DEF ListShared
    <3> QED
          BY <3>1, <3>2, Before
  <2>3. \E l \in {"own", "linking"} : Goto(a, l)
        BY <1>9 DEF ListShared
  <2> QED
        BY <2>1, <2>2, <2>3, <1>n
<1>10. ASSUME NEW a \in App, LinkOne(a) PROVE Goal
  <2>1. PICK i \in listing[a] :
          \/ Put(a, i, "link") /\ listing' = [listing EXCEPT ![a] = @ \ {i}] /\ UNCHANGED pc
          \/ Goto(a, "own") /\ UNCHANGED <<dir, listing>>
        BY <1>10 DEF LinkOne
  <2>2. pc[a] = "linking" /\ UNCHANGED <<opt, packed, cut>>
        BY <1>10 DEF LinkOne, At
  <2>3. listing \in [App -> SUBSET CacheItem]
        BY Before
  <2>4. CASE Put(a, i, "link") /\ listing' = [listing EXCEPT ![a] = @ \ {i}] /\ UNCHANGED pc
    <3>1. i \in DirEntry \ {"user"} /\ "link" \in Content
          BY <2>3 DEF DirEntry, CacheItem, Runtime, Content
    <3>2. listing' \in [App -> SUBSET CacheItem]
          BY <2>3, <2>4
    <3> QED
          BY <2>2, <2>4, <3>1, <3>2, <1>m
  <2>5. CASE Goto(a, "own") /\ UNCHANGED <<dir, listing>>
        BY <2>2, <2>3, <2>5, <1>n
  <2> QED
        BY <2>1, <2>4, <2>5
<1>11. ASSUME NEW a \in App, Linked(a) PROVE Goal
  <2>1. pc[a] = "linking" /\ UNCHANGED <<listing, opt, packed, cut>>
        BY <1>11 DEF Linked, At
  <2>2. CASE Goto(a, "own") /\ UNCHANGED dir
        BY <2>1, <2>2, <1>n, Before
  <2>3. CASE PlaceExe(a) /\ Goto(a, "pack")
        BY <2>1, <2>3, <1>m, Before DEF PlaceExe, DirEntry, CacheItem, Content
  <2> QED
        BY <1>11, <2>2, <2>3 DEF Linked
<1>12. ASSUME NEW a \in App, OwnCopy(a) PROVE Goal
  <2>1. UNCHANGED <<opt, packed>> /\ listing' \in [App -> SUBSET CacheItem]
        BY <1>12, Before DEF OwnCopy
  <2> DEFINE e(got) == Restrict(Copied(a), got)
             d(got) == Laid(e(got), "marker", "marker")
  <2>2. PICK got \in {{}, DOMAIN Copied(a)}, l \in {"failed", "pack"} :
          /\ Goto(a, l)
          /\ \/ dir' = [dir EXCEPT ![a] = d(got)] /\ cut' = cut
             \/ dir' = [dir EXCEPT ![a] = e(got)] /\ cut' = cut \cup {a}
        BY <1>12 DEF OwnCopy, CopyEnds
  <2> HIDE DEF d
  <2>3. e(got) \in Directory /\ "user" \notin DOMAIN e(got)
    <3>1. Copied(a) \in [Held("laufey") \ {"mark"} -> Content]
          BY DEF Copied, Content
    <3>2. Held("laufey") \ {"mark"} \subseteq DirEntry \ {"user"}
          BY HeldItems DEF Cache, PackageInv, PackageTypeOK, DirEntry, CacheItem, Runtime
    <3>3. Copied(a) \in Directory /\ "user" \notin DOMAIN Copied(a)
          BY <3>1, <3>2 DEF Directory
    <3>4. got \in SUBSET DOMAIN Copied(a)
          BY <2>2
    <3> QED
          BY <3>3, <3>4, Directories
  <2> HIDE DEF e
  <2>4. d(got) \in Directory /\ DOMAIN d(got) = DOMAIN e(got) \cup {"marker"}
        BY <2>3, Directories, Known DEF d
  <2>6. d(got) # None /\ e(got) # None
        BY <2>3, <2>4, Directories
  <2>7. l \in Label /\ l \notin Collected /\ l \notin Staged /\ l \notin {"mark", "thin", "thin launcher", "refused"}
        BY <2>2
  <2>8. "user" \notin DOMAIN d(got) /\ "marker" \in DOMAIN d(got)
        BY <2>3, <2>4
  <2>9. \A b \in App \ {a} : b \in cut <=> b \in cut'
        BY <2>2
  <2>10. opt' \in [App -> Option \cup {PlainOption}] /\ packed' = packed
        BY <2>1, Before
  <2> HIDE DEF Label, Early, Collected, Staged, Marked
  <2>11. CASE dir' = [dir EXCEPT ![a] = d(got)] /\ cut' = cut
        BY <2>1, <2>2, <2>4, <2>6, <2>7, <2>8, <2>9, <2>10, <2>11, ChangesDir
  <2>12. CASE dir' = [dir EXCEPT ![a] = e(got)] /\ cut' = cut \cup {a}
        BY <2>1, <2>2, <2>3, <2>6, <2>7, <2>9, <2>10, <2>12, ChangesDir
  <2> QED
        BY <2>2, <2>11, <2>12
<1>13. ASSUME NEW a \in App, PackShim(a) PROVE Goal
  <2>1. pc[a] = "pack" /\ UNCHANGED <<listing, opt, packed, cut>>
        BY <1>13 DEF PackShim, At
  <2>2. CASE Goto(a, "failed") /\ UNCHANGED dir
        BY <2>1, <2>2, <1>n, Before
  <2>3. CASE Put(a, So(a), "shim") /\ Goto(a, "rename")
    <3>1. So(a) \in DirEntry \ {"user"}
      <4>1. opt[a] \in Option \cup {PlainOption}
            BY Before
      <4>2. So(a) \in {"so", "lib"}
            BY <4>1, PackageAssumption DEF So, PlainOption
      <4> QED
            BY <4>2, Known
    <3> QED
          BY <2>1, <2>3, <3>1, <1>m, Before DEF Content
  <2> QED
        BY <1>13, <2>2, <2>3 DEF PackShim
<1>14. ASSUME NEW a \in App, RenameBackend(a) PROVE Goal
  <2> DEFINE e == Restrict(dir[a], DOMAIN dir[a] \ {"exe"})
             d == Laid(e, "launcher", "backend")
  <2>1. /\ pc[a] = "rename" /\ UNCHANGED <<listing, opt, packed, cut>>
        /\ \/ dir' = [dir EXCEPT ![a] = d] /\ Goto(a, "version")
           \/ UNCHANGED dir /\ Goto(a, "failed")
        BY <1>14 DEF RenameBackend, At
  <2>2. dir[a] \in Directory /\ ("marker" \in DOMAIN dir[a] \/ a \in cut) /\ "user" \notin DOMAIN dir[a]
        BY <2>1, Before, Directories
  <2>3. e \in Directory /\ DOMAIN e = DOMAIN dir[a] \ {"exe"}
        BY <2>2, Directories
  <2> HIDE DEF e
  <2>4. d \in Directory /\ DOMAIN d = DOMAIN e \cup {"launcher"} /\ d # None
        BY <2>3, Directories, Known
  <2> HIDE DEF d
  <2>5. CASE dir' = [dir EXCEPT ![a] = d] /\ Goto(a, "version")
        BY <2>1, <2>2, <2>3, <2>4, <2>5, Before, ChangesDir
  <2>6. CASE UNCHANGED dir /\ Goto(a, "failed")
        BY <2>1, <2>6, <1>n, Before
  <2> QED
        BY <2>1, <2>5, <2>6
<1>15. ASSUME NEW a \in App, WriteVersion(a) PROVE Goal
  <2> DEFINE e(some) == IF some THEN Laid(dir[a], "version", "tuple") ELSE dir[a]
             d(some) == Laid(e(some), "entry", "entry")
  <2>1. PICK some \in BOOLEAN : dir' = [dir EXCEPT ![a] = d(some)]
        BY <1>15 DEF WriteVersion
  <2>2. /\ pc[a] = "version" /\ \E l \in {"compress", "artifacts"} : Goto(a, l)
        /\ UNCHANGED <<listing, opt, packed, cut>>
        BY <1>15 DEF WriteVersion, At
  <2>3. dir[a] \in Directory /\ ("marker" \in DOMAIN dir[a] \/ a \in cut) /\ "user" \notin DOMAIN dir[a]
        BY <2>2, Before, Directories
  <2>4. e(some) \in Directory /\ ("marker" \in DOMAIN e(some) \/ a \in cut) /\ "user" \notin DOMAIN e(some)
    <3>1. Laid(dir[a], "version", "tuple") \in Directory
          /\ DOMAIN Laid(dir[a], "version", "tuple") = DOMAIN dir[a] \cup {"version"}
          BY <2>3, Directories, Known
    <3> QED
          BY <2>3, <3>1
  <2> HIDE DEF e
  <2>5. d(some) \in Directory /\ DOMAIN d(some) = DOMAIN e(some) \cup {"entry"} /\ d(some) # None
        BY <2>4, Directories, Known
  <2> HIDE DEF d
  <2> QED
        BY <2>1, <2>2, <2>4, <2>5, Before, ChangesDir
<1>16. ASSUME NEW a \in App, MoveAside(a) PROVE Goal
  <2>1. /\ dir' = [dir EXCEPT ![a] = EmptyDir] /\ Goto(a, "thin")
        /\ packed' = [packed EXCEPT ![a] = dir[a]] /\ UNCHANGED <<listing, opt, cut>>
        BY <1>16 DEF MoveAside
  <2> QED
        BY <2>1, Bare, Directories, Before, ChangesDir
<1>17. ASSUME NEW a \in App, WriteThin(a) PROVE Goal
  <2>1. pc[a] = "thin" /\ UNCHANGED <<listing, opt, cut>>
        BY <1>17 DEF WriteThin, At
  <2>2. dir[a] # None /\ dir[a] \in Directory /\ "user" \notin DOMAIN dir[a]
        BY <2>1, Before DEF PackageInv, DirInv
  <2>3. packed' = packed \/ packed' = [packed EXCEPT ![a] = EmptyDir]
        BY <1>17 DEF WriteThin
  <2>4. CASE Goto(a, "failed") /\ UNCHANGED dir
    <3>1. dir' = [dir EXCEPT ![a] = dir[a]]
          BY <2>4 DEF PackageInv, PackageTypeOK, DirsTypeOK
    <3>2. \/ DOMAIN dir[a] \subseteq {"staging"} \/ a \in cut'
          \/ {"user", "payload", "marker", "version"} \cap DOMAIN dir[a] # {}
          BY <2>1, <2>2, Before DEF PackageInv, DirInv
    <3> QED
          BY <2>1, <2>2, <2>3, <2>4, <3>1, <3>2, Bare, Before, ChangesDir
  <2>5. ASSUME NEW w \in {"archive", "torn"}, Put(a, "payload", w), NEW l \in {"thin launcher", "failed"}, Goto(a, l)
        PROVE  Goal
    <3> DEFINE d == Laid(dir[a], "payload", w)
    <3>1. dir' = [dir EXCEPT ![a] = d]
          BY <2>5 DEF Put
    <3>2. w \in Content
          BY <2>5, Known
    <3>3. d \in Directory /\ DOMAIN d = DOMAIN dir[a] \cup {"payload"} /\ d # None
      <4>1. d \in Directory /\ DOMAIN d = DOMAIN dir[a] \cup {"payload"}
            BY <2>2, <3>2, Layings, Known
      <4> QED
            BY <4>1, Directories
    <3> HIDE DEF d
    <3> QED
          BY <2>1, <2>2, <2>3, <2>5, <3>1, <3>3, Bare, Before, ChangesDir
  <2> QED
        BY <1>17, <2>4, <2>5 DEF WriteThin
<1>18. ASSUME NEW a \in App, WriteLauncher(a) PROVE Goal
  <2>1. pc[a] = "thin launcher" /\ UNCHANGED <<listing, opt, packed, cut>>
        BY <1>18 DEF WriteLauncher, At
  <2>2. "payload" \in Entries(a) /\ ~OwnFile(a)
        BY <2>1 DEF PackageInv, DirInv
  <2>3. CASE Goto(a, "failed") /\ UNCHANGED dir
        BY <2>1, <2>2, <2>3, Before, KeepsDir
  <2>4. CASE Put(a, "launcher", "script") /\ Goto(a, "artifacts")
    <3> DEFINE d == Laid(dir[a], "launcher", "script")
    <3>1. dir[a] \in Directory /\ DOMAIN dir[a] = Entries(a)
          BY <2>2, Before
    <3>2. d \in Directory /\ DOMAIN d = DOMAIN dir[a] \cup {"launcher"} /\ d # None
          BY <3>1, Directories, Known
    <3>3. dir' = [dir EXCEPT ![a] = d]
          BY <2>4 DEF Put
    <3> HIDE DEF d
    <3> QED
          BY <2>1, <2>2, <2>4, <3>1, <3>2, <3>3, Before, ChangesDir DEF OwnFile
  <2> QED
        BY <1>18, <2>3, <2>4 DEF WriteLauncher
<1>19. ASSUME NEW a \in App, Replace(a) \/ PublishBackend(a) \/ PublishShared(a) PROVE Goal
  <2>1. UNCHANGED ownVars
        BY <1>19 DEF Replace, PublishBackend, PublishShared
  <2>2. CASE UNCHANGED pc
        BY <2>1, <2>2 DEF ownVars, PackageInv, PackageTypeOK, DirsTypeOK, DirInv, OwnFile, Entries, At
  <2>3. CASE \/ pc[a] \in Filling /\ \E l \in Filling \cup {"shim", "failed"} : Goto(a, l)
             \/ pc[a] \in Sharing /\ \E l \in Sharing \cup {"mark shared", "own"} : Goto(a, l)
        BY <2>1, <2>3, LeavesDirs
  <2>4. ASSUME NEW c \in Cache, OpenOld(a, c) \/ RemoveItem(a, c) \/ Removed(a, c) PROVE Goal
    <3>1. CASE RemoveItem(a, c)
          BY <3>1, <2>2 DEF RemoveItem
    <3>2. CASE OpenOld(a, c) \/ Removed(a, c)
          BY <3>2, <2>3, CacheSteps DEF OpenOld, Removed, At
    <3> QED
          BY <2>4, <3>1, <3>2
  <2>5. CASE PublishBackend(a) \/ PublishShared(a)
        BY <2>5, <2>3, CacheSteps DEF PublishBackend, PublishShared, Publish, At
  <2> QED
        BY <1>19, <2>4, <2>5 DEF Replace
<1>20. ASSUME NEW a \in App, Die(a) PROVE Goal
  <2>1. Goto(a, "dead") /\ UNCHANGED <<opt, packed>> /\ pc[a] \in Label /\ listing' \in [App -> SUBSET CacheItem]
        BY <1>20, Before DEF Die, PackageInv, PackageTypeOK, DirsTypeOK
  <2>2. CASE UNCHANGED <<dir, cut>>
        BY <2>1, <2>2, KeepsDir
  <2>3. CASE pc[a] \in {"clear", "own"} /\ dir[a] # None /\ ClearsPart(a)
    <3>1. "user" \notin Entries(a)
          BY <2>3, Before
    <3> QED
          BY <2>1, <2>3, <3>1, ClearsDir
  <2> QED
        BY <1>20, <2>2, <2>3 DEF Die
<1>21. CASE UNCHANGED packageVars
      BY <1>21 DEF packageVars, treeVars, ownVars, PackageInv, PackageTypeOK, DirsTypeOK, DirInv, OwnFile, Entries, At
<1> QED
      BY <1>1, <1>2, <1>3, <1>4, <1>5, <1>6, <1>7, <1>8, <1>9, <1>10, <1>11, <1>12, <1>13, <1>14, <1>15, <1>16, <1>17,
         <1>18, <1>19, <1>20, <1>21 DEF PackageNext, Command

(* No cache is filled, and a directory is missing or the user's.             *)
LEMMA PackageStarts == ASSUME PackageInit PROVE PackageInv
<1>1. TreesTypeOK
      BY DEF PackageInit, TreesInit, TreesTypeOK
<1> DEFINE own == Laid(EmptyDir, "user", "own")
<1>2. own \in Directory /\ DOMAIN own = {"user"}
  <2>1. "user" \in DirEntry /\ "own" \in Content
        BY DEF DirEntry, Content
  <2>2. own \in Directory
        BY <2>1, Bare, Layings
  <2>3. DOMAIN own = DOMAIN EmptyDir \cup {"user"}
        BY <2>1, Bare, Layings
  <2> QED
        BY <2>2, <2>3, Bare
<1>3. dir \in [App -> {None, own}] /\ packed = [a \in App |-> EmptyDir] /\ pc = [a \in App |-> "idle"]
      BY DEF PackageInit, TreesInit
<1> HIDE DEF own
<1>4. DirsTypeOK
  <2>1. pc \in [App -> Label]
        BY <1>3 DEF Label, Early
  <2>2. dir \in [App -> Directory \cup {None}] /\ packed \in [App -> Directory \cup {None}]
        BY <1>2, <1>3, Bare
  <2>3. listing \in [App -> SUBSET CacheItem] /\ opt \in [App -> Option \cup {PlainOption}]
        BY DEF PackageInit
  <2> QED
        BY <2>1, <2>2, <2>3 DEF DirsTypeOK
<1>5. ASSUME NEW a \in App PROVE DirInv(a)
  <2>1. Entries(a) \subseteq {"user"} /\ pc[a] = "idle"
        BY <1>2, <1>3 DEF Entries
  <2> QED
        BY <2>1 DEF DirInv, OwnFile, At, Early, Collected, Staged, Marked, Filling, Sharing
<1> QED
      BY <1>1, <1>4, <1>5 DEF PackageInv, PackageTypeOK

(* Every step of every command keeps the invariant.                          *)
LEMMA PackageStep == ASSUME PackageInv, [PackageNext]_packageVars PROVE PackageInv'
BY TreesStep, DirsStep DEF PackageInv, PackageTypeOK

(* What the user has in a directory is left by every step of every command.  *)
LEMMA UserStep ==
  ASSUME PackageInv, PackageInv', [PackageNext]_packageVars, NEW a \in App, OwnFile(a)
  PROVE  OwnFile(a)' /\ (At(a, "refused")' => Entries(a)' = {"user"} \/ a \in cut')
<1>0. /\ dir[a] \in Directory /\ dir[a] # None /\ Entries(a) = DOMAIN dir[a] /\ "user" \in DOMAIN dir[a]
      /\ pc[a] \in Early
      /\ dir \in [App -> Directory \cup {None}]
  <2>1. dir[a] # None /\ Entries(a) = DOMAIN dir[a] /\ "user" \in DOMAIN dir[a]
        BY DEF OwnFile, Entries
  <2> QED
        BY <2>1 DEF PackageInv, PackageTypeOK, DirsTypeOK, DirInv
<1> USE DEF Early, Staged, Collected, Filling
<1>u. dir'[a] = dir[a] => OwnFile(a)'
      BY DEF OwnFile, Entries
<1>p. ASSUME NEW b \in App, NEW n, NEW w, Put(b, n, w), pc[b] \notin Early PROVE OwnFile(a)'
      BY <1>0, <1>p, <1>u DEF Put
<1>o. ASSUME NEW b \in App, NEW d, dir' = [dir EXCEPT ![b] = d], pc[b] \notin Early PROVE OwnFile(a)'
      BY <1>0, <1>o, <1>u
<1>1. ASSUME NEW b \in App, Start(b) PROVE OwnFile(a)'
  <2> DEFINE d == Laid(IF dir[b] = None THEN EmptyDir ELSE dir[b], "staging", "payload")
  <2>1. dir' = [dir EXCEPT ![b] = d]
        BY <1>1 DEF Start
  <2>2. CASE b # a
        BY <1>0, <1>u, <2>1, <2>2
  <2>3. CASE b = a
    <3>1. dir'[a] = Laid(dir[a], "staging", "payload")
          BY <1>0, <2>1, <2>3
    <3>2. Laid(dir[a], "staging", "payload") \in Directory
          BY <1>0, Layings, Known
    <3>3. DOMAIN Laid(dir[a], "staging", "payload") = DOMAIN dir[a] \cup {"staging"}
          BY <1>0, Layings, Known
    <3> QED
          BY <1>0, <3>1, <3>2, <3>3, Layings DEF OwnFile, Entries
  <2> QED
        BY <2>2, <2>3
<1>2. ASSUME NEW b \in App, Collect(b) PROVE OwnFile(a)'
  <2> DEFINE d == Restrict(dir[b], DOMAIN dir[b] \ {"staging"})
  <2>1. dir' = dir \/ dir' = [dir EXCEPT ![b] = d]
        BY <1>2 DEF Collect, Drop
  <2>2. CASE b # a \/ dir' = dir
        BY <1>0, <1>u, <2>1, <2>2
  <2>3. CASE b = a /\ dir' # dir
    <3>1. dir'[a] = Restrict(dir[a], DOMAIN dir[a] \ {"staging"})
          BY <1>0, <2>1, <2>3
    <3> DEFINE S == DOMAIN dir[a] \ {"staging"}
    <3>2. S \in SUBSET DOMAIN dir[a]
          OBVIOUS
    <3>3. Restrict(dir[a], S) \in Directory /\ DOMAIN Restrict(dir[a], S) = S
          BY <1>0, <3>2, Directories
    <3> QED
          BY <1>0, <3>1, <3>3, Layings DEF OwnFile, Entries
  <2> QED
        BY <2>2, <2>3
<1>3. ASSUME UNCHANGED dir PROVE OwnFile(a)'
      BY <1>3, <1>u
<1>4. ASSUME NEW b \in App, Command(b) PROVE OwnFile(a)'
  <2>1. CASE CopyPayload(b) \/ BuildFramework(b) \/ BundleFramework(b) \/ CopyOutputs(b) \/ BuildEntry(b)
             \/ ResolveBackend(b) \/ Download(b) \/ ResolveShim(b) \/ Reserve(b)
             \/ EnsureShared(b) \/ MarkShared(b) \/ ListShared(b) \/ Installer(b) \/ PortableArchive(b)
        BY <1>3, <2>1 DEF CopyPayload, BuildFramework, BundleFramework, CopyOutputs, BuildEntry, ResolveBackend, Download,
             ResolveShim, Reserve, EnsureShared, MarkShared, ListShared, Installer, PortableArchive, Step, ownVars
  <2>2. CASE Clear(b) \/ OwnCopy(b) \/ RenameBackend(b) \/ WriteVersion(b) \/ MoveAside(b)
        BY <1>3, <1>o, <2>2 DEF Clear, ClearsPart, OwnCopy, RenameBackend, WriteVersion, MoveAside, At
  <2>3. CASE MarkDir(b) \/ StageBackend(b) \/ LinkOne(b) \/ Linked(b) \/ PackShim(b) \/ WriteThin(b) \/ WriteLauncher(b)
        BY <1>3, <1>p, <2>3 DEF MarkDir, StageBackend, LinkOne, Linked, PlaceExe, PackShim, WriteThin, WriteLauncher, At
  <2> QED
        BY <1>1, <1>2, <1>4, <2>1, <2>2, <2>3 DEF Command
<1>5. ASSUME NEW b \in App, Replace(b) \/ PublishBackend(b) \/ PublishShared(b) PROVE OwnFile(a)'
      BY <1>3, <1>5 DEF Replace, PublishBackend, PublishShared, ownVars
<1>6. ASSUME NEW b \in App, Die(b) PROVE OwnFile(a)'
      BY <1>3, <1>6, <1>o DEF Die, ClearsPart
<1>7. ASSUME UNCHANGED packageVars PROVE OwnFile(a)'
      BY <1>3, <1>7 DEF packageVars, ownVars
<1>8. OwnFile(a)'
      BY <1>4, <1>5, <1>6, <1>7 DEF PackageNext
<1>9. At(a, "refused")' => Entries(a)' = {"user"} \/ a \in cut'
      BY <1>8 DEF PackageInv, DirInv, OwnFile, At
<1> QED
      BY <1>8, <1>9

(* RebuildAccepted, for any number of directories, commands, failures and    *)
(* deaths: a command is refused only for what the user owns, where a         *)
(* self-extracting app lies, and where a removal that was cut short or a     *)
(* marker that could not be written left the directory unmarked              *)
(* (desktop.rs:33-35, 1762-1792).                                            *)
THEOREM Rebuilds == PackageSpec => []RebuildAccepted
<1>1. PackageInv => RebuildAccepted
      BY DEF PackageInv, DirInv, RebuildAccepted
<1> QED
      BY PackageStarts, PackageStep, <1>1, PTL DEF PackageSpec

(* UserDirKept, for the same: what is in a directory the user made stays,    *)
(* and a command that is refused leaves nothing beside it                    *)
(* (desktop.rs:1077-1110, 1762-1792).                                        *)
THEOREM UserKeeps == PackageSpec => UserDirKept
<1>1. PackageInv /\ PackageInv' /\ [PackageNext]_packageVars =>
        [\A a \in App : OwnFile(a) =>
           OwnFile(a)' /\ (At(a, "refused")' => Entries(a)' = {"user"} \/ a \in cut')]_packageVars
      BY UserStep
<1> QED
      BY PackageStarts, PackageStep, <1>1, PTL DEF PackageSpec, UserDirKept

-----------------------------------------------------------------------------
(***************************************************************************)
(* One command at a time.  What a cache is trusted for is in it while no    *)
(* other command fills or removes it; and what an app needs to run is in    *)
(* its directory from the staging on.                                      *)
(***************************************************************************)

Alone == \A a, b \in Active : a = b

Backed == {"shim", "reserve", "clear", "mark", "own", "pack"} \cup (Marked \ {"rename", "version"})
Replacing(c) == {Clearing[c], Removing[c], Publishing[c]}
Fills(c) == IF c = "laufey" THEN Whole.laufey ELSE Runtime

(* The caches hold nothing but their items, and all of them when trusted.    *)
CacheInv == (\A c \in Cache, t \in Tree : stored[c][t] \subseteq Whole[c]) /\ TrustedWhole

(* What a command replaces a cache with, and which caches it relies on.      *)
Keeping(a) ==
  /\ \A c \in Cache :
       /\ pc[a] \in Replacing(c) => /\ ~Trusted(c) /\ mine[a] \in Tree \ {name[c]}
                                    /\ stored[c][mine[a]] = Fills(c)
       /\ At(a, Removing[c]) => rm[a] = name[c]
       /\ At(a, Publishing[c]) => Held(c) = {}
  /\ At(a, "download") => ~Trusted("laufey")
  /\ pc[a] \in Backed => Trusted("laufey")
  /\ At(a, "mark shared") => Runtime \subseteq Held("cef")
  /\ pc[a] \in {"link", "linking"} => Trusted("cef")

(* What the backend ships is there, and what an app consists of.             *)
Shipped(d, items) == items \subseteq DOMAIN d /\ \A i \in items : d[i] \in {"copy", "link"}
Works(d, so, items) ==
  d # None /\ {"launcher", so} \subseteq DOMAIN d /\ d["launcher"] = "backend" /\ d[so] = "shim" /\ Shipped(d, items)

NoLinks(d) == d # None => \A n \in DOMAIN d : d[n] # "link"
IsArchived(a) == "payload" \in Entries(a)

(* What a directory holds at each step, and that its links lead somewhere.   *)
RunInv(a) ==
  /\ Trusted("cef") \/ (NoLinks(dir[a]) /\ NoLinks(packed[a]))
  /\ pc[a] \in {"mark", "compress"} \cup Marked => dir[a] # None /\ ~IsArchived(a)
  /\ At(a, "linking") => \A i \in Runtime \ listing[a] : i \in Entries(a) /\ dir[a][i] = "link"
  /\ pc[a] \in {"pack", "rename"} => Shipped(dir[a], ships) /\ "exe" \in Entries(a) /\ dir[a]["exe"] = "backend"
  /\ At(a, "rename") => So(a) \in Entries(a) \ ships /\ dir[a][So(a)] = "shim"
  /\ pc[a] \in {"version", "compress"} => Works(dir[a], So(a), ships)
  /\ pc[a] \in {"thin", "thin launcher"} => Works(packed[a], So(a), ships)
  /\ pc[a] \in {"artifacts", "done"} =>
       IF IsArchived(a) THEN Works(packed[a], So(a), ships) /\ "launcher" \in Entries(a) /\ dir[a]["launcher"] = "script"
       ELSE Works(dir[a], So(a), ships)

RunsInv == PackageInv /\ Alone /\ CacheInv /\ \A a \in App : Keeping(a) /\ RunInv(a)

(* A step of one command leaves the others alone, and only one that rests    *)
(* can start.                                                                *)
Steps(a) == Command(a) \/ Replace(a) \/ PublishBackend(a) \/ PublishShared(a) \/ Die(a)
Own(a) == <<pc[a], dir[a], listing[a], opt[a], packed[a]>>

(* What a step of a command leaves alone.                                    *)
LEMMA Frame ==
  ASSUME PackageInv, NEW a \in App, Steps(a)
  PROVE  /\ (pc[a] \in Resting /\ Start(a)) \/ pc[a] \notin Resting
         /\ ships' = ships
         /\ \A b \in App \ {a} : /\ pc'[b] = pc[b] /\ dir'[b] = dir[b] /\ listing'[b] = listing[b]
                                 /\ opt'[b] = opt[b] /\ packed'[b] = packed[b]
<1> USE DEF Resting
<1>0. /\ pc \in [App -> Label] /\ dir \in [App -> Directory \cup {None}] /\ packed \in [App -> Directory \cup {None}]
      /\ listing \in [App -> SUBSET CacheItem] /\ opt \in [App -> Option \cup {PlainOption}]
      BY DEF PackageInv, PackageTypeOK, DirsTypeOK
<1>1. CASE Start(a)
      BY <1>0, <1>1 DEF Start, Goto
<1>2. CASE CopyPayload(a) \/ BuildFramework(a) \/ BundleFramework(a) \/ CopyOutputs(a) \/ BuildEntry(a) \/ ResolveShim(a)
           \/ Installer(a) \/ PortableArchive(a) \/ ResolveBackend(a) \/ Reserve(a)
      BY <1>0, <1>2 DEF CopyPayload, BuildFramework, BundleFramework, CopyOutputs, BuildEntry, ResolveShim, Installer,
         PortableArchive, ResolveBackend, Reserve, Step, Goto, At, ownVars
<1>3. CASE Collect(a) \/ Clear(a) \/ MarkDir(a) \/ StageBackend(a) \/ ListShared(a) \/ LinkOne(a) \/ Linked(a)
      BY <1>0, <1>3 DEF Collect, Drop, Clear, ClearsPart, MarkDir, StageBackend, PlaceExe, ListShared, LinkOne, Linked, Put, Goto, At
<1>4. CASE OwnCopy(a) \/ PackShim(a) \/ RenameBackend(a) \/ WriteVersion(a)
      BY <1>0, <1>4 DEF OwnCopy, CopyEnds, PackShim, RenameBackend, WriteVersion, Put, Goto, At
<1>5. CASE MoveAside(a) \/ WriteThin(a) \/ WriteLauncher(a)
      BY <1>0, <1>5 DEF MoveAside, WriteThin, WriteLauncher, Put, Goto, At
<1>6. CASE Download(a) \/ EnsureShared(a) \/ MarkShared(a)
      BY <1>0, <1>6, CacheSteps DEF Download, EnsureShared, MarkShared, Fill, Goto, At, ownVars
<1>7. CASE Replace(a)
      BY <1>0, <1>7, CacheSteps DEF Replace, OpenOld, RemoveItem, Removed, Goto, At, ownVars
<1>8. CASE PublishBackend(a) \/ PublishShared(a)
      BY <1>0, <1>8, CacheSteps DEF PublishBackend, PublishShared, Publish, Goto, At, ownVars
<1>9. CASE Die(a)
      BY <1>0, <1>9 DEF Die, ClearsPart, Active, Forget, Goto
<1> QED
      BY <1>1, <1>2, <1>3, <1>4, <1>5, <1>6, <1>7, <1>8, <1>9 DEF Steps, Command

(* The commands take turns.                                                  *)
LEMMA AloneStep ==
  ASSUME PackageInv, Together = 1, Alone, NEW a \in App, Steps(a)
  PROVE  Alone' /\ \A b \in App \ {a} : pc[b] \in Resting /\ pc'[b] \in Resting
<1>1. /\ (pc[a] \in Resting /\ Start(a)) \/ pc[a] \notin Resting
      /\ \A b \in App \ {a} : pc'[b] = pc[b]
      BY Frame
<1>2. ASSUME Start(a) PROVE Active = {}
  <2>1. IsFiniteSet(Active)
        BY PackageAssumption, FS_Subset DEF Active
  <2>2. Cardinality(Active) < 1
        BY <1>2 DEF Start
  <2>3. Cardinality(Active) \in Nat
        BY <2>1, FS_CardinalityType
  <2>4. Cardinality(Active) = 0
        BY <2>2, <2>3
  <2> QED
        BY <2>1, <2>4, FS_EmptySet
<1>3. \A b \in App \ {a} : pc[b] \in Resting
      BY <1>1, <1>2 DEF Alone, Active
<1> QED
      BY <1>1, <1>3 DEF Alone, Active

-----------------------------------------------------------------------------
(* What is trusted, in terms of what is held.                                *)
LEMMA Trusting ==
  /\ Trusted("laufey") <=> "exe" \in Held("laufey")
  /\ Trusted("cef") <=> {"mark", "lib"} \subseteq Held("cef")
  /\ (Trusted("laufey") <=> "exe" \in Held("laufey"))'
  /\ (Trusted("cef") <=> {"mark", "lib"} \subseteq Held("cef"))'
BY DEF Trusted

(* A command that rests relies on no cache.                                  *)
LEMMA RestsKeeping == ASSUME NEW a, pc'[a] \in Resting PROVE Keeping(a)'
BY CacheSteps DEF Keeping, Resting, Replacing, Backed, Marked, Sharing, At

(* A command that is replacing a cache, in terms of that cache.              *)
LEMMA Replaces ==
  ASSUME NEW a, NEW c \in Cache, pc'[a] \in Replacing(c), ~Trusted(c)', c = "cef" => Trusted("laufey")',
         mine'[a] \in Tree \ {name'[c]}, stored'[c][mine'[a]] = Fills(c)',
         pc'[a] = Removing[c] => rm'[a] = name'[c], pc'[a] = Publishing[c] => Held(c)' = {}
  PROVE  Keeping(a)'
<1>1. \A k \in Cache \ {c} : pc'[a] \notin Replacing(k)
      BY CacheSteps DEF Replacing
<1>2. \A k \in Cache : Removing[k] \in Replacing(k) /\ Publishing[k] \in Replacing(k)
      BY DEF Replacing
<1>3. \A k \in Cache : Replacing(k)' = Replacing(k) /\ Removing[k]' = Removing[k] /\ Publishing[k]' = Publishing[k]
      BY DEF Replacing, Removing, Publishing, Clearing
<1>4. \A k \in Cache :
        /\ pc'[a] \in Replacing(k) => /\ ~Trusted(k)' /\ mine'[a] \in Tree \ {name'[k]}
                                     /\ stored'[k][mine'[a]] = Fills(k)'
        /\ pc'[a] = Removing[k] => rm'[a] = name'[k]
        /\ pc'[a] = Publishing[k] => Held(k)' = {}
  <2> SUFFICES ASSUME NEW k \in Cache
               PROVE  /\ pc'[a] \in Replacing(k) => /\ ~Trusted(k)' /\ mine'[a] \in Tree \ {name'[k]}
                                                   /\ stored'[k][mine'[a]] = Fills(k)'
                      /\ pc'[a] = Removing[k] => rm'[a] = name'[k]
                      /\ pc'[a] = Publishing[k] => Held(k)' = {}
      OBVIOUS
  <2>1. CASE k = c
        BY <2>1
  <2>2. CASE k # c
    <3>1. pc'[a] \notin Replacing(k) /\ pc'[a] # Removing[k] /\ pc'[a] # Publishing[k]
          BY <1>1, <1>2, <2>2
    <3> QED
          BY <3>1
  <2> QED
        BY <2>1, <2>2
<1>5. /\ pc'[a] # "download" /\ pc'[a] # "mark shared" /\ pc'[a] \notin {"link", "linking"}
      /\ pc'[a] \in Backed => c = "cef"
      BY CacheSteps DEF Replacing, Backed, Marked, Sharing
<1> QED
      BY <1>3, <1>4, <1>5 DEF Keeping, At

(* A step that leaves the caches alone.                                      *)
LEMMA KeepsStore ==
  ASSUME RunsInv, UNCHANGED <<ships, stored, name, mine, rm>>, NEW a \in App, NEW l \in Label,
         Goto(a, l) \/ (UNCHANGED pc /\ l = pc[a] /\ l \notin Filling \cup Sharing \cup {"mark shared", "download"}),
         l \notin Filling \cup Sharing \cup {"mark shared"},
         l \in Backed => pc[a] \in Backed \/ Trusted("laufey"),
         l = "download" => ~Trusted("laufey"),
         l \in {"link", "linking"} => Trusted("cef")
  PROVE  CacheInv' /\ Keeping(a)' /\ (Trusted("cef") => Trusted("cef")')
<1>1. pc'[a] = l
      BY Moves DEF RunsInv, PackageInv, PackageTypeOK
<1>2. /\ \A c \in Cache : Held(c)' = Held(c)
      /\ Whole' = Whole
      BY DEF Held, Whole
<1>3. \A c \in Cache : Trusted(c)' <=> Trusted(c)
      BY <1>2, Trusting, CacheSteps
<1>4. CacheInv'
      BY <1>2, <1>3 DEF RunsInv, CacheInv, TrustedWhole
<1>5. Keeping(a)
      BY DEF RunsInv
<1>6. l \in Backed => Trusted("laufey")
      BY <1>5 DEF Keeping
<1>7. Keeping(a)'
      BY <1>1, <1>3, <1>6, CacheSteps DEF Keeping, Replacing, Filling, Sharing, At
<1> QED
      BY <1>3, <1>4, <1>7, CacheSteps

(* What a cache holds after the tree of its name, or another one, changed.   *)
LEMMA HeldAfter ==
  ASSUME TreesTypeOK, NEW c \in Cache, NEW t, NEW X, t \in Tree => X \subseteq CacheItem,
         stored' = [stored EXCEPT ![c][t] = X], name' = name
  PROVE  \A k \in Cache : Held(k)' = IF k = c /\ name[c] # None /\ name[c] = t THEN X ELSE Held(k)
<1>1. \A k \in Cache, u \in Tree : stored'[k][u] = IF k = c /\ u = t THEN X ELSE stored[k][u]
      BY Changed
<1>2. \A k \in Cache : name[k] \in Tree \cup {None}
      BY DEF TreesTypeOK
<1> QED
      BY <1>1, <1>2 DEF Held

(* A cache that is not trusted is filled aside.                              *)
LEMMA StoreFill ==
  ASSUME RunsInv, NEW a \in App, NEW c \in Cache, Fill(a, c, Fills(c)), ~Trusted(c),
         c = "cef" => Trusted("laufey")
  PROVE  CacheInv' /\ Keeping(a)' /\ (Trusted("cef") => Trusted("cef")')
<1>0. TreesTypeOK /\ DirsTypeOK /\ CacheInv
      BY DEF RunsInv, PackageInv, PackageTypeOK
<1>1. PICK t \in Fresh(c) :
           /\ mine' = [mine EXCEPT ![a] = t] /\ stored' = [stored EXCEPT ![c][t] = Fills(c)]
           /\ Goto(a, Clearing[c]) /\ UNCHANGED <<ships, name, rm>>
      BY <1>0, FreshTree
<1>2. t \in Tree /\ t # name[c] /\ mine'[a] = t /\ pc'[a] = Clearing[c]
  <2>1. Clearing[c] \in Label
        BY CacheSteps DEF Label, Early, Collected, Marked, Filling, Sharing
  <2> QED
        BY <1>0, <1>1, <2>1, Moves DEF Fresh, TreesTypeOK
<1>3. Fills(c) \subseteq CacheItem /\ Fills(c) \subseteq Whole[c]
      BY <1>0, CacheSteps DEF Fills, CacheItem, TreesTypeOK, Whole
<1>4. \A k \in Cache : Held(k)' = Held(k)
      BY <1>0, <1>1, <1>2, <1>3, HeldAfter
<1>5. \A k \in Cache : Trusted(k)' <=> Trusted(k)
      BY <1>4, Trusting, CacheSteps
<1>6. \A k \in Cache, u \in Tree : stored'[k][u] = IF k = c /\ u = t THEN Fills(c) ELSE stored[k][u]
      BY <1>0, <1>1, <1>3, Changed
<1>7. Whole' = Whole /\ Fills(c)' = Fills(c)
      BY <1>1 DEF Whole, Fills
<1>8. CacheInv'
      BY <1>0, <1>3, <1>4, <1>5, <1>6, <1>7 DEF CacheInv, TrustedWhole
<1>9. stored'[c][t] = Fills(c) /\ name'[c] = name[c]
      BY <1>1, <1>2, <1>6
<1>10. Keeping(a)'
      BY <1>2, <1>5, <1>7, <1>9, CacheSteps, Replaces DEF Replacing
<1> QED
      BY <1>5, <1>8, <1>10, CacheSteps

(* The tree at the name is opened for its removal.                           *)
LEMMA StoreOpens ==
  ASSUME RunsInv, NEW a \in App, NEW c \in Cache, OpenOld(a, c)
  PROVE  CacheInv' /\ Keeping(a)' /\ (Trusted("cef") => Trusted("cef")')
<1>0. TreesTypeOK /\ DirsTypeOK /\ CacheInv /\ Keeping(a)
      BY DEF RunsInv, PackageInv, PackageTypeOK
<1>1. /\ pc[a] = Clearing[c] /\ UNCHANGED <<ships, stored, name, mine>>
      /\ \/ name[c] = None /\ Goto(a, Publishing[c])
         \/ Goto(a, Removing[c]) /\ rm' = [rm EXCEPT ![a] = name[c]]
      BY DEF OpenOld, At
<1>2. /\ \A k \in Cache : Held(k)' = Held(k)
      /\ Whole' = Whole /\ Fills(c)' = Fills(c)
      BY <1>1 DEF Held, Whole, Fills
<1>3. \A k \in Cache : Trusted(k)' <=> Trusted(k)
      BY <1>2, Trusting, CacheSteps
<1>4. CacheInv'
      BY <1>0, <1>1, <1>2, <1>3 DEF CacheInv, TrustedWhole
<1>5. ~Trusted(c) /\ mine[a] \in Tree \ {name[c]} /\ stored[c][mine[a]] = Fills(c)
      BY <1>0, <1>1 DEF Keeping, Replacing
<1>6. {Removing[c], Publishing[c]} \subseteq Label
      BY CacheSteps DEF Label, Early, Collected, Marked, Filling, Sharing
<1>7. c = "cef" => Trusted("laufey")
      BY <1>0, <1>1, CacheSteps DEF Keeping, Backed, Marked, Sharing
<1>8. CASE name[c] = None /\ Goto(a, Publishing[c])
  <2>1. pc'[a] = Publishing[c] /\ Held(c) = {}
        BY <1>0, <1>6, <1>8, Moves DEF Held
  <2>2. stored'[c][mine'[a]] = Fills(c)' /\ mine'[a] = mine[a] /\ name'[c] = name[c]
        BY <1>1, <1>2, <1>5
  <2>3. pc'[a] \in Replacing(c) /\ Removing[c] # Publishing[c]
        BY <2>1, CacheSteps DEF Replacing
  <2>4. ~Trusted(c)' /\ (c = "cef" => Trusted("laufey")')
        BY <1>3, <1>5, <1>7, CacheSteps
  <2>5. Keeping(a)'
        BY <1>2, <1>5, <2>1, <2>2, <2>3, <2>4, Replaces
  <2> QED
        BY <1>3, <1>4, <2>5, CacheSteps
<1>9. CASE Goto(a, Removing[c]) /\ rm' = [rm EXCEPT ![a] = name[c]]
  <2>1. pc'[a] = Removing[c] /\ rm'[a] = name[c]
        BY <1>0, <1>6, <1>9, Moves DEF TreesTypeOK
  <2>2. stored'[c][mine'[a]] = Fills(c)' /\ mine'[a] = mine[a] /\ name'[c] = name[c]
        BY <1>1, <1>2, <1>5
  <2>3. pc'[a] \in Replacing(c) /\ Removing[c] # Publishing[c]
        BY <2>1, CacheSteps DEF Replacing
  <2>4. ~Trusted(c)' /\ (c = "cef" => Trusted("laufey")')
        BY <1>3, <1>5, <1>7, CacheSteps
  <2>5. Keeping(a)'
        BY <1>5, <2>1, <2>2, <2>3, <2>4, Replaces
  <2> QED
        BY <1>3, <1>4, <2>5, CacheSteps
<1> QED
      BY <1>1, <1>8, <1>9

(* Nothing is removed of a cache that is trusted.                            *)
LEMMA StoreRemoves ==
  ASSUME RunsInv, NEW a \in App, NEW c \in Cache, RemoveItem(a, c)
  PROVE  CacheInv' /\ Keeping(a)' /\ (Trusted("cef") => Trusted("cef")')
<1>0. TreesTypeOK /\ DirsTypeOK /\ CacheInv /\ Keeping(a)
      BY DEF RunsInv, PackageInv, PackageTypeOK
<1>1. PICK i : pc[a] = Removing[c] /\ stored' = [stored EXCEPT ![c][rm[a]] = @ \ {i}]
               /\ UNCHANGED <<ships, name, mine, rm, pc>>
      BY DEF RemoveItem, At
<1> DEFINE t == rm[a]
           X == stored[c][t] \ {i}
<1>2. stored' = [stored EXCEPT ![c][t] = X]
      BY <1>1
<1>3. t \in Tree => X \subseteq CacheItem /\ X \subseteq Whole[c]
      BY <1>0 DEF TreesTypeOK, CacheInv
<1>4. t = name[c] /\ ~Trusted(c) /\ mine[a] \in Tree \ {name[c]} /\ stored[c][mine[a]] = Fills(c)
      BY <1>0, <1>1 DEF Keeping, Replacing, At
<1>5. t \in Tree => X \subseteq stored[c][t]
      OBVIOUS
<1> HIDE DEF t, X
<1>6. \A k \in Cache : Held(k)' = IF k = c /\ name[c] # None /\ name[c] = t THEN X ELSE Held(k)
      BY <1>0, <1>1, <1>2, <1>3, HeldAfter
<1>7. \A k \in Cache, u \in Tree : stored'[k][u] = IF k = c /\ u = t THEN X ELSE stored[k][u]
      BY <1>0, <1>2, <1>3, Changed
<1>8. Held(c)' \subseteq Held(c) /\ \A k \in Cache \ {c} : Held(k)' = Held(k)
  <2>1. name[c] \in Tree \cup {None}
        BY <1>0 DEF TreesTypeOK
  <2>2. name[c] # None /\ name[c] = t => X \subseteq Held(c)
        BY <1>5, <2>1 DEF Held
  <2> QED
        BY <1>6, <2>2
<1>9. ~Trusted(c)' /\ \A k \in Cache \ {c} : Trusted(k)' <=> Trusted(k)
      BY <1>4, <1>8, Trusting, CacheSteps
<1>10. Whole' = Whole /\ Fills(c)' = Fills(c)
      BY <1>1 DEF Whole, Fills
<1>11. CacheInv'
      BY <1>0, <1>3, <1>7, <1>8, <1>9, <1>10 DEF CacheInv, TrustedWhole
<1>12. stored'[c][mine[a]] = Fills(c) /\ mine'[a] = mine[a] /\ name'[c] = name[c] /\ pc'[a] = Removing[c] /\ rm'[a] = name[c]
      BY <1>1, <1>4, <1>7 DEF t
<1>13. c = "cef" => Trusted("laufey")'
  <2>1. c = "cef" => Trusted("laufey")
        BY <1>0, <1>1, CacheSteps DEF Keeping, Backed, Marked, Sharing
  <2> QED
        BY <1>9, <2>1, CacheSteps
<1>14. Keeping(a)'
  <2>1. pc'[a] \in Replacing(c) /\ Removing[c] # Publishing[c]
        BY <1>12, CacheSteps DEF Replacing
  <2> QED
        BY <1>4, <1>9, <1>10, <1>12, <1>13, <2>1, Replaces
<1> QED
      BY <1>4, <1>9, <1>11, <1>14, CacheSteps

(* The name is free once what was there is removed.                          *)
LEMMA StoreRemoved ==
  ASSUME RunsInv, NEW a \in App, NEW c \in Cache, Removed(a, c)
  PROVE  CacheInv' /\ Keeping(a)' /\ (Trusted("cef") => Trusted("cef")')
<1>0. TreesTypeOK /\ DirsTypeOK /\ CacheInv /\ Keeping(a)
      BY DEF RunsInv, PackageInv, PackageTypeOK
<1>1. /\ pc[a] = Removing[c] /\ Goto(a, Publishing[c]) /\ UNCHANGED <<ships, stored, mine>>
      /\ name' = [name EXCEPT ![c] = IF name[c] = rm[a] THEN None ELSE name[c]]
      BY DEF Removed, At
<1>2. rm[a] = name[c] /\ ~Trusted(c) /\ mine[a] \in Tree \ {name[c]} /\ stored[c][mine[a]] = Fills(c)
      BY <1>0, <1>1 DEF Keeping, Replacing, At
<1>3. name'[c] = None /\ \A k \in Cache \ {c} : name'[k] = name[k]
      BY <1>0, <1>1, <1>2 DEF TreesTypeOK
<1>4. Held(c)' = {} /\ \A k \in Cache \ {c} : Held(k)' = Held(k)
      BY <1>1, <1>3 DEF Held
<1>5. ~Trusted(c)' /\ \A k \in Cache \ {c} : Trusted(k)' <=> Trusted(k)
      BY <1>4, Trusting, CacheSteps
<1>6. Whole' = Whole /\ Fills(c)' = Fills(c)
      BY <1>1 DEF Whole, Fills
<1>7. CacheInv'
      BY <1>0, <1>1, <1>4, <1>5, <1>6 DEF CacheInv, TrustedWhole
<1>8. pc'[a] = Publishing[c]
  <2>1. Publishing[c] \in Label
        BY CacheSteps DEF Label, Early, Collected, Marked, Filling, Sharing
  <2> QED
        BY <1>0, <1>1, <2>1, Moves
<1>9. c = "cef" => Trusted("laufey")'
  <2>1. c = "cef" => Trusted("laufey")
        BY <1>0, <1>1, CacheSteps DEF Keeping, Backed, Marked, Sharing
  <2> QED
        BY <1>5, <2>1, CacheSteps
<1>10. mine'[a] \in Tree \ {name'[c]} /\ stored'[c][mine'[a]] = Fills(c)'
      BY <1>1, <1>2, <1>3, <1>6, TreesAssumption
<1>11. Keeping(a)'
  <2>1. pc'[a] \in Replacing(c) /\ Removing[c] # Publishing[c]
        BY <1>8, CacheSteps DEF Replacing
  <2> QED
        BY <1>4, <1>5, <1>8, <1>9, <1>10, <2>1, Replaces
<1> QED
      BY <1>2, <1>5, <1>7, <1>11, CacheSteps

(* What was filled aside takes the free name, whole but for the marker.      *)
LEMMA StorePublish ==
  ASSUME RunsInv, NEW a \in App, NEW c \in Cache, NEW then, NEW else, Publish(a, c, then, else),
         then = IF c = "laufey" THEN "shim" ELSE "mark shared"
  PROVE  CacheInv' /\ Keeping(a)' /\ (Trusted("cef") => Trusted("cef")') /\ Goto(a, then)
<1>0. TreesTypeOK /\ DirsTypeOK /\ CacheInv /\ Keeping(a)
      BY DEF RunsInv, PackageInv, PackageTypeOK
<1>1. pc[a] = Publishing[c] /\ Held(c) = {}
      BY <1>0 DEF Publish, Keeping, At
<1>2. ~Trusted(c) /\ mine[a] \in Tree /\ stored[c][mine[a]] = Fills(c)
      BY <1>0, <1>1 DEF Keeping, Replacing
<1>3. name' = [name EXCEPT ![c] = mine[a]] /\ Goto(a, then) /\ UNCHANGED <<stored, ships>>
      BY <1>1 DEF Publish
<1>4. name'[c] = mine[a] /\ \A k \in Cache \ {c} : name'[k] = name[k]
      BY <1>0, <1>3 DEF TreesTypeOK
<1>5. Held(c)' = Fills(c) /\ \A k \in Cache \ {c} : Held(k)' = Held(k)
  <2>1. name'[c] # None
        BY <1>2, <1>4, TreesAssumption
  <2>2. Held(c)' = stored'[c][mine[a]]
        BY <1>4, <2>1 DEF Held
  <2>3. Held(c)' = Fills(c)
        BY <1>2, <1>3, <2>2
  <2>4. ASSUME NEW k \in Cache \ {c} PROVE Held(k)' = Held(k)
    <3>1. stored' = stored /\ name'[k] = name[k]
          BY <1>3, <1>4
    <3> QED
          BY <3>1 DEF Held
  <2> QED
        BY <2>3, <2>4
<1>6. Whole' = Whole /\ (\A k \in Cache \ {c} : Trusted(k)' <=> Trusted(k)) /\ Whole[c] \ {"mark"} \subseteq Fills(c)
      BY <1>3, <1>5, Trusting, CacheSteps DEF Whole, Fills
<1>7. CacheInv'
  <2>1. \A k \in Cache, t \in Tree : stored'[k][t] \subseteq Whole'[k]
        BY <1>0, <1>3, <1>6 DEF CacheInv
  <2>2. \A k \in Cache : Trusted(k)' => Whole[k] \ {"mark"} \subseteq Held(k)'
        BY <1>0, <1>5, <1>6 DEF CacheInv, TrustedWhole
  <2> QED
        BY <1>6, <2>1, <2>2 DEF CacheInv, TrustedWhole
<1>8. pc'[a] = then
  <2>1. then \in Label
        BY DEF Label, Early, Collected, Marked
  <2> QED
        BY <1>0, <1>3, <2>1, Moves
<1>9. CASE c = "laufey"
  <2>1. "exe" \in Held("laufey")' /\ pc'[a] = "shim"
        BY <1>5, <1>8, <1>9, CacheSteps DEF Fills
  <2>2. Trusted("laufey")'
        BY <2>1, Trusting
  <2>3. Keeping(a)'
        BY <2>1, <2>2, CacheSteps DEF Keeping, Replacing, At
  <2> QED
        BY <1>3, <1>6, <1>7, <1>9, <2>3, CacheSteps
<1>10. CASE c = "cef"
  <2>1. Trusted("laufey")
        BY <1>0, <1>1, <1>10, CacheSteps DEF Keeping, Backed, Marked, Sharing
  <2>2. Trusted("laufey")' /\ Held("cef")' = Runtime /\ pc'[a] = "mark shared"
        BY <1>5, <1>6, <1>8, <1>10, <2>1, CacheSteps DEF Fills
  <2>3. Keeping(a)'
        BY <2>2, CacheSteps DEF Keeping, Replacing, At
  <2> QED
        BY <1>2, <1>3, <1>7, <1>10, <2>3
<1> QED
      BY <1>9, <1>10, CacheSteps

(* The marker makes a whole cache one that is trusted.                       *)
LEMMA StoreMark ==
  ASSUME RunsInv, NEW a \in App, MarkShared(a)
  PROVE  CacheInv' /\ Keeping(a)' /\ Trusted("cef")' /\ Goto(a, "link")
<1>0. TreesTypeOK /\ DirsTypeOK /\ CacheInv /\ Keeping(a)
      BY DEF RunsInv, PackageInv, PackageTypeOK
<1>1. pc[a] = "mark shared" /\ Runtime \subseteq Held("cef") /\ Trusted("laufey")
      BY <1>0 DEF MarkShared, Keeping, At, Backed, Marked
<1> DEFINE t == name["cef"]
           X == stored["cef"][t] \cup {"mark"}
<1>2. t # None /\ t \in Tree
      BY <1>0, <1>1 DEF Held, Runtime, TreesTypeOK, Cache
<1>3. stored' = [stored EXCEPT !["cef"][t] = X] /\ Goto(a, "link") /\ UNCHANGED <<ships, name, mine, rm>>
      BY <1>2 DEF MarkShared
<1>4. X = Held("cef") \cup {"mark"}
      BY <1>2 DEF Held
<1>5. X \subseteq CacheItem /\ X \subseteq Whole["cef"]
      BY <1>0, <1>2, CacheSteps DEF TreesTypeOK, CacheInv, CacheItem
<1> HIDE DEF t, X
<1>6. \A k \in Cache, u \in Tree : stored'[k][u] = IF k = "cef" /\ u = t THEN X ELSE stored[k][u]
      BY <1>0, <1>3, <1>5, Changed, CacheSteps
<1>7. \A k \in Cache : Held(k)' = IF k = "cef" /\ name["cef"] # None /\ name["cef"] = t THEN X ELSE Held(k)
      BY <1>0, <1>3, <1>5, HeldAfter, CacheSteps
<1>8. Held("cef")' = X /\ Held("laufey")' = Held("laufey")
      BY <1>2, <1>7, CacheSteps DEF t
<1>9. Trusted("cef")' /\ Trusted("laufey")'
      BY <1>1, <1>4, <1>8, Trusting DEF Runtime
<1>10. Whole' = Whole
      BY <1>3 DEF Whole
<1>11. CacheInv'
  <2>1. \A k \in Cache, u \in Tree : stored'[k][u] \subseteq Whole'[k]
        BY <1>0, <1>5, <1>6, <1>10 DEF CacheInv
  <2>2. \A k \in Cache : Whole[k] \ {"mark"} \subseteq Held(k)'
        BY <1>0, <1>1, <1>4, <1>8, CacheSteps DEF CacheInv, TrustedWhole
  <2> QED
        BY <1>10, <2>1, <2>2 DEF CacheInv, TrustedWhole
<1>12. pc'[a] = "link"
  <2>1. "link" \in Label
        BY DEF Label, Marked
  <2> QED
        BY <1>0, <1>3, <2>1, Moves
<1>13. Keeping(a)'
      BY <1>9, <1>12, CacheSteps DEF Keeping, Replacing, At
<1> QED
      BY <1>3, <1>9, <1>11, <1>13

(* A command that dies leaves what has a name in the caches.                 *)
LEMMA StoreDies ==
  ASSUME RunsInv, NEW a \in App, Die(a)
  PROVE  CacheInv' /\ Keeping(a)' /\ (Trusted("cef") => Trusted("cef")')
<1>0. TreesTypeOK /\ DirsTypeOK /\ CacheInv
      BY DEF RunsInv, PackageInv, PackageTypeOK
<1>1. /\ stored' = [c \in Cache |-> [t \in Tree |-> IF t = mine[a] /\ t # name[c] THEN {} ELSE stored[c][t]]]
      /\ UNCHANGED <<ships, name>> /\ Goto(a, "dead")
      BY DEF Die, Forget
<1>2. \A c \in Cache, t \in Tree : stored'[c][t] = IF t = mine[a] /\ t # name[c] THEN {} ELSE stored[c][t]
      BY <1>1
<1>3. \A c \in Cache : Held(c)' = Held(c)
  <2>1. \A c \in Cache : name[c] \in Tree \cup {None}
        BY <1>0 DEF TreesTypeOK
  <2> QED
        BY <1>1, <1>2, <2>1 DEF Held
<1>4. Whole' = Whole /\ \A c \in Cache : Trusted(c)' <=> Trusted(c)
      BY <1>1, <1>3, Trusting, CacheSteps DEF Whole
<1>5. CacheInv'
      BY <1>0, <1>2, <1>3, <1>4 DEF CacheInv, TrustedWhole
<1>6. pc'[a] = "dead"
  <2>1. "dead" \in Label
        BY DEF Label, Early
  <2> QED
        BY <1>0, <1>1, <2>1, Moves
<1>7. Keeping(a)'
      BY <1>6, RestsKeeping DEF Resting
<1> QED
      BY <1>4, <1>5, <1>7, CacheSteps

(* What a command may rely on, and what it finds in the caches, stays so at  *)
(* each of its steps.                                                        *)
LEMMA StoreStep ==
  ASSUME RunsInv, NEW a \in App, Steps(a)
  PROVE  CacheInv' /\ Keeping(a)' /\ (Trusted("cef") => Trusted("cef")')
<1> DEFINE Goal == CacheInv' /\ Keeping(a)' /\ (Trusted("cef") => Trusted("cef")')
           Unmoved == UNCHANGED <<ships, stored, name, mine, rm>>
<1>0. /\ TreesTypeOK /\ DirsTypeOK /\ CacheInv /\ Keeping(a)
      /\ pc \in [App -> Label]
      BY DEF RunsInv, PackageInv, PackageTypeOK, DirsTypeOK
<1>b. pc[a] \in Backed => Trusted("laufey")
      BY <1>0 DEF Keeping
<1>k. ASSUME Unmoved, NEW l \in Label, Goto(a, l), l \notin Filling \cup Sharing \cup {"mark shared"},
             l \in Backed => Trusted("laufey"), l = "download" => ~Trusted("laufey"),
             l \in {"link", "linking"} => Trusted("cef")
      PROVE  Goal
      BY <1>k, KeepsStore
<1> USE DEF Label, Early, Staged, Collected, Filling, Sharing, Marked
<1>f. ASSUME Unmoved, NEW l \in {"payload", "bundle", "outputs", "collect", "backend", "failed", "refused", "compress",
                              "artifacts", "thin", "thin launcher", "rename", "version", "done"}, Goto(a, l)
      PROVE  Goal
      BY <1>f, <1>k DEF Backed
<1>g. ASSUME Unmoved, Trusted("laufey"), NEW l \in {"shim", "reserve", "clear", "mark", "stage", "ensure", "own", "pack"}, Goto(a, l)
      PROVE  Goal
      BY <1>g, <1>k
<1>1. CASE Start(a) \/ CopyPayload(a) \/ BuildFramework(a) \/ BundleFramework(a) \/ CopyOutputs(a) \/ BuildEntry(a) \/ Collect(a)
      BY <1>1, <1>f DEF Start, CopyPayload, BuildFramework, BundleFramework, CopyOutputs, BuildEntry, Collect, Step
<1>2. CASE ResolveBackend(a)
  <2>1. Unmoved /\ \/ Trusted("laufey") /\ Goto(a, "shim")
                   \/ ~Trusted("laufey") /\ Goto(a, "download")
        BY <1>2 DEF ResolveBackend
  <2> QED
        BY <2>1, <1>g, <1>k DEF Backed
<1>3. CASE Download(a)
  <2>1. ~Trusted("laufey")
        BY <1>0, <1>3 DEF Download, Keeping, At
  <2>2. "exe" \notin Held("laufey")
        BY <2>1, Trusting
  <2>3. CASE Fill(a, "laufey", Whole.laufey)
        BY <2>1, <2>3, StoreFill DEF Fills, Cache
  <2> QED
        BY <1>3, <2>2, <2>3, <1>f DEF Download
<1>4. CASE ResolveShim(a) \/ Reserve(a) \/ Clear(a) \/ MarkDir(a)
  <2>1. Trusted("laufey")
        BY <1>4, <1>b DEF ResolveShim, Reserve, Clear, MarkDir, Step, At, Backed
  <2> QED
        BY <1>4, <2>1, <1>f, <1>g DEF ResolveShim, Reserve, Clear, MarkDir, Step
<1>5. CASE StageBackend(a) \/ Linked(a) \/ OwnCopy(a) \/ PackShim(a)
  <2>1. Trusted("laufey")
        BY <1>5, <1>b DEF StageBackend, Linked, OwnCopy, PackShim, At, Backed
  <2> QED
        BY <1>5, <2>1, <1>f, <1>g DEF StageBackend, Linked, OwnCopy, CopyEnds, PackShim
<1>6. CASE EnsureShared(a)
  <2>1. Trusted("laufey")
        BY <1>6, <1>b DEF EnsureShared, At, Backed
  <2>2. ASSUME ~Trusted("cef"), "lib" \in Held("laufey") \cap Runtime, Fill(a, "cef", Held("laufey") \cap Runtime)
        PROVE  Goal
    <3>1. "lib" \in Whole["laufey"] /\ Whole["laufey"] \ {"mark"} \subseteq Held("laufey")
      <4>1. name["laufey"] \in Tree
            BY <1>0, <2>2 DEF Held, TreesTypeOK, Cache
      <4> QED
            BY <1>0, <2>1, <2>2, <4>1, CacheSteps DEF CacheInv, TrustedWhole, Held
    <3>2. ships = Runtime
          BY <1>0, <3>1, CacheSteps DEF TreesTypeOK
    <3>3. Held("laufey") \cap Runtime = Runtime
          BY <3>1, <3>2, CacheSteps DEF Runtime
    <3> QED
          BY <2>1, <2>2, <3>3, StoreFill DEF Fills, Cache
  <2>3. CASE Unmoved /\ Trusted("cef") /\ Goto(a, "link")
        BY <2>1, <2>3, <1>k
  <2>4. CASE Unmoved /\ Goto(a, "own")
        BY <2>1, <2>4, <1>g
  <2> QED
        BY <1>6, <2>2, <2>3, <2>4 DEF EnsureShared
<1>7. CASE MarkShared(a)
      BY <1>7, StoreMark
<1>8. CASE ListShared(a) \/ LinkOne(a)
  <2>1. Trusted("laufey") /\ Trusted("cef")
        BY <1>0, <1>8, <1>b DEF ListShared, LinkOne, At, Backed, Keeping
  <2>2. Unmoved
        BY <1>8 DEF ListShared, LinkOne
  <2>3. Goto(a, "own") \/ Goto(a, "linking") \/ (pc' = pc /\ pc[a] = "linking")
        BY <1>8 DEF ListShared, LinkOne, At
  <2>4. CASE Goto(a, "own") \/ Goto(a, "linking")
        BY <2>1, <2>2, <2>4, <1>g, <1>k
  <2>5. CASE pc' = pc /\ pc[a] = "linking"
    <3>1. Goto(a, "linking")
          BY <1>0, <2>5 DEF Goto
    <3> QED
          BY <2>1, <2>2, <3>1, <1>k
  <2> QED
        BY <2>3, <2>4, <2>5
<1>9. CASE RenameBackend(a) \/ WriteVersion(a) \/ MoveAside(a) \/ WriteThin(a) \/ WriteLauncher(a) \/ Installer(a) \/ PortableArchive(a)
      BY <1>9, <1>f DEF RenameBackend, WriteVersion, MoveAside, WriteThin, WriteLauncher, Installer, PortableArchive, Step
<1>10. CASE Replace(a)
      BY <1>10, StoreOpens, StoreRemoves, StoreRemoved DEF Replace
<1>11. CASE PublishBackend(a)
      BY <1>11, StorePublish DEF PublishBackend, Cache
<1>12. CASE PublishShared(a)
      BY <1>12, StorePublish DEF PublishShared, Cache
<1>13. CASE Die(a)
      BY <1>13, StoreDies
<1> QED
      BY <1>1, <1>2, <1>3, <1>4, <1>5, <1>6, <1>7, <1>8, <1>9, <1>10, <1>11, <1>12, <1>13 DEF Steps, Command

-----------------------------------------------------------------------------
(* Another command's directory, and its rest, stay as they are.              *)
LEMMA RunElsewhere ==
  ASSUME NEW b, RunInv(b), UNCHANGED Own(b), ships' = ships, Trusted("cef") => Trusted("cef")'
  PROVE  RunInv(b)'
<1>1. Entries(b)' = Entries(b) /\ So(b)' = So(b) /\ dir'[b] = dir[b] /\ packed'[b] = packed[b] /\ pc'[b] = pc[b]
      /\ listing'[b] = listing[b]
      BY DEF Own, Entries, So
<1> HIDE DEF Entries, So
<1> QED
      BY <1>1 DEF RunInv, IsArchived, NoLinks, At

(* A step that leaves the directory and what was packed from it.             *)
LEMMA RunStays ==
  ASSUME RunsInv, NEW a \in App, UNCHANGED <<dir, opt, packed, ships>>, NEW l \in Label, pc'[a] = l,
         Trusted("cef") => Trusted("cef")', l \in Marked => pc[a] \in Marked, l = "done" => pc[a] = "artifacts",
         l \notin {"mark", "compress", "linking", "pack", "rename", "version", "thin", "thin launcher", "artifacts"}
  PROVE  RunInv(a)'
<1>1. Entries(a)' = Entries(a) /\ So(a)' = So(a) /\ dir'[a] = dir[a] /\ packed'[a] = packed[a]
      BY DEF Entries, So
<1>2. RunInv(a)
      BY DEF RunsInv
<1> HIDE DEF Entries, So
<1> QED
      BY <1>1, <1>2 DEF RunInv, IsArchived, NoLinks, At

(* A step that changes the directory to `d`, links it only to a trusted      *)
(* cache, and moves on where nothing but the staging is asked of it.         *)
LEMMA RunChanges ==
  ASSUME RunsInv, NEW a \in App, NEW d \in Directory, dir' = [dir EXCEPT ![a] = d], ships' = ships,
         NEW l, pc'[a] = l, NoLinks(packed[a]) => NoLinks(packed'[a]), Trusted("cef") => Trusted("cef")',
         Trusted("cef") \/ (NoLinks(dir[a]) => NoLinks(d)),
         l \in {"mark", "compress"} \cup Marked => "payload" \notin DOMAIN d,
         l = "linking" => \A i \in Runtime \ listing'[a] : i \in DOMAIN d /\ d[i] = "link",
         l \in {"pack", "rename"} => Shipped(d, ships) /\ "exe" \in DOMAIN d /\ d["exe"] = "backend",
         l = "rename" => So(a)' \in DOMAIN d \ ships /\ d[So(a)'] = "shim",
         l \in {"version", "compress"} => Works(d, So(a)', ships),
         l \in {"thin", "thin launcher"} => Works(packed'[a], So(a)', ships),
         l = "artifacts" =>
           IF "payload" \in DOMAIN d THEN Works(packed'[a], So(a)', ships) /\ "launcher" \in DOMAIN d /\ d["launcher"] = "script"
           ELSE Works(d, So(a)', ships),
         l # "done"
  PROVE  RunInv(a)'
<1>1. dir'[a] = d /\ d # None
      BY Layings DEF RunsInv, PackageInv, PackageTypeOK, DirsTypeOK
<1>2. Entries(a)' = DOMAIN d
      BY <1>1 DEF Entries
<1>3. RunInv(a)
      BY DEF RunsInv
<1>4. (Trusted("cef") \/ (NoLinks(dir[a]) /\ NoLinks(packed[a])))'
      BY <1>1, <1>3 DEF RunInv, NoLinks
<1> HIDE DEF Entries, So, Works, Shipped
<1> QED
      BY <1>1, <1>2, <1>4 DEF RunInv, IsArchived, At

(* What is laid into a directory is in it beside what it had.                *)
Beside(e, d, n, w) ==
  /\ e \in Directory /\ DOMAIN e = DOMAIN d \cup {n} /\ e[n] = w
  /\ \A m \in DOMAIN d \ {n} : e[m] = d[m]
  /\ NoLinks(d) /\ w # "link" => NoLinks(e)

(* So it is with all that is laid.                                          *)
LEMMA LaidBeside ==
  ASSUME NEW d \in Directory, NEW n \in DirEntry, NEW w \in Content
  PROVE  Beside(Laid(d, n, w), d, n, w)
<1> DEFINE e == Laid(d, n, w)
<1>1. d # None /\ e \in Directory /\ DOMAIN e = DOMAIN d \cup {n}
      BY Layings
<1>2. e[n] = w /\ \A m \in DOMAIN d \ {n} : e[m] = d[m]
      BY DEF Laid
<1> HIDE DEF e
<1>3. ASSUME NoLinks(d), w # "link", NEW m \in DOMAIN e PROVE e[m] # "link"
  <2>1. CASE m = n
        BY <1>2, <1>3, <2>1
  <2>2. CASE m # n
        BY <1>1, <1>2, <1>3, <2>2 DEF NoLinks
  <2> QED
        BY <2>1, <2>2
<1> QED
      BY <1>1, <1>2, <1>3 DEF Beside, NoLinks, e

(* What a step of its own does to what a command has in its directory.       *)
LEMMA RunStep ==
  ASSUME RunsInv, DirsTypeOK', NEW a \in App, Steps(a)
  PROVE  RunInv(a)'
<1> DEFINE Goal == RunInv(a)'
<1>0. /\ TreesTypeOK /\ DirsTypeOK /\ CacheInv /\ Keeping(a) /\ RunInv(a) /\ DirInv(a)
      /\ pc \in [App -> Label] /\ dir \in [App -> Directory \cup {None}] /\ packed \in [App -> Directory \cup {None}]
      /\ listing \in [App -> SUBSET CacheItem] /\ opt \in [App -> Option \cup {PlainOption}]
      BY DEF RunsInv, PackageInv, PackageTypeOK, DirsTypeOK
<1>t. ships' = ships /\ (Trusted("cef") => Trusted("cef")')
      BY Frame, StoreStep DEF RunsInv
<1>d. /\ pc[a] \in Marked \cup {"compress", "mark", "thin", "thin launcher"} => dir[a] \in Directory /\ Entries(a) = DOMAIN dir[a]
      /\ pc[a] \in Marked \cup {"compress", "mark"} => "payload" \notin Entries(a)
  <2>1. pc[a] \in Marked \cup {"compress", "mark", "thin", "thin launcher"} => dir[a] # None
        BY <1>0 DEF DirInv, RunInv, Entries
  <2> QED
        BY <1>0, <2>1 DEF RunInv, IsArchived, Entries
<1>e. ASSUME NEW l \in Label, Goto(a, l) PROVE pc'[a] = l
      BY <1>0, <1>e, Moves
<1> USE DEF Label, Early, Staged, Collected, Filling, Sharing, Marked
<1>s. ASSUME UNCHANGED <<dir, opt, packed>>, NEW l \in Label, Goto(a, l),
             l \in Marked => pc[a] \in Marked, l = "done" => pc[a] = "artifacts",
             l \notin {"mark", "compress", "linking", "pack", "rename", "version", "thin", "thin launcher", "artifacts"}
      PROVE  Goal
      BY <1>e, <1>s, <1>t, RunStays
<1>1. CASE Start(a)
  <2> DEFINE old == IF dir[a] = None THEN EmptyDir ELSE dir[a]
             d == Laid(old, "staging", "payload")
  <2>1. old \in Directory /\ (NoLinks(dir[a]) => NoLinks(old))
        BY <1>0, Bare DEF NoLinks, EmptyDir
  <2>2. Beside(d, old, "staging", "payload")
        BY <2>1, LaidBeside, Known
  <2>3. dir' = [dir EXCEPT ![a] = d] /\ pc'[a] = "payload" /\ packed'[a] = EmptyDir
        BY <1>0, <1>1, <1>e DEF Start
  <2>4. NoLinks(packed'[a])
        BY <2>3, Bare DEF NoLinks
  <2> HIDE DEF d
  <2> QED
        BY <1>t, <2>1, <2>2, <2>3, <2>4, RunChanges DEF Beside
<1>2. CASE CopyPayload(a) \/ BuildFramework(a) \/ BundleFramework(a) \/ CopyOutputs(a) \/ BuildEntry(a) \/ ResolveShim(a)
           \/ ResolveBackend(a) \/ Reserve(a) \/ Installer(a) \/ PortableArchive(a)
      BY <1>2, <1>s DEF CopyPayload, BuildFramework, BundleFramework, CopyOutputs, BuildEntry, ResolveShim, ResolveBackend,
         Reserve, Installer, PortableArchive, Step, ownVars, At
<1>3. CASE Collect(a)
  <2>1. CASE UNCHANGED dir /\ \E l \in {"failed", "backend"} : Goto(a, l)
        BY <1>3, <2>1, <1>s DEF Collect
  <2>2. CASE Drop(a, "staging") /\ Goto(a, "backend")
    <3> DEFINE d == Restrict(dir[a], DOMAIN dir[a] \ {"staging"})
    <3>1. dir[a] \in Directory
          BY <1>0, <1>3 DEF Collect, At, DirInv, Entries
    <3>2. d \in Directory /\ (NoLinks(dir[a]) => NoLinks(d))
          BY <3>1, Directories DEF NoLinks
    <3>3. dir' = [dir EXCEPT ![a] = d] /\ pc'[a] = "backend" /\ packed' = packed
          BY <1>3, <2>2, <1>e DEF Collect, Drop
    <3> HIDE DEF d
    <3> QED
          BY <1>t, <3>2, <3>3, RunChanges
  <2> QED
        BY <1>3, <2>1, <2>2 DEF Collect
<1>c. ASSUME dir[a] # None, ClearsPart(a), packed' = packed, NEW l \in {"failed", "dead"}, Goto(a, l) PROVE Goal
  <2>1. dir[a] \in Directory
        BY <1>0, <1>c
  <2>2. PICK kept \in SUBSET DOMAIN dir[a] : dir' = [dir EXCEPT ![a] = Restrict(dir[a], kept)]
        BY <1>c, <2>1, ClearsLess
  <2> DEFINE d == Restrict(dir[a], kept)
  <2>3. d \in Directory /\ DOMAIN d = kept /\ \A n \in kept : d[n] = dir[a][n]
        BY <2>1, Directories
  <2>4. dir' = [dir EXCEPT ![a] = d] /\ pc'[a] = l
        BY <1>c, <1>e, <2>2
  <2> HIDE DEF d
  <2>5. NoLinks(dir[a]) => NoLinks(d)
        BY <1>c, <2>3 DEF NoLinks
  <2> QED
        BY <1>c, <1>t, <2>3, <2>4, <2>5, RunChanges
<1>4. CASE Clear(a)
  <2>1. packed' = packed /\ NoLinks(EmptyDir)
        BY <1>4, Bare DEF Clear, NoLinks
  <2>2. CASE dir' = [dir EXCEPT ![a] = EmptyDir] /\ Goto(a, "mark")
    <3>1. pc'[a] = "mark"
          BY <2>2, <1>e
    <3> QED
          BY <1>t, <2>1, <2>2, <3>1, Bare, RunChanges
  <2>3. CASE dir[a] # None /\ ClearsPart(a) /\ Goto(a, "failed")
        BY <1>c, <2>1, <2>3
  <2> QED
        BY <1>4, <2>2, <2>3 DEF Clear
<1>5. CASE MarkDir(a)
  <2>5. CASE dir' = dir
    <3> DEFINE d == dir[a]
    <3>1. d \in Directory /\ "payload" \notin DOMAIN d
          BY <1>5, <1>d DEF MarkDir, At
    <3>2. dir' = [dir EXCEPT ![a] = d] /\ pc'[a] = "stage" /\ packed' = packed
          BY <1>0, <1>5, <2>5, <1>e DEF MarkDir
    <3>3. NoLinks(dir[a]) => NoLinks(d)
          OBVIOUS
    <3> HIDE DEF d
    <3> QED
          BY <1>t, <3>1, <3>2, <3>3, RunChanges
  <2>6. CASE Put(a, "marker", "marker")
    <3> DEFINE d == Laid(dir[a], "marker", "marker")
    <3>1. dir[a] \in Directory /\ "payload" \notin DOMAIN dir[a]
          BY <1>5, <1>d DEF MarkDir, At
    <3>2. Beside(d, dir[a], "marker", "marker")
          BY <3>1, LaidBeside, Known
    <3>3. dir' = [dir EXCEPT ![a] = d] /\ pc'[a] = "stage" /\ packed' = packed
          BY <1>5, <2>6, <1>e DEF MarkDir, Put
    <3> HIDE DEF d
    <3> QED
          BY <1>t, <3>1, <3>2, <3>3, RunChanges DEF Beside
  <2> QED
        BY <1>5, <2>5, <2>6 DEF MarkDir
<1>6. CASE StageBackend(a)
  <2>1. Trusted("laufey") /\ Whole["laufey"] \ {"mark"} \subseteq Held("laufey")
        BY <1>0, <1>6, CacheSteps DEF StageBackend, At, Keeping, Backed, CacheInv, TrustedWhole
  <2>2. CASE UNCHANGED dir /\ \E l \in {"ensure", "failed"} : Goto(a, l)
        BY <1>6, <2>2, <1>s DEF StageBackend, At
  <2>3. CASE "lib" \notin Held("laufey") /\ PlaceExe(a) /\ Goto(a, "pack")
    <3> DEFINE d == Laid(dir[a], "exe", "backend")
    <3>1. ships = {}
      <4>1. ships = Runtime => "lib" \in Whole["laufey"] \ {"mark"}
            BY CacheSteps DEF Runtime
      <4> QED
            BY <1>0, <2>1, <2>3, <4>1 DEF TreesTypeOK
    <3>2. dir[a] \in Directory /\ "payload" \notin DOMAIN dir[a]
          BY <1>6, <1>d DEF StageBackend, At
    <3>3. Beside(d, dir[a], "exe", "backend")
          BY <3>2, LaidBeside, Known
    <3>4. dir' = [dir EXCEPT ![a] = d] /\ pc'[a] = "pack" /\ packed' = packed
          BY <1>6, <2>3, <1>e DEF StageBackend, PlaceExe, Put
    <3> HIDE DEF d
    <3>5. Shipped(d, ships)
          BY <3>1 DEF Shipped
    <3> QED
          BY <1>t, <3>2, <3>3, <3>4, <3>5, RunChanges DEF Beside
  <2> QED
        BY <1>6, <2>2, <2>3 DEF StageBackend
<1>7. CASE EnsureShared(a)
  <2>1. UNCHANGED <<dir, opt, packed>> /\ pc[a] = "ensure"
        BY <1>7 DEF EnsureShared, At, ownVars
  <2>2. \E l \in {"link", "clear shared", "own"} : Goto(a, l)
        BY <1>7, CacheSteps DEF EnsureShared, Fill
  <2> QED
        BY <2>1, <2>2, <1>s
<1>8. CASE MarkShared(a)
      BY <1>8, <1>s DEF MarkShared, At, ownVars
<1>9. CASE ListShared(a)
  <2>1. pc[a] = "link" /\ Trusted("cef") /\ Runtime \subseteq Held("cef") \ {"mark"}
        BY <1>0, <1>9, CacheSteps DEF ListShared, At, Keeping, CacheInv, TrustedWhole, Runtime
  <2>2. name["cef"] # None
        BY <2>1 DEF Held, Runtime
  <2>3. /\ Goto(a, "linking") /\ listing' = [listing EXCEPT ![a] = Held("cef") \ {"mark"}]
        /\ UNCHANGED <<dir, opt, packed>>
        BY <1>9, <2>2 DEF ListShared
  <2>4. pc'[a] = "linking" /\ Runtime \subseteq listing'[a]
        BY <1>0, <1>e, <2>1, <2>3
  <2>5. dir' = [dir EXCEPT ![a] = dir[a]] /\ packed' = packed
        BY <1>0, <2>3
  <2>6. dir[a] \in Directory /\ "payload" \notin DOMAIN dir[a]
        BY <2>1, <1>d
  <2> QED
        BY <1>t, <2>4, <2>5, <2>6, RunChanges
<1>10. CASE LinkOne(a)
  <2>1. CASE Goto(a, "own") /\ UNCHANGED <<dir, listing>>
        BY <1>10, <2>1, <1>s DEF LinkOne, At
  <2>2. ASSUME NEW i \in listing[a], i \in Held("cef"), Put(a, i, "link"), listing' = [listing EXCEPT ![a] = @ \ {i}], UNCHANGED pc
        PROVE  Goal
    <3> DEFINE d == Laid(dir[a], i, "link")
    <3>1. pc[a] = "linking" /\ packed' = packed /\ Trusted("cef")
          BY <1>0, <1>10 DEF LinkOne, At, Keeping
    <3>2. dir[a] \in Directory /\ Entries(a) = DOMAIN dir[a] /\ "payload" \notin DOMAIN dir[a]
          BY <3>1, <1>d
    <3>3. i \in DirEntry \ {"payload"}
          BY <1>0, <2>2 DEF DirEntry, CacheItem, Runtime
    <3>4. Beside(d, dir[a], i, "link")
          BY <3>2, <3>3, LaidBeside, Known
    <3>5. dir' = [dir EXCEPT ![a] = d] /\ pc'[a] = "linking" /\ listing'[a] = listing[a] \ {i}
          BY <1>0, <2>2, <3>1 DEF Put
    <3> HIDE DEF d
    <3>6. \A j \in Runtime \ listing'[a] : j \in DOMAIN d /\ d[j] = "link"
      <4>1. \A j \in Runtime \ listing[a] : j \in DOMAIN dir[a] /\ dir[a][j] = "link"
            BY <1>0, <3>1, <3>2 DEF RunInv, At
      <4> QED
            BY <3>4, <3>5, <4>1 DEF Beside
    <3> QED
          BY <1>t, <3>1, <3>2, <3>3, <3>4, <3>5, <3>6, RunChanges DEF Beside
  <2> QED
        BY <1>10, <2>1, <2>2 DEF LinkOne
<1>11. CASE Linked(a)
  <2>1. CASE Goto(a, "own") /\ UNCHANGED dir
        BY <1>11, <2>1, <1>s DEF Linked, At
  <2>2. CASE PlaceExe(a) /\ Goto(a, "pack")
    <3> DEFINE d == Laid(dir[a], "exe", "backend")
    <3>1. pc[a] = "linking" /\ listing[a] = {} /\ packed' = packed
          BY <1>11 DEF Linked, At
    <3>2. dir[a] \in Directory /\ Entries(a) = DOMAIN dir[a] /\ "payload" \notin DOMAIN dir[a]
          BY <3>1, <1>d
    <3>3. Beside(d, dir[a], "exe", "backend")
          BY <3>2, LaidBeside, Known
    <3>4. dir' = [dir EXCEPT ![a] = d] /\ pc'[a] = "pack"
          BY <2>2, <1>e DEF PlaceExe, Put
    <3>5. \A i \in Runtime : i \in DOMAIN dir[a] \ {"exe"} /\ dir[a][i] = "link"
          BY <1>0, <3>1, <3>2 DEF RunInv, At, Runtime
    <3> HIDE DEF d
    <3>6. Shipped(d, ships)
          BY <1>0, <3>3, <3>5 DEF Shipped, TreesTypeOK, Beside
    <3> QED
          BY <1>t, <3>1, <3>2, <3>3, <3>4, <3>6, RunChanges DEF Beside
  <2> QED
        BY <1>11, <2>1, <2>2 DEF Linked
<1>12. CASE OwnCopy(a)
  <2> DEFINE e(got) == Restrict(Copied(a), got)
             d(got) == Laid(e(got), "marker", "marker")
  <2>1. packed' = packed
        BY <1>12 DEF OwnCopy
  <2>2. PICK got \in {{}, DOMAIN Copied(a)} :
          /\ dir' = [dir EXCEPT ![a] = d(got)] \/ dir' = [dir EXCEPT ![a] = e(got)]
          /\ Goto(a, "failed") \/ (got = DOMAIN Copied(a) /\ "exe" \in got /\ Goto(a, "pack"))
        BY <1>12 DEF OwnCopy, CopyEnds
  <2>3. /\ DOMAIN Copied(a) = Held("laufey") \ {"mark"}
        /\ \A i \in DOMAIN Copied(a) : Copied(a)[i] = IF i = "exe" THEN "backend" ELSE "copy"
        BY DEF Copied
  <2>4. Held("laufey") \subseteq CacheItem
        BY <1>0, HeldItems, CacheSteps
  <2>5. Copied(a) \in Directory
    <3>1. Copied(a) \in [Held("laufey") \ {"mark"} -> Content]
          BY DEF Copied, Content
    <3>2. Held("laufey") \ {"mark"} \subseteq DirEntry
          BY <2>4 DEF DirEntry
    <3> QED
          BY <3>1, <3>2 DEF Directory
  <2>6. e(got) \in Directory /\ DOMAIN e(got) = got /\ \A i \in got : e(got)[i] = Copied(a)[i]
    <3>1. got \in SUBSET DOMAIN Copied(a)
          BY <2>2
    <3> QED
          BY <2>5, <3>1, Directories
  <2> HIDE DEF e
  <2>7. NoLinks(e(got)) /\ "payload" \notin DOMAIN e(got) /\ "marker" \notin DOMAIN e(got)
        BY <2>2, <2>3, <2>4, <2>6 DEF NoLinks, CacheItem, Runtime
  <2>8. Beside(d(got), e(got), "marker", "marker")
        BY <2>6, LaidBeside, Known
  <2> HIDE DEF d
  <2>9. PICK x : x \in {d(got), e(got)} /\ dir' = [dir EXCEPT ![a] = x]
        BY <2>2
  <2>10. x \in Directory /\ NoLinks(x) /\ "payload" \notin DOMAIN x /\ \A i \in got : i \in DOMAIN x /\ x[i] = e(got)[i]
        BY <2>6, <2>7, <2>8, <2>9 DEF Beside
  <2>11. CASE Goto(a, "failed")
    <3>1. pc'[a] = "failed"
          BY <2>11, <1>e
    <3> QED
          BY <1>t, <2>1, <2>9, <2>10, <3>1, RunChanges
  <2>12. CASE got = DOMAIN Copied(a) /\ "exe" \in got /\ Goto(a, "pack")
    <3>1. pc'[a] = "pack" /\ "exe" \in DOMAIN x /\ x["exe"] = "backend"
          BY <2>3, <2>6, <2>10, <2>12, <1>e
    <3>2. Whole["laufey"] \ {"mark"} \subseteq Held("laufey")
          BY <1>0, <2>3, <2>12, Trusting, CacheSteps DEF CacheInv, TrustedWhole
    <3>3. ships \subseteq got /\ "exe" \notin ships
          BY <1>0, <2>3, <2>12, <3>2, CacheSteps DEF TreesTypeOK, Runtime
    <3>4. Shipped(x, ships)
          BY <2>3, <2>6, <2>10, <2>12, <3>3 DEF Shipped
    <3> QED
          BY <1>t, <2>1, <2>9, <2>10, <3>1, <3>4, RunChanges
  <2> QED
        BY <2>2, <2>11, <2>12
<1>o. So(a) \in {"so", "lib"}
  <2>1. opt[a] \in Option \cup {PlainOption}
        BY <1>0
  <2> QED
        BY <2>1, PackageAssumption DEF So, PlainOption
<1>r. ships \subseteq Runtime /\ {"exe", "launcher", "so", "version", "entry"} \cap Runtime = {}
      BY <1>0 DEF TreesTypeOK, Runtime
<1>13. CASE PackShim(a)
  <2>1. pc[a] = "pack" /\ UNCHANGED <<opt, packed>>
        BY <1>13 DEF PackShim, At
  <2>2. CASE Goto(a, "failed") /\ UNCHANGED dir
        BY <2>1, <2>2, <1>s
  <2>3. CASE ~(So(a) \in Entries(a) /\ Leads(So(a), dir[a][So(a)])) /\ Put(a, So(a), "shim") /\ Goto(a, "rename")
    <3> DEFINE n == So(a)
               d == Laid(dir[a], n, "shim")
    <3>1. dir[a] \in Directory /\ Entries(a) = DOMAIN dir[a] /\ "payload" \notin DOMAIN dir[a]
          BY <2>1, <1>d
    <3>2. Shipped(dir[a], ships) /\ "exe" \in DOMAIN dir[a] /\ dir[a]["exe"] = "backend"
          BY <1>0, <2>1, <3>1 DEF RunInv
    <3>3. n \notin ships
      <4>1. SUFFICES ASSUME n \in ships PROVE FALSE
            OBVIOUS
      <4>2. n \in DOMAIN dir[a] /\ dir[a][n] \in {"copy", "link"}
            BY <3>2, <4>1 DEF Shipped
      <4>3. dir[a][n] = "link" /\ n \notin Held("cef")
            BY <2>3, <3>1, <4>2 DEF Leads
      <4>4. Trusted("cef")
            BY <1>0, <3>1, <4>2, <4>3, Layings DEF RunInv, NoLinks
      <4>5. Runtime \subseteq Held("cef")
            BY <1>0, <4>4, CacheSteps DEF CacheInv, TrustedWhole, Runtime
      <4> QED
            BY <1>r, <4>1, <4>3, <4>5
    <3>4. Beside(d, dir[a], n, "shim")
          BY <1>o, <3>1, LaidBeside, Known
    <3>5. dir' = [dir EXCEPT ![a] = d] /\ pc'[a] = "rename" /\ So(a)' = n
          BY <2>1, <2>3, <1>e DEF Put, So
    <3>6. n # "exe" /\ n # "payload"
          BY <1>o
    <3> HIDE DEF n, d
    <3>7. Shipped(d, ships) /\ "exe" \in DOMAIN d /\ d["exe"] = "backend"
          BY <3>2, <3>3, <3>4, <3>6 DEF Shipped, Beside
    <3> QED
          BY <1>t, <2>1, <3>1, <3>3, <3>4, <3>5, <3>6, <3>7, RunChanges DEF Beside
  <2> QED
        BY <1>13, <2>2, <2>3 DEF PackShim
<1>14. CASE RenameBackend(a)
  <2> DEFINE e == Restrict(dir[a], DOMAIN dir[a] \ {"exe"})
             d == Laid(e, "launcher", "backend")
  <2>0. CASE Goto(a, "failed") /\ UNCHANGED dir
        BY <1>14, <2>0, <1>s DEF RenameBackend
  <2>1. SUFFICES ASSUME pc[a] = "rename", dir' = [dir EXCEPT ![a] = d], packed' = packed, So(a)' = So(a), pc'[a] = "version"
                 PROVE  Goal
        BY <1>14, <2>0, <1>e DEF RenameBackend, At, So
  <2>2. dir[a] \in Directory /\ Entries(a) = DOMAIN dir[a] /\ "payload" \notin DOMAIN dir[a]
        BY <2>1, <1>d
  <2>3. Shipped(dir[a], ships) /\ So(a) \in DOMAIN dir[a] \ ships /\ dir[a][So(a)] = "shim"
        BY <1>0, <2>1, <2>2 DEF RunInv, At
  <2>4. e \in Directory /\ DOMAIN e = DOMAIN dir[a] \ {"exe"} /\ \A m \in DOMAIN e : e[m] = dir[a][m]
        BY <2>2, Directories
  <2> HIDE DEF e
  <2>5. NoLinks(dir[a]) => NoLinks(e)
        BY <2>2, <2>4, Layings DEF NoLinks
  <2>6. Beside(d, e, "launcher", "backend")
        BY <2>4, LaidBeside, Known
  <2> HIDE DEF d
  <2>7. Shipped(d, ships)
        BY <1>r, <2>3, <2>4, <2>6 DEF Shipped, Beside
  <2>8. So(a) \in DOMAIN d /\ d[So(a)] = "shim" /\ "launcher" \in DOMAIN d /\ d["launcher"] = "backend" /\ "payload" \notin DOMAIN d
        BY <1>o, <2>2, <2>3, <2>4, <2>6 DEF Beside
  <2>9. Works(d, So(a), ships)
        BY <2>6, <2>7, <2>8, Layings DEF Works, Beside
  <2> QED
        BY <1>t, <2>1, <2>5, <2>6, <2>8, <2>9, RunChanges DEF Beside
<1>15. CASE WriteVersion(a)
  <2>1. pc[a] = "version" /\ packed' = packed /\ So(a)' = So(a)
        BY <1>15 DEF WriteVersion, At, So
  <2>2. dir[a] \in Directory /\ Entries(a) = DOMAIN dir[a] /\ "payload" \notin DOMAIN dir[a]
        BY <2>1, <1>d
  <2>3. Works(dir[a], So(a), ships)
        BY <1>0, <2>1 DEF RunInv
  <2>4. ASSUME NEW e \in Directory, NEW n \in {"version", "entry"}, NEW w \in {"tuple", "entry"}, Works(e, So(a), ships), "payload" \notin DOMAIN e
        PROVE  /\ Laid(e, n, w) \in Directory /\ Works(Laid(e, n, w), So(a), ships) /\ "payload" \notin DOMAIN Laid(e, n, w)
               /\ (NoLinks(e) => NoLinks(Laid(e, n, w)))
    <3> DEFINE d == Laid(e, n, w)
    <3>1. Beside(d, e, n, w)
          BY <2>4, LaidBeside, Known
    <3> HIDE DEF d
    <3>2. Shipped(d, ships)
          BY <1>r, <2>4, <3>1 DEF Works, Shipped, Beside
    <3>3. So(a) \in DOMAIN d /\ d[So(a)] = "shim" /\ "launcher" \in DOMAIN d /\ d["launcher"] = "backend" /\ "payload" \notin DOMAIN d
          BY <1>o, <2>4, <3>1 DEF Works, Beside
    <3>4. d \in Directory /\ Works(d, So(a), ships) /\ "payload" \notin DOMAIN d /\ (NoLinks(e) => NoLinks(d))
          BY <3>1, <3>2, <3>3, Layings DEF Beside, Works
    <3> QED
          BY <3>4 DEF d
  <2> DEFINE e(some) == IF some THEN Laid(dir[a], "version", "tuple") ELSE dir[a]
             d(some) == Laid(e(some), "entry", "entry")
  <2>5. PICK some \in BOOLEAN : dir' = [dir EXCEPT ![a] = d(some)]
        BY <1>15 DEF WriteVersion
  <2>6. pc'[a] \in {"compress", "artifacts"}
        BY <1>15, <1>e DEF WriteVersion
  <2>7. e(some) \in Directory /\ Works(e(some), So(a), ships) /\ "payload" \notin DOMAIN e(some) /\ (NoLinks(dir[a]) => NoLinks(e(some)))
        BY <2>2, <2>3, <2>4
  <2> HIDE DEF e
  <2>8. d(some) \in Directory /\ Works(d(some), So(a), ships) /\ "payload" \notin DOMAIN d(some) /\ (NoLinks(e(some)) => NoLinks(d(some)))
        BY <2>4, <2>7
  <2> HIDE DEF d
  <2> QED
        BY <1>t, <2>1, <2>5, <2>6, <2>7, <2>8, RunChanges
<1>16. CASE MoveAside(a)
  <2>1. /\ pc[a] = "compress" /\ dir' = [dir EXCEPT ![a] = EmptyDir] /\ So(a)' = So(a) /\ packed'[a] = dir[a]
        /\ pc'[a] = "thin"
        BY <1>0, <1>16, <1>e DEF MoveAside, At, So
  <2>2. Works(packed'[a], So(a), ships) /\ NoLinks(EmptyDir)
        BY <1>0, <2>1, Bare DEF RunInv, NoLinks
  <2>3. dir'[a] = EmptyDir /\ EmptyDir # None
        BY <1>0, <2>1, Bare, Layings
  <2>4. Trusted("cef")' \/ (NoLinks(dir'[a]) /\ NoLinks(packed'[a]))
        BY <1>0, <1>t, <2>1, <2>2, <2>3 DEF RunInv
  <2>5. pc'[a] \notin {"mark", "compress"} \cup Marked
        BY <2>1
  <2> HIDE DEF Label, Early, Staged, Collected, Filling, Sharing, Marked, So
  <2> QED
        BY <1>t, <2>1, <2>2, <2>4, <2>5 DEF RunInv, At
<1>17. CASE WriteThin(a)
  <2>1. pc[a] = "thin" /\ UNCHANGED opt /\ So(a)' = So(a) /\ dir[a] \in Directory
        BY <1>17, <1>d DEF WriteThin, At, So
  <2>2. packed'[a] \in {packed[a], EmptyDir} /\ (NoLinks(packed[a]) => NoLinks(packed'[a]))
        BY <1>0, <1>17, Bare DEF WriteThin, NoLinks
  <2>3. CASE UNCHANGED dir /\ Goto(a, "failed")
    <3>1. dir' = [dir EXCEPT ![a] = dir[a]] /\ pc'[a] = "failed"
          BY <1>0, <2>3, <1>e
    <3> QED
          BY <1>t, <2>1, <2>2, <3>1, RunChanges
  <2>4. CASE Put(a, "payload", "torn") /\ Goto(a, "failed")
    <3> DEFINE d == Laid(dir[a], "payload", "torn")
    <3>1. Beside(d, dir[a], "payload", "torn")
          BY <2>1, LaidBeside, Known
    <3>2. dir' = [dir EXCEPT ![a] = d] /\ pc'[a] = "failed"
          BY <2>4, <1>e DEF Put
    <3> HIDE DEF d
    <3> QED
          BY <1>t, <2>2, <3>1, <3>2, RunChanges DEF Beside
  <2>5. CASE Put(a, "payload", "archive") /\ Goto(a, "thin launcher") /\ UNCHANGED packed
    <3> DEFINE d == Laid(dir[a], "payload", "archive")
    <3>1. Beside(d, dir[a], "payload", "archive")
          BY <2>1, LaidBeside, Known
    <3>2. dir' = [dir EXCEPT ![a] = d] /\ pc'[a] = "thin launcher"
          BY <2>5, <1>e DEF Put
    <3>3. Works(packed[a], So(a), ships)
          BY <1>0, <2>1 DEF RunInv
    <3> HIDE DEF d
    <3> QED
          BY <1>t, <2>1, <2>5, <3>1, <3>2, <3>3, RunChanges DEF Beside
  <2> QED
        BY <1>17, <2>3, <2>4, <2>5 DEF WriteThin
<1>18. CASE WriteLauncher(a)
  <2>1. pc[a] = "thin launcher" /\ UNCHANGED <<opt, packed>> /\ So(a)' = So(a)
        BY <1>18 DEF WriteLauncher, At, So
  <2>2. CASE Goto(a, "failed") /\ UNCHANGED dir
        BY <2>1, <2>2, <1>s
  <2>3. CASE Put(a, "launcher", "script") /\ Goto(a, "artifacts")
    <3> DEFINE d == Laid(dir[a], "launcher", "script")
    <3>1. dir[a] \in Directory /\ "payload" \in DOMAIN dir[a] /\ Works(packed[a], So(a), ships)
          BY <1>0, <1>d, <2>1 DEF DirInv, RunInv
    <3>2. Beside(d, dir[a], "launcher", "script")
          BY <3>1, LaidBeside, Known
    <3>3. dir' = [dir EXCEPT ![a] = d] /\ pc'[a] = "artifacts"
          BY <2>3, <1>e DEF Put
    <3> HIDE DEF d
    <3> QED
          BY <1>t, <2>1, <3>1, <3>2, <3>3, RunChanges DEF Beside
  <2> QED
        BY <1>18, <2>2, <2>3 DEF WriteLauncher
<1>19. CASE Replace(a) \/ PublishBackend(a) \/ PublishShared(a)
  <2>1. UNCHANGED <<dir, opt, packed>>
        BY <1>19 DEF Replace, PublishBackend, PublishShared, ownVars
  <2>2. CASE \E c \in Cache : RemoveItem(a, c)
    <3>1. pc' = pc /\ pc[a] \in {"remove backend", "remove shared"}
          BY <2>2, CacheSteps DEF RemoveItem, At
    <3>2. Goto(a, pc[a])
          BY <1>0, <3>1 DEF Goto
    <3> QED
          BY <1>s, <2>1, <3>1, <3>2
  <2>3. CASE \E c \in Cache : OpenOld(a, c) \/ Removed(a, c)
    <3>1. PICK c \in Cache : OpenOld(a, c) \/ Removed(a, c)
          BY <2>3
    <3>2. pc[a] \in {Clearing[c], Removing[c]} /\ \E l \in {Removing[c], Publishing[c]} : Goto(a, l)
          BY <3>1 DEF OpenOld, Removed, At
    <3>3. CASE c = "laufey"
      <4>1. \E l \in {"remove backend", "publish backend"} : Goto(a, l)
            BY <3>2, <3>3, CacheSteps
      <4> QED
            BY <1>s, <2>1, <4>1
    <3>4. CASE c = "cef"
      <4>1. pc[a] \in Sharing /\ \E l \in {"remove shared", "publish shared"} : Goto(a, l)
            BY <3>2, <3>4, CacheSteps
      <4> QED
            BY <1>s, <2>1, <4>1
    <3> QED
          BY <3>3, <3>4, CacheSteps
  <2>4. CASE PublishBackend(a) \/ PublishShared(a)
        BY <1>s, <2>1, <2>4, CacheSteps DEF PublishBackend, PublishShared, Publish, At
  <2> QED
        BY <1>19, <2>2, <2>3, <2>4 DEF Replace
<1>20. CASE Die(a)
  <2>1. UNCHANGED <<opt, packed>> /\ pc'[a] = "dead" /\ Goto(a, "dead")
        BY <1>20, <1>e DEF Die
  <2>2. CASE UNCHANGED dir
        BY <2>1, <2>2, <1>s
  <2>3. CASE dir[a] # None /\ ClearsPart(a)
        BY <1>c, <2>1, <2>3
  <2> QED
        BY <1>20, <2>2, <2>3 DEF Die
<1>21. CASE Download(a)
  <2>1. UNCHANGED <<dir, opt, packed>> /\ \E l \in {"shim", "failed", "clear backend"} : Goto(a, l)
        BY <1>21, CacheSteps DEF Download, Fill, ownVars
  <2> QED
        BY <1>s, <2>1
<1>22. CASE Command(a)
  <2>1. CASE \/ Start(a) \/ CopyPayload(a) \/ BuildFramework(a) \/ BundleFramework(a) \/ CopyOutputs(a)
             \/ BuildEntry(a) \/ Collect(a) \/ ResolveBackend(a) \/ ResolveShim(a) \/ Reserve(a) \/ Clear(a) \/ MarkDir(a)
             \/ StageBackend(a) \/ EnsureShared(a) \/ MarkShared(a) \/ ListShared(a) \/ LinkOne(a) \/ Linked(a) \/ OwnCopy(a)
        BY <2>1, <1>1, <1>2, <1>3, <1>4, <1>5, <1>6, <1>7, <1>8, <1>9, <1>10, <1>11, <1>12
  <2>2. CASE Download(a)
        BY <2>2, <1>21
  <2>3. CASE \/ PackShim(a) \/ RenameBackend(a) \/ WriteVersion(a) \/ MoveAside(a) \/ WriteThin(a)
             \/ WriteLauncher(a) \/ Installer(a) \/ PortableArchive(a)
        BY <2>3, <1>2, <1>13, <1>14, <1>15, <1>16, <1>17, <1>18
  <2> QED
        BY <1>22, <2>1, <2>2, <2>3 DEF Command
<1> QED
      BY <1>19, <1>20, <1>22 DEF Steps

(* Nothing is packaged at first.                                             *)
LEMMA RunsStart == ASSUME PackageInit PROVE RunsInv
<1>1. PackageInv
      BY PackageStarts
<1>2. \A a \in App : pc[a] = "idle" /\ packed[a] = EmptyDir /\ dir[a] \in {None, Laid(EmptyDir, "user", "own")}
      BY DEF PackageInit, TreesInit
<1>3. Alone
      BY <1>2 DEF Alone, Active, Resting
<1>4. \A c \in Cache : Held(c) = {}
      BY DEF PackageInit, TreesInit, Held
<1>5. CacheInv
      BY <1>4, Trusting, CacheSteps DEF CacheInv, TrustedWhole, PackageInit, TreesInit
<1>6. ASSUME NEW a \in App PROVE Keeping(a) /\ RunInv(a)
  <2>1. Keeping(a)
        BY <1>2, CacheSteps DEF Keeping, Replacing, Backed, Marked, Sharing, At
  <2>2. NoLinks(Laid(EmptyDir, "user", "own"))
    <3>1. "user" \in DirEntry /\ "own" \in Content
          BY DEF DirEntry, Content
    <3>2. Beside(Laid(EmptyDir, "user", "own"), EmptyDir, "user", "own")
          BY <3>1, Bare, LaidBeside
    <3> QED
          BY <3>2, Bare DEF Beside, NoLinks
  <2>3. NoLinks(dir[a]) /\ NoLinks(packed[a])
    <3>1. NoLinks(EmptyDir) /\ NoLinks(None)
          BY Bare DEF NoLinks
    <3> QED
          BY <1>2, <2>2, <3>1
  <2>4. RunInv(a)
        BY <1>2, <2>3 DEF RunInv, Marked, Sharing, At
  <2> QED
        BY <2>1, <2>4
<1> QED
      BY <1>1, <1>3, <1>5, <1>6 DEF RunsInv

(* A command that takes its turn keeps what it needs and what the others     *)
(* have made.                                                                *)
LEMMA RunsStep == ASSUME RunsInv, Together = 1, [PackageNext]_packageVars PROVE RunsInv'
<1>1. PackageInv /\ PackageInv' /\ DirsTypeOK'
      BY PackageStep DEF RunsInv, PackageInv, PackageTypeOK
<1>2. ASSUME NEW a \in App, Steps(a) PROVE RunsInv'
  <2>1. Alone' /\ \A b \in App \ {a} : pc'[b] \in Resting
        BY <1>2, AloneStep DEF RunsInv
  <2>2. CacheInv' /\ Keeping(a)' /\ (Trusted("cef") => Trusted("cef")')
        BY <1>2, StoreStep
  <2>3. RunInv(a)'
        BY <1>1, <1>2, RunStep
  <2>4. ships' = ships /\ \A b \in App \ {a} : UNCHANGED Own(b)
        BY <1>1, <1>2, Frame DEF Own
  <2>5. \A b \in App \ {a} : Keeping(b)' /\ RunInv(b)'
        BY <2>1, <2>2, <2>4, RestsKeeping, RunElsewhere DEF RunsInv
  <2> QED
        BY <1>1, <2>1, <2>2, <2>3, <2>5 DEF RunsInv
<1>3. CASE UNCHANGED packageVars
  <2>1. UNCHANGED <<ships, stored, name, mine, rm, pc>> /\ UNCHANGED <<dir, listing, opt, packed>>
        BY <1>3 DEF packageVars, treeVars, ownVars
  <2>2. (\A c \in Cache : Held(c)' = Held(c)) /\ Whole' = Whole
        BY <2>1 DEF Held, Whole
  <2>3. \A c \in Cache : Trusted(c)' <=> Trusted(c)
        BY <2>2, Trusting, CacheSteps
  <2>4. CacheInv'
        BY <2>1, <2>2, <2>3 DEF RunsInv, CacheInv, TrustedWhole
  <2>5. ASSUME NEW a \in App PROVE Keeping(a)'
    <3>1. Keeping(a)
          BY DEF RunsInv
    <3>2. \A c \in Cache : Fills(c)' = Fills(c) /\ Replacing(c)' = Replacing(c) /\ Removing[c]' = Removing[c]
                            /\ Publishing[c]' = Publishing[c]
          BY <2>2 DEF Fills, Replacing, Removing, Publishing, Clearing
    <3>3. Trusted("laufey")' = Trusted("laufey") /\ Trusted("cef")' = Trusted("cef") /\ Held("cef")' = Held("cef")
          BY <2>2, <2>3, CacheSteps DEF Trusted
    <3> QED
          BY <2>1, <2>2, <2>3, <3>1, <3>2, <3>3 DEF Keeping, At
  <2>6. ASSUME NEW a \in App PROVE RunInv(a)'
        BY <2>1, <2>3, CacheSteps, RunElsewhere DEF RunsInv, Own
  <2>7. Alone'
        BY <2>1 DEF RunsInv, Alone, Active
  <2> QED
        BY <1>1, <2>4, <2>5, <2>6, <2>7 DEF RunsInv
<1> QED
      BY <1>2, <1>3 DEF PackageNext, Steps

(* PackagedRuns, for any number of app directories, builds and deaths, where *)
(* one command runs at a time.                                               *)
THEOREM Packaged == ASSUME Together = 1 PROVE PackageSpec => []PackagedRuns
<1>1. ASSUME RunsInv PROVE PackagedRuns
  <2>1. TrustedWhole /\ \A a \in App : RunInv(a)
        BY <1>1 DEF RunsInv, CacheInv
  <2>2. ships \subseteq Runtime
        BY <1>1 DEF RunsInv, PackageInv, PackageTypeOK, TreesTypeOK
  <2>3. Trusted("cef") => Runtime \subseteq Held("cef")
        BY <2>1, CacheSteps DEF TrustedWhole, Runtime
  <2>4. ASSUME NEW d, NEW so, Works(d, so, ships), Trusted("cef") \/ NoLinks(d) PROVE Runs(d, so)
    <3>1. \A i \in ships : i \in DOMAIN d /\ d[i] \in {"copy", "link"}
          BY <2>4 DEF Works, Shipped
    <3>2. \A i \in ships : d[i] = "copy" \/ (d[i] = "link" /\ Leads(i, "link"))
          BY <2>2, <2>3, <2>4, <3>1 DEF Works, NoLinks, Leads
    <3> QED
          BY <2>4, <3>1, <3>2 DEF Runs, Works
  <2>5. ASSUME NEW a \in App, At(a, "done")
        PROVE  IF "payload" \in Entries(a) THEN Runs(packed[a], So(a)) /\ dir[a]["launcher"] = "script"
               ELSE Runs(dir[a], So(a))
    <3>1. /\ Trusted("cef") \/ (NoLinks(dir[a]) /\ NoLinks(packed[a]))
          /\ IF IsArchived(a) THEN Works(packed[a], So(a), ships) /\ dir[a]["launcher"] = "script"
             ELSE Works(dir[a], So(a), ships)
          BY <2>1, <2>5 DEF RunInv, At
    <3> QED
          BY <2>4, <3>1 DEF IsArchived
  <2> QED
        BY <2>1, <2>5 DEF PackagedRuns
<1> QED
      BY RunsStart, RunsStep, <1>1, PTL DEF PackageSpec
=============================================================================
