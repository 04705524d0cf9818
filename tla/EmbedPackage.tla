---------------------------- MODULE EmbedPackage ----------------------------
(***************************************************************************)
(* `inka build --external`: a package and what it needs at run time are     *)
(* copied below node_modules of the artifact.  A folder is one version of a *)
(* package in the project; `deps` says to which folder each of its          *)
(* dependencies resolves there.  Folders lie apart, as pnpm and bun link    *)
(* them: none holds another one's files.                                    *)
(*                                                                          *)
(* A path in the artifact is the sequence of the package names on it:       *)
(* <<a, b>> is node_modules/a/node_modules/b.                               *)
(***************************************************************************)
EXTENDS Naturals, Sequences, FiniteSets

CONSTANTS
  Folder,  \* folders of packages in the project
  NameOf,  \* the name of the package in a folder
  NoFolder \* no folder

ASSUME EmbedAssumption == NoFolder \notin Folder /\ DOMAIN NameOf = Folder

VARIABLES
  deps,     \* per folder: dependency name -> folder it resolves to
  asked,    \* the packages to embed
  left,     \* those of them that are still to be embedded
  queue,    \* [folder, path] of the copies that are still to be made
  visited,  \* those that were made
  current,  \* the copy whose dependencies are being looked at
  names,    \* and those of its dependencies that are still to be looked at
  claimed,  \* per name: the folder copied to the top level
  tree,     \* path -> folder: what this package brings
  files     \* path -> folder: what the artifact has

embedVars == <<deps, asked, left, queue, visited, current, names, claimed, tree, files>>

(* One more entry, which replaces one of the same key; and the entries of g   *)
(* for which f has none.                                                     *)
With(f, x, y) == [z \in DOMAIN f \cup {x} |-> IF z = x THEN y ELSE f[z]]
Overlaid(f, g) == [x \in DOMAIN f \cup DOMAIN g |-> IF x \in DOMAIN f THEN f[x] ELSE g[x]]

Nothing == [folder |-> NoFolder, path |-> <<>>]
NoFiles == [p \in {} |-> NoFolder]

EmbedInit(graphs, externals) ==
  /\ deps \in graphs /\ asked \in externals /\ left = asked
  /\ queue = <<>> /\ visited = {} /\ current = Nothing /\ names = {}
  /\ claimed = NoFiles /\ tree = NoFiles /\ files = NoFiles

(* collect_package starts over for every package. *)
BeginPackage ==
  /\ left # <<>> /\ queue = <<>> /\ current = Nothing /\ tree = NoFiles
  /\ LET f == Head(left) IN
     /\ claimed' = With(NoFiles, NameOf[f], f)
     /\ queue' = <<[folder |-> f, path |-> <<NameOf[f]>>]>>
  /\ visited' = {}
  /\ UNCHANGED <<deps, asked, left, current, names, tree, files>>

(* walk_package: the files of one folder. *)
Copy ==
  /\ current = Nothing /\ queue # <<>>
  /\ LET c == Head(queue) IN
     IF c \in visited THEN UNCHANGED <<visited, tree, current, names>>
     ELSE /\ visited' = visited \cup {c}
          /\ tree' = With(tree, c.path, c.folder)
          /\ current' = c /\ names' = DOMAIN deps[c.folder]
  /\ queue' = Tail(queue)
  /\ UNCHANGED <<deps, asked, left, claimed, files>>

(* Mutant: a second version of a package is taken for the first one. *)
FollowDepByName(n) ==
  LET g == deps[current.folder][n] IN
  /\ n \in names /\ names' = names \ {n}
  /\ IF n \in DOMAIN claimed
     THEN UNCHANGED <<queue, claimed>>
     ELSE /\ queue' = Append(queue, [folder |-> g, path |-> <<n>>])
          /\ claimed' = With(claimed, n, g)
  /\ UNCHANGED <<deps, asked, left, visited, current, tree, files>>

(* One dependency, in the order in which package.json lists them. *)
FollowDep(n) ==
  LET g == deps[current.folder][n] IN
  /\ n \in names /\ names' = names \ {n}
  /\ \/ /\ n \in DOMAIN claimed /\ claimed[n] = g
        /\ UNCHANGED <<queue, claimed>>
     \/ /\ n \in DOMAIN claimed /\ claimed[n] # g
        /\ queue' = Append(queue, [folder |-> g, path |-> Append(current.path, n)])
        /\ UNCHANGED claimed
     \/ /\ n \notin DOMAIN claimed
        /\ queue' = Append(queue, [folder |-> g, path |-> <<n>>])
        /\ claimed' = With(claimed, n, g)
  /\ UNCHANGED <<deps, asked, left, visited, current, tree, files>>

EndCopy ==
  /\ current # Nothing /\ names = {}
  /\ current' = Nothing
  /\ UNCHANGED <<deps, asked, left, queue, visited, names, claimed, tree, files>>

(* push_unique: what an earlier package brought stays. *)
EndPackage ==
  /\ tree # NoFiles /\ queue = <<>> /\ current = Nothing
  /\ files' = Overlaid(files, tree)
  /\ tree' = NoFiles /\ left' = Tail(left)
  /\ UNCHANGED <<deps, asked, queue, visited, current, names, claimed>>

Embedded == left = <<>>

EmbedNext ==
  \/ BeginPackage \/ Copy \/ EndCopy \/ EndPackage
  \/ \E n \in names : FollowDep(n)

-----------------------------------------------------------------------------
(* Node's lookup inside the artifact: the nearest node_modules above the    *)
(* copy that holds the name.                                                *)
Found(path, n) ==
  LET at(k) == Append(SubSeq(path, 1, k), n)
      ks == {k \in 0..Len(path) : at(k) \in DOMAIN files}
  IN IF ks = {} THEN NoFolder ELSE files[at(CHOOSE k \in ks : \A j \in ks : j <= k)]

(* Whatever the artifact holds of a package finds every dependency it found *)
(* in the project; and when one package was embedded, what lies at the top  *)
(* level finds the version of it that it found there (embed.rs:99-114,      *)
(* 143-169).                                                                *)
EmbeddedResolves ==
  Embedded =>
    \A p \in DOMAIN files : \A n \in DOMAIN deps[files[p]] :
      /\ Found(p, n) # NoFolder
      /\ Len(asked) = 1 /\ Len(p) = 1 => Found(p, n) = deps[files[p]][n]
=============================================================================
