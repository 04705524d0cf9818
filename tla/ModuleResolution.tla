--------------------------- MODULE ModuleResolution ---------------------------
(***************************************************************************)
(* What one import of an application leads to: in `inka run`, which asks    *)
(* the import map, tsconfig, the Deno cache and node_modules in turn, and   *)
(* in `inka build`, which leaves node_modules and files to the bundler.     *)
(* Between two commands the developer edits, installs and fetches, and what *)
(* is published changes.                                                    *)
(***************************************************************************)
EXTENDS Naturals, Sequences, FiniteSets

CONSTANTS
  Import,      \* the imports an entry may have
  Mapping,     \* what an import map may say of a bare name
  Disk,        \* the sets of files that may bear the imported name
  MaxPublished \* bound: how often remote modules are published

(* An import: a file by a name with or without an extension, a bare name, a *)
(* package with a version (0: any), a module of a registry or of a URL;     *)
(* "jsr" is a module of the registry, "moved" a URL that redirects to       *)
(* "plain".                                                                 *)
Wanted(k, e, p, u) == [kind |-> k, ext |-> e, pin |-> p, url |-> u]
Relative(e) == Wanted("relative", e, 0, "none")
Bare == Wanted("bare", "none", 0, "none")
Npm(p) == Wanted("npm", "none", p, "none")
Remote(u) == Wanted("remote", "none", 0, u)
Unmapped == Wanted("unmapped", "none", 0, "none")

Extension == {"none", "ts", "tsx", "mts", "cts", "js", "jsx", "mjs", "json"}
Url == {"jsr", "plain", "moved"}
Aimed(i) == i \in {Relative(e) : e \in Extension} \cup {Npm(i.pin)} \cup {Remote(u) : u \in Url}

ASSUME ResolutionAssumption ==
  /\ \A i \in Import : i = Bare \/ Aimed(i)
  /\ \A i \in Mapping : Aimed(i)
  /\ \A d \in Disk : d \subseteq Extension \ {"none"}
  /\ MaxPublished \in Nat

VARIABLES
  wanted,    \* the import
  mapping,   \* the import map: none at all, one without, or with this name
  hasMap,
  aliased,   \* tsconfig maps the bare name to the file
  granted,   \* the application may read outside of its tree
  files,     \* extensions with which the named file exists
  linked,    \* what is found on disk lies outside, behind a symbolic link
  packages,  \* versions in node_modules: nearest, at the root, as @jsr/...
  published, \* what the servers have
  cache,     \* the Deno cache
  fetched    \* history: a fetch has ended without a request that failed

diskVars == <<files, linked>>
remoteVars == <<published, cache, fetched>>
configVars == <<wanted, mapping, hasMap, aliased, granted>>
resolutionVars == <<configVars, diskVars, packages, remoteVars>>

Place == {"nearest", "hoisted", "mirror"}
Unversioned == 9  \* a package.json without a version

ResolutionInit ==
  /\ wanted \in Import
  /\ mapping \in Mapping \cup {Unmapped} /\ hasMap \in BOOLEAN /\ aliased \in BOOLEAN
  /\ wanted # Bare => mapping = Unmapped /\ ~aliased
  /\ mapping # Unmapped => hasMap
  /\ granted \in BOOLEAN
  /\ files = {} /\ linked = FALSE /\ packages = [p \in Place |-> 0]
  /\ published = 1 /\ cache = [u \in Url |-> 0] /\ fetched = FALSE

(* ---- what is found ----------------------------------------------------------- *)

Result(f, w, v) == [from |-> f, what |-> w, version |-> v]
Failed == Result("nothing", "none", 0)

FirstOf(names, present) ==
  LET at == {i \in DOMAIN names : names[i] \in present}
  IN IF at = {} THEN "none" ELSE names[CHOOSE i \in at : \A j \in at : i <= j]

(* An import map counts for bare names only.                                *)
Target == IF wanted = Bare /\ mapping # Unmapped THEN mapping ELSE wanted

(* The versions of a package in the order in which folders are asked: the   *)
(* one nearest to the importing file before the one at the root, and the    *)
(* package's own name before its name in the registry's npm mirror.         *)
PackageCandidates == <<"nearest", "hoisted", "mirror">>
PlaceOf(candidates) == FirstOf(candidates, {p \in Place : packages[p] # 0})
Satisfies(v, pin) == pin = 0 \/ v \in {pin, Unversioned}

(* A module of the cache; nothing is ever fetched for it.                   *)
CachedRemote(u) == IF cache[u] = 0 THEN Failed ELSE Result("remote", u, cache[u])

(* The graph `inka run` builds before it starts knows what the cache has;   *)
(* only through it does a name of the registry lead to a URL.               *)
RunGraphKnows(u) == cache[u] # 0

(* ---- inka run ---------------------------------------------------------------- *)

RunExtensions == <<"ts", "tsx", "mts", "cts", "js", "jsx", "mjs", "json">>
RunRewrites(e) ==
  CASE e = "js" -> <<"ts", "tsx">> [] e = "jsx" -> <<"tsx", "ts">>
    [] e = "mjs" -> <<"mts">> [] OTHER -> <<>>
RunFile(e) == FirstOf(IF e = "none" THEN RunExtensions ELSE <<e>> \o RunRewrites(e), files)

(* Only files whose real path lies in the tree are read, others by grant;   *)
(* JSON needs an attribute that this import does not have.                  *)
Confined == ~linked \/ granted
LoadFile(e) == IF e = "none" \/ e = "json" \/ ~Confined THEN Failed ELSE Result("file", e, 0)

AliasExtensions == <<"tsx", "ts", "jsx", "js", "json">>
AliasTarget == IF aliased /\ ~linked THEN FirstOf(AliasExtensions, files) ELSE "none"

(* Mutant: the version at the root is the one a pin is compared with. *)
RunPackageHoisted(pin) ==
  LET at == PlaceOf(PackageCandidates)
  IN IF at = "none" \/ ~Confined \/ (packages["hoisted"] # 0 /\ ~Satisfies(packages["hoisted"], pin))
     THEN Failed ELSE Result("package", at, packages[at])

(* The pin is compared with the version that the same lookup finds.         *)
RunPackage(pin) ==
  LET at == PlaceOf(PackageCandidates)
  IN IF at = "none" \/ ~Confined \/ ~Satisfies(packages[at], pin)
     THEN Failed ELSE Result("package", at, packages[at])

RunResult ==
  CASE Target.kind = "relative" -> LoadFile(RunFile(Target.ext))
    [] Target.kind = "bare" /\ AliasTarget # "none" -> LoadFile(AliasTarget)
    [] Target.kind = "bare" /\ AliasTarget = "none" -> RunPackage(0)
    [] Target.kind = "npm" -> RunPackage(Target.pin)
    [] Target.kind = "remote" ->
         IF Target.url # "jsr" \/ RunGraphKnows("jsr") THEN CachedRemote(Target.url) ELSE Failed

(* ---- inka build -------------------------------------------------------------- *)

(* The bundler's own rules for files and packages; it reads behind links.   *)
BuildRewrites(e) ==
  CASE e \in {"js", "jsx"} -> <<"ts", "tsx">> [] e = "mjs" -> <<"mts">> [] OTHER -> <<>>
BuildFile(e) ==
  LET f == FirstOf(IF e = "none" THEN AliasExtensions ELSE <<e>> \o BuildRewrites(e), files)
  IN IF f = "none" THEN Failed ELSE Result("file", f, 0)
BuildBare ==
  LET at == PlaceOf(<<"nearest", "hoisted">>)
  IN IF at = "none" THEN Failed ELSE Result("package", at, packages[at])

BuildPackage(pin) ==
  IF BuildBare # Failed /\ ~Satisfies(BuildBare.version, pin) THEN Failed ELSE BuildBare

(* Without an import map no graph is built, and so no registry module is    *)
(* known; a URL needs none.                                                 *)
BuildGraphKnows(u) == u # "jsr" \/ hasMap

BuildResult ==
  CASE Target.kind = "relative" -> BuildFile(Target.ext)
    [] Target.kind = "bare" /\ aliased /\ BuildFile("none") # Failed -> BuildFile("none")
    [] Target.kind = "bare" /\ ~(aliased /\ BuildFile("none") # Failed) -> BuildBare
    [] Target.kind = "npm" -> BuildPackage(Target.pin)
    [] Target.kind = "remote" -> IF BuildGraphKnows(Target.url) THEN CachedRemote(Target.url) ELSE Failed

(* ---- steps: the commands and what happens between them ---------------------- *)

(* What a fetch has to ask for: a redirect is followed, and only what it    *)
(* leads to is written into the cache.                                      *)
Missing == {u \in Url : u = (IF Target.url = "moved" THEN "plain" ELSE Target.url) /\ cache[u] = 0}

(* Mutant: as in a build, no graph is built without an import map. *)
FetchByMap ==
  \E got \in SUBSET (IF hasMap THEN Missing ELSE {}) :
    /\ Target.kind = "remote"
    /\ cache' = [u \in Url |-> IF u \in got THEN published ELSE cache[u]]
    /\ fetched' = (fetched \/ got = Missing \/ ~hasMap)
    /\ UNCHANGED <<configVars, diskVars, packages, published>>

(* `inka cache`, and --fetch of `inka run` and `inka build`; a request that *)
(* fails leaves the cache without the module, and what is there is not      *)
(* asked for again.                                                         *)
FetchModules ==
  \E got \in SUBSET Missing :
    /\ Target.kind = "remote"
    /\ cache' = [u \in Url |-> IF u \in got THEN published ELSE cache[u]]
    /\ fetched' = (fetched \/ got = Missing)
    /\ UNCHANGED <<configVars, diskVars, packages, published>>

PublishModules ==
  /\ Target.kind = "remote" /\ published < MaxPublished
  /\ published' = published + 1
  /\ UNCHANGED <<configVars, diskVars, packages, cache, fetched>>

Edit ==
  /\ Target.kind \in {"relative", "bare"}
  /\ files' \in Disk /\ linked' \in BOOLEAN
  /\ UNCHANGED <<configVars, packages, remoteVars>>

InstallPackage ==
  /\ Target.kind \in {"bare", "npm"}
  /\ \E p \in Place, v \in {0, 1, 2, Unversioned} : packages' = [packages EXCEPT ![p] = v]
  /\ linked' \in BOOLEAN
  /\ UNCHANGED <<configVars, files, remoteVars>>

ResolutionNext == FetchModules \/ PublishModules \/ Edit \/ InstallPackage

(* ---- properties -------------------------------------------------------------- *)

(* Several files bear the name and the import has no extension, or it has   *)
(* .jsx and both TypeScript forms are there: the two orders differ.  An     *)
(* alias that leads out of the tree counts in a build only.                 *)
Ambiguous ==
  \/ Target.kind = "relative" /\ Target.ext = "none" /\ Cardinality(files) > 1
  \/ Target.kind = "relative" /\ Target.ext = "jsx" /\ "jsx" \notin files /\ {"ts", "tsx"} \subseteq files
  \/ aliased /\ linked

(* An application runs on what it was built from: where `inka run` and      *)
(* `inka build` both accept an import they take the same file, version or   *)
(* cached module, unless the name is ambiguous; they accept the same        *)
(* packages of the tree, and neither takes a version that a pin excludes    *)
(* (tsconfig.rs:3-5, lib.rs:349-352, resolve.rs:333-335, node_services.rs:  *)
(* 663-680, inka-bundler lib.rs:387-419).                                   *)
BuildRunAgree ==
  /\ RunResult # Failed /\ BuildResult # Failed /\ ~Ambiguous => RunResult = BuildResult
  /\ Target.kind = "npm" /\ ~linked /\ packages["mirror"] = 0 =>
       (RunResult = Failed <=> BuildResult = Failed)
  /\ \A r \in {RunResult, BuildResult} : r.from = "package" => Satisfies(r.version, Target.pin)

(* After a fetch of which no request failed the application runs, and with  *)
(* an import map builds, without a network, on what was fetched, whatever   *)
(* is published since; a redirected URL is the exception                    *)
(* (inka-bundler lib.rs:87-90, resolve.rs:322-330).                         *)
FetchedRunsOffline ==
  fetched /\ Target.url # "moved" =>
    /\ RunResult.from = "remote" /\ RunResult.version <= published
    /\ hasMap \/ Target.url = "plain" => BuildResult = RunResult
================================================================================
