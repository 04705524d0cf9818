------------------------------- MODULE Build -------------------------------
(***************************************************************************)
(* `inka build`: the arguments, the manifest made of them and of the        *)
(* project's configuration, the embedded packages, the artifact written     *)
(* beside its output path and moved there, and a launch of it; and          *)
(* `inka run`, which takes the same arguments to the runtime directly.      *)
(***************************************************************************)
EXTENDS Permissions, Versions, EmbedPackage

CONSTANTS
  Project,   \* configurations: package.json, deno.json, deno.jsonc
  Token,     \* arguments
  MaxTokens, \* bound: arguments of one command
  Toolchain, \* channels of the toolchain: "stable", "beta", "dev"
  Store,     \* sets of installed tuples
  Floor      \* SECURITY_FLOOR, the first tuple with every capability

(* What the JSON of a file says, and what the command line is read as.       *)
IsConfig(f) ==
  IsMap(f.compile.map) /\ IsMap(f.marker.map) /\ \A n \in DOMAIN f.sets : IsMap(f.sets[n].map)

ASSUME BuildAssumption ==
  /\ \A p \in Project : IsConfig(p.json) /\ IsConfig(p.jsonc) /\ IsConfig(p.pkg)
  /\ \A t \in Token :
       /\ t.k \in {"all", "set", "allow", "deny", "base", "runtime", "tested", "beta", "stable"}
       /\ t.k \in {"allow", "deny"} => t.list \subseteq Items
  /\ Floor \in Version /\ \A S \in Store : S \subseteq Version /\ IsFiniteSet(S)

VARIABLES
  cmd,       \* "build" or "run"
  project, toolchain,
  args,      \* the arguments read
  flags,     \* what they say
  phase,     \* where the command, then the launch, is
  manifest,  \* of the artifact
  explicit,  \* the runtime requirement was given by a flag or the configuration
  needs,     \* capabilities the embedded files need
  tmp, out,  \* the temporary file and the output path
  launched   \* what the runtime is started with, and the store it is taken from

buildOnly == <<cmd, project, toolchain, args, flags, phase, manifest, explicit, needs, tmp, out, launched>>
buildVars == <<buildOnly, embedVars>>

(* ---- configuration -------------------------------------------------------- *)

NoSpec == [op |-> "none", text |-> [nums |-> <<>>, tags |-> <<>>]]
Source(k, n, m) == [kind |-> k, name |-> n, map |-> m]
Absent == Source("absent", "", <<>>)
Set(object, m) == [object |-> object, map |-> m]
NoSet == Set(FALSE, <<>>)
NoConfig == [state |-> "missing", compile |-> Absent, marker |-> Absent, sets |-> <<>>,
             runtime |-> NoSpec, tested |-> NoSpec, base |-> "none"]

(* deno.jsonc counts when deno.json is absent or cannot be used. *)
Usable(f) == IF f.state = "ok" THEN f ELSE NoConfig
Deno == IF project.json.state = "ok" THEN project.json ELSE Usable(project.jsonc)
Package == Usable(project.pkg)

First(a, b, none) == IF a # none THEN a ELSE b

(* resolve_named_set: per category, deno.json before package.json. *)
NamedSet(n) ==
  LET d == n \in DOMAIN Deno.sets
      p == n \in DOMAIN Package.sets
  IN CASE d /\ p /\ Deno.sets[n].object -> Set(TRUE, Overlaid(Deno.sets[n].map, Package.sets[n].map))
       [] d /\ ~(p /\ Deno.sets[n].object) -> Deno.sets[n]
       [] p /\ ~d -> Package.sets[n]
       [] OTHER -> NoSet

Selected(s) == IF s.kind = "map" THEN Set(TRUE, s.map) ELSE IF s.kind = "name" THEN NamedSet(s.name) ELSE NoSet
Marker == First(Deno.marker, Package.marker, Absent)

(* Mutant: without a selected source the default set is baked. *)
ConfigDslOfDefault ==
  IF Deno.compile # Absent THEN CategoryMap(Selected(Deno.compile).map)
  ELSE IF Marker.kind = "name" /\ Marker.name = "all" THEN [NoDsl EXCEPT !.all = TRUE]
  ELSE CategoryMap(IF Marker = Absent THEN NamedSet("default").map ELSE Selected(Marker).map)

(* effective_permission_map: compile.permissions, then the marker. *)
ConfigDsl ==
  IF Deno.compile # Absent THEN CategoryMap(Selected(Deno.compile).map)
  ELSE IF Marker.kind = "name" /\ Marker.name = "all" THEN [NoDsl EXCEPT !.all = TRUE]
  ELSE CategoryMap(Selected(Marker).map)

ConfigRuntime == First(Deno.runtime, Package.runtime, NoSpec)
ConfigTested == First(Deno.tested, Package.tested, NoSpec)
ConfigBase == First(Deno.base, Package.base, "none")

(* The named set with which a run gets what a build would bake. *)
HintedSet ==
  LET s == First(Deno.compile, Marker, Absent)
      all == Deno.compile = Absent /\ s.name = "all"
  IN IF s.kind = "name" /\ ~all THEN s.name ELSE ""

(* ---- arguments -------------------------------------------------------------- *)

NoFlags == [all |-> FALSE, set |-> "", allow |-> {}, deny |-> {}, base |-> "none",
            runtime |-> NoSpec, tested |-> NoSpec, beta |-> FALSE, stable |-> FALSE]

(* A category without a list, or with an empty one, means all of it. *)
ListOf(t) == IF t.list = NoLine THEN {All} ELSE t.list

WithToken(f, t) ==
  CASE t.k = "all" -> [f EXCEPT !.all = TRUE]
    [] t.k = "set" -> [f EXCEPT !.set = t.name]
    [] t.k \in {"allow", "deny"} -> [f EXCEPT ![t.k] = @ \cup {[cat |-> t.cat, list |-> ListOf(t)]}]
    [] t.k \in {"base", "runtime", "tested"} -> [f EXCEPT ![t.k] = t.val]
    [] OTHER -> [f EXCEPT ![t.k] = TRUE]

Refused(t) ==
  t.k \in {"allow", "deny"} /\ (t.cat \notin Category \/ Newline \in t.list)

Fail == phase' = "failed"

ReadArg(t) ==
  /\ phase = "args" /\ Len(args) < MaxTokens
  /\ cmd = "run" => t.k # "tested"
  /\ args' = Append(args, t)
  /\ \/ Refused(t) /\ Fail /\ UNCHANGED flags
     \/ ~Refused(t) /\ flags' = WithToken(flags, t) /\ UNCHANGED phase
  /\ UNCHANGED <<cmd, project, toolchain, manifest, explicit, needs, tmp, out, launched, embedVars>>

Selects == flags.all \/ flags.set # "" \/ flags.allow # {}

Valid ==
  /\ flags.all => flags.set = "" /\ flags.allow = {}
  /\ flags.set # "" => flags.allow = {} /\ flags.deny = {}
  /\ flags.deny # {} => flags.all \/ flags.allow # {}
  /\ flags.base \in {"none", "exe", "cwd"}

Effective ==
  ResolveChannel(toolchain, IF flags.beta THEN "beta" ELSE IF flags.stable THEN "stable" ELSE "none", "none")

(* What the flags grant: the DSL of `run`, and of a build that selects. *)
CliDsl == IF flags.set # "" THEN CategoryMap(NamedSet(flags.set).map) ELSE FlagsDsl(flags)

ValidateArgs ==
  /\ phase = "args"
  /\ \/ Valid /\ ~(flags.beta /\ flags.stable) /\ Effective # "refused" /\ phase' = IF cmd = "build" THEN "manifest" ELSE "start"
     \/ (~Valid \/ (flags.beta /\ flags.stable) \/ Effective = "refused") /\ Fail
  /\ UNCHANGED <<cmd, project, toolchain, args, flags, manifest, explicit, needs, tmp, out, launched, embedVars>>

(* ---- the manifest ------------------------------------------------------------- *)

ValidSpec(s) == s = NoSpec \/ ParseVersion(s.text) # NoVersion

(* The lines the launcher reads of it; a bare runtime version is an exact    *)
(* one, and `tested-against` takes no operator.                             *)
RuntimeLine(s) ==
  [key |-> CASE s.op = ">=" -> "min" [] s.op = ">" -> "gt" [] OTHER -> "exact", val |-> s.text]
TestedLine(s) == [key |-> "tested", val |-> IF s.op = "" THEN s.text ELSE [s.text EXCEPT !.nums = <<Bad>>]]
LinesOf(m) ==
  (IF m.runtime = NoSpec THEN <<>> ELSE <<RuntimeLine(m.runtime)>>)
  \o (IF m.tested = NoSpec THEN <<>> ELSE <<TestedLine(m.tested)>>)
  \o (IF m.channel = "none" THEN <<>> ELSE <<[key |-> "channel", val |-> m.channel]>>)

NoManifest == [runtime |-> NoSpec, tested |-> NoSpec, base |-> "none", channel |-> "none",
               dsl |-> NoDsl, requires |-> {}]
AtLeast(v) == [op |-> ">=", text |-> Display(v)]

ResolveManifest ==
  LET dsl == IF Selects THEN CliDsl ELSE ConfigDsl
      ok == /\ \A s \in {ConfigRuntime, ConfigTested, flags.runtime, flags.tested} : ValidSpec(s)
            /\ ConfigBase \in {"none", "exe", "cwd"} /\ Representable(dsl)
      runtime == First(flags.runtime, ConfigRuntime, NoSpec)
      m == [runtime |-> First(runtime, AtLeast(Floor), NoSpec),
            tested |-> First(flags.tested, ConfigTested, NoSpec),
            base |-> First(flags.base, ConfigBase, "none"),
            channel |-> "none", dsl |-> dsl, requires |-> {}]
      beta == Effective = "beta" \/ WantsPrerelease(ParseManifest(LinesOf(m)))
  IN /\ phase = "manifest"
     /\ \/ /\ ok /\ phase' = "embed"
           /\ manifest' = [m EXCEPT !.channel = IF beta THEN "beta" ELSE "none"]
           /\ explicit' = (runtime # NoSpec)
        \/ ~ok /\ Fail /\ UNCHANGED <<manifest, explicit>>
     /\ UNCHANGED <<cmd, project, toolchain, args, flags, needs, tmp, out, launched, embedVars>>

(* ---- packing ------------------------------------------------------------------- *)

EmbedPackages == phase = "embed" /\ EmbedNext /\ UNCHANGED buildOnly

(* Mutant: the floor is raised for no artifact. *)
PackWithoutFloor(native) ==
  LET n == (IF native THEN {"native-addon"} ELSE {}) \cup (IF asked # <<>> THEN {"raw-cjs"} ELSE {})
             \cup (IF manifest.dsl.allow["import"] # NoLine THEN {"import-perm"} ELSE {})
  IN /\ phase = "embed" /\ Embedded
     /\ needs' = n /\ manifest' = [manifest EXCEPT !.requires = n, !.runtime = IF explicit THEN @ ELSE NoSpec]
     /\ phase' = "create"
     /\ UNCHANGED <<cmd, project, toolchain, args, flags, explicit, tmp, out, launched, embedVars>>

(* `native`: a .node file is among the embedded files.  A launcher that      *)
(* cannot read the archive, or none at all, ends the build.                 *)
Pack(native) ==
  LET n == (IF native THEN {"native-addon"} ELSE {}) \cup (IF asked # <<>> THEN {"raw-cjs"} ELSE {})
             \cup (IF manifest.dsl.allow["import"] # NoLine THEN {"import-perm"} ELSE {})
  IN /\ phase = "embed" /\ Embedded
     /\ needs' = n
     /\ manifest' = [manifest EXCEPT !.requires = n, !.runtime = IF explicit THEN @ ELSE AtLeast(Floor)]
     /\ phase' = "create" \/ Fail
     /\ UNCHANGED <<cmd, project, toolchain, args, flags, explicit, tmp, out, launched, embedVars>>

(* write_executable, call by call; an error removes the temporary file.      *)
CreateTemp ==
  /\ phase = "create"
  /\ \/ phase' = "write" /\ tmp' = "part"
     \/ Fail /\ UNCHANGED tmp
  /\ UNCHANGED <<cmd, project, toolchain, args, flags, manifest, explicit, needs, out, launched, embedVars>>

(* Mutant: the output is written in place. *)
WriteTempInPlace ==
  /\ phase = "write" /\ phase' = "rename" /\ tmp' = "new" /\ out' = "part"
  /\ UNCHANGED <<cmd, project, toolchain, args, flags, manifest, explicit, needs, launched, embedVars>>

WriteTemp ==
  /\ phase = "write"
  /\ \/ phase' = "rename" /\ tmp' = "new"
     \/ Fail /\ tmp' = "none"
  /\ UNCHANGED <<cmd, project, toolchain, args, flags, manifest, explicit, needs, out, launched, embedVars>>

RenameTemp ==
  /\ phase = "rename" /\ tmp' = "none"
  /\ \/ phase' = "built" /\ out' = tmp
     \/ Fail /\ UNCHANGED out
  /\ UNCHANGED <<cmd, project, toolchain, args, flags, manifest, explicit, needs, launched, embedVars>>

(* The command dies; a temporary file it has created stays. *)
Killed ==
  /\ phase \in {"embed", "create", "write", "rename"} /\ Fail
  /\ UNCHANGED <<cmd, project, toolchain, args, flags, manifest, explicit, needs, tmp, out, launched, embedVars>>

(* ---- the runtime starts ---------------------------------------------------------- *)

Eligibles(S) ==
  LET m == ParseManifest(LinesOf(manifest))
  IN IF m.malformed THEN {} ELSE Eligible(m, WantsPrerelease(m), S)

(* Capabilities are advertised from the first tuple that has them; of an    *)
(* older one the launcher asks nothing.                                     *)
Has(v) == IF Less(v, Floor) THEN {} ELSE {"native-addon", "raw-cjs", "import-perm"}

Launch(S) ==
  LET v == Newest(Eligibles(S))
      dsl == ExpandPermissions(manifest.dsl, manifest.base)
  IN /\ phase = "built"
     /\ \/ v # NoVersion /\ Accepted(dsl) /\ phase' = "running" /\ launched' = [dsl |-> dsl, tuple |-> v, of |-> S]
        \/ (v = NoVersion \/ ~Accepted(dsl)) /\ phase' = "refused" /\ launched' = [dsl |-> dsl, tuple |-> v, of |-> S]
     /\ UNCHANGED <<cmd, project, toolchain, args, flags, manifest, explicit, needs, tmp, out, embedVars>>

(* choose_runtime reads the arguments again, up to the first word that is    *)
(* no option: the value of an option is such a word.                        *)
SeenRuntime ==
  LET k == {i \in DOMAIN args : args[i].k = "runtime" /\ \A j \in 1..(i - 1) : args[j].words = 1}
  IN IF k = {} THEN NoSpec ELSE args[CHOOSE i \in k : \A j \in k : i <= j].val

RunDirectly(S) ==
  LET dsl == ExpandPermissions(CliDsl, flags.base)
      offered == {v \in S : IsPrerelease(v) => Effective = "beta"}
      wanted == ParseVersion(SeenRuntime.text)
      v == IF SeenRuntime = NoSpec THEN Newest(offered)
           ELSE IF SeenRuntime.op = "" /\ wanted \in offered THEN wanted ELSE NoVersion
  IN /\ phase = "start"
     /\ \/ /\ v # NoVersion /\ Representable(dsl) /\ Accepted(dsl)
           /\ phase' = "running" /\ launched' = [dsl |-> dsl, tuple |-> v, of |-> S]
        \/ (v = NoVersion \/ ~Representable(dsl) \/ ~Accepted(dsl)) /\ Fail /\ UNCHANGED launched
     /\ UNCHANGED <<cmd, project, toolchain, args, flags, manifest, explicit, needs, tmp, out, embedVars>>

BuildInit(graphs, externals) ==
  /\ cmd \in {"build", "run"} /\ project \in Project /\ toolchain \in Toolchain
  /\ args = <<>> /\ flags = NoFlags /\ phase = "args"
  /\ manifest = NoManifest /\ explicit = FALSE /\ needs = {}
  /\ tmp = "none" /\ out \in {"none", "earlier"}
  /\ launched = [dsl |-> NoDsl, tuple |-> NoVersion, of |-> {}]
  /\ EmbedInit(graphs, externals)

BuildNext ==
  \/ \E t \in Token : ReadArg(t)
  \/ ValidateArgs \/ ResolveManifest \/ EmbedPackages
  \/ \E native \in BOOLEAN : Pack(native)
  \/ CreateTemp \/ WriteTemp \/ RenameTemp \/ Killed
  \/ \E S \in Store : Launch(S) \/ RunDirectly(S)

-----------------------------------------------------------------------------
(* What a source says of a category, read as Deno documents it: items, and   *)
(* {All} for `true`.                                                         *)
Said(v) ==
  CASE v.kind = "true" -> {All} [] v.kind \in {"string", "array"} -> v.items \ {Empty} [] OTHER -> {}
MapSays(map, c, deny) ==
  IF c \notin DOMAIN map THEN {}
  ELSE IF deny THEN Said(map[c].deny)
  ELSE Said(IF map[c].kind = "object" THEN map[c].allow ELSE map[c])
SetSays(n, c, deny) ==
  LET inDeno == n \in DOMAIN Deno.sets
      silent == inDeno /\ (~Deno.sets[n].object \/ c \in DOMAIN Deno.sets[n].map)
  IN IF silent THEN MapSays(Deno.sets[n].map, c, deny)
     ELSE IF n \in DOMAIN Package.sets THEN MapSays(Package.sets[n].map, c, deny)
     ELSE {}
SourceSays(s, c, deny) ==
  CASE s.kind = "map" -> MapSays(s.map, c, deny)
    [] s.kind = "name" -> SetSays(s.name, c, deny)
    [] OTHER -> {}

Asked(c, deny) ==
  LET entries == IF deny THEN flags.deny ELSE flags.allow
      listed == UNION {e.list : e \in {x \in entries : x.cat = c}}
  IN CASE flags.all -> IF deny THEN listed ELSE {All}
       [] flags.set # "" -> SetSays(flags.set, c, deny)
       [] ~flags.all /\ flags.set = "" /\ flags.allow # {} -> listed
       [] cmd = "build" /\ ~Selects /\ Deno.compile # Absent -> SourceSays(Deno.compile, c, deny)
       [] cmd = "build" /\ ~Selects /\ Deno.compile = Absent ->
            IF Marker.kind = "name" /\ Marker.name = "all" THEN IF deny THEN {} ELSE {All}
            ELSE SourceSays(Marker, c, deny)
       [] OTHER -> {}

(* Relative paths of read and write belong to the launch directory, or to    *)
(* the artifact's under path-base exe.                                       *)
Place(c, i) ==
  LET base == IF cmd = "build" THEN manifest.base ELSE flags.base
  IN IF c \notin PathCategory THEN i
     ELSE IF i.text = "exe token" THEN [text |-> ".", at |-> "exe"]
     ELSE IF i.text \in Relative /\ base = "exe" THEN [text |-> i.text, at |-> "exe"] ELSE i
Covers(items, c, j) == All \in items \/ \E i \in items \ {Empty} : Place(c, i) = j
Places == {[text |-> t, at |-> a] : t \in Plain \cup Relative \cup {"."}, a \in {"launch", "exe"}}

(* A denial of nothing but separators reaches Deno as a denial of all.        *)
Denied(c, j) == Asked(c, TRUE) = {Empty} \/ Covers(Asked(c, TRUE), c, j)

(* The flags that `inka run` prints as the way to run with what a build bakes *)
(* do that (config.rs:880-942, run.rs:429-446).                              *)
HintReproducesBuild ==
  phase = "manifest" /\ ~Selects /\ HintedSet # "" => CategoryMap(NamedSet(HintedSet).map) = ConfigDsl

(* What runs is allowed exactly what the source that counts grants and does  *)
(* not deny: a value without items never becomes "all", a set that is only   *)
(* meant for development is never baked, and relative paths are taken from    *)
(* the directory the path base names (config.rs:11-19, permissions.rs:161,   *)
(* lib.rs:888-953, runtime lib.rs:472-606).                                  *)
RunsAsGranted ==
  /\ HintReproducesBuild
  /\ phase = "running" =>
       \A c \in Category, j \in Places :
         Permits(launched.dsl, c, j) <=> Covers(Asked(c, FALSE), c, j) /\ ~Denied(c, j)

(* A list of nothing but separators. *)
EmptyList == \E c \in Category : manifest.dsl.allow[c] = {Empty}

(* An artifact never runs on a tuple that lacks a capability its files need,  *)
(* unless its runtime was named explicitly; and one that was built starts on  *)
(* every store with a tuple that has every capability, but for a list of      *)
(* nothing but separators and a requirement of its own (build.rs:340-366,     *)
(* 541-581, launcher main.rs:397-448).                                        *)
StartsAsBuilt ==
  /\ phase = "running" /\ cmd = "build" /\ ~explicit => needs \subseteq Has(launched.tuple)
  /\ phase = "refused" =>
       \/ explicit \/ manifest.tested # NoSpec
       \/ \A v \in launched.of : ~IsPrerelease(v) => Has(v) = {}
       \/ EmptyList

Output == INSTANCE AtomicFile WITH
  Content <- {"earlier", "new"}, None <- "none", file <- out, ready <- IF tmp = "new" THEN tmp ELSE "none"

(* The output path changes only by becoming a finished artifact (build.rs:    *)
(* 462-499); see AtomicFile.                                                  *)
ReplacesAtomically == Output!Spec
=============================================================================
