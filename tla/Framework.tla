------------------------------- MODULE Framework -------------------------------
(***************************************************************************)
(* `inka desktop .`: which framework a project is taken for, which entry    *)
(* and which directories are packaged for it, and the build that runs in    *)
(* between.  The project's files are looked at before its build has run, so *)
(* what an earlier build has left decides what is packaged.                 *)
(***************************************************************************)
EXTENDS Naturals, Sequences

CONSTANT Project  \* the projects a developer may have

(* What detection looks at: configuration files, dependencies (each as the  *)
(* rule for its framework wants it), the import of Fresh, the text of       *)
(* svelte.config, and files of the sources.                                 *)
ASSUME ProjectAssumption ==
  \A p \in Project :
    /\ p.configs \subseteq {"next", "astro", "nuxt", "svelte", "vite"}
    /\ p.deps \subseteq {"sveltekit", "remix", "router", "solid", "tanstack", "vite"}
    /\ p.fresh \in {"none", "gen", "1", "2"} /\ p.adapter \in {"none", "deno", "node", "nitro", "auto"}
    /\ p.preset \in {"ts", "mjs"} /\ {p.spa, p.prerenders} \subseteq BOOLEAN

VARIABLES
  project,   \* the project as it is now
  outputs,   \* build outputs that lie in it
  packaged,  \* what the last packaging has shipped
  packagings \* packagings of this project in a row whose build did not fail

frameworkVars == <<project, outputs, packaged, packagings>>

Found(n, e, i, b, d) == [name |-> n, entry |-> e, include |-> i, build |-> b, dev |-> d]
NotFound == Found("none", "none", {}, FALSE, "none")
Unbundlable == Found("error", "none", {}, FALSE, "none")

(* ---- the detections ----------------------------------------------------------- *)

Nextjs == Found("Next.js", "none", {}, FALSE, "none")
Astro == Found("Astro", "dist", {"dist"}, TRUE, "none")

IsFresh2(p, out) == "_fresh" \in out \/ p.fresh = "2"
Fresh(p, out) ==
  IF IsFresh2(p, out) THEN Found("Fresh", "_fresh", {"_fresh"}, TRUE, "external")
  ELSE Found("Fresh", "source", {}, FALSE, "none")

Remix == Found("Remix", "build/server", {"build"}, TRUE, "external")
ReactRouter(p) ==
  IF p.spa THEN Found("ReactRouter", "source", {"build/client"}, TRUE, "external")
  ELSE Found("ReactRouter", "build/server", {"build"}, TRUE, "external")

Nitro(n, out) ==
  Found(n, IF ".output/ts" \in out THEN ".output/ts" ELSE ".output/mjs", {".output"}, TRUE, "external")

Vite(p) == Found("Vite", "source", {"dist"}, TRUE, "runtime")

Kit(e, i) == Found("SvelteKit", e, i, TRUE, "runtime")
SveltekitBuildIncludes(out) == {"build/client", "build/static", "build/prerendered"} \cap out
(* Mutant: what the configuration says comes before what is there. *)
SveltekitByConfig(p, out) ==
  CASE p.adapter = "deno" -> Kit(".deno-deploy", {".deno-deploy"})
    [] p.adapter = "node" -> Kit("build/index", {"build/client"})
    [] p.adapter = "nitro" -> Kit(".output/mjs", {".output"})
    [] OTHER -> Unbundlable

(* An output of an adapter counts for more than the one configured.         *)
Sveltekit(p, out) ==
  CASE ".deno-deploy" \in out -> Kit(".deno-deploy", {".deno-deploy"})
    [] ".deno-deploy" \notin out /\ ".output/ts" \in out -> Kit(".output/ts", {".output"})
    [] out \cap {".deno-deploy", ".output/ts"} = {} /\ ".output/mjs" \in out -> Kit(".output/mjs", {".output"})
    [] out \cap {".deno-deploy", ".output/ts", ".output/mjs"} = {} /\ "build/index" \in out ->
         Kit("build/index", SveltekitBuildIncludes(out))
    [] OTHER -> SveltekitByConfig(p, out)

(* The first rule that applies; a config file counts for more than a        *)
(* dependency, and Vite for less than what is built with it.                *)
DetectFramework(p, out) ==
  LET rules == <<
        <<"next" \in p.configs, Nextjs>>,
        <<p.fresh = "gen" \/ "_fresh" \in out, Fresh(p, out)>>,
        <<"astro" \in p.configs, Astro>>,
        <<"nuxt" \in p.configs, Nitro("Nuxt", out)>>,
        <<"svelte" \in p.configs /\ "sveltekit" \in p.deps, Sveltekit(p, out)>>,
        <<"remix" \in p.deps, Remix>>,
        <<"router" \in p.deps, ReactRouter(p)>>,
        <<"solid" \in p.deps, Nitro("SolidStart", out)>>,
        <<"tanstack" \in p.deps, Nitro("TanStackStart", out)>>,
        <<"vite" \in p.configs \cup p.deps, Vite(p)>>,
        <<p.fresh \in {"1", "2"}, Fresh(p, out)>> >>
      at == {i \in DOMAIN rules : rules[i][1]}
  IN IF at = {} THEN NotFound ELSE rules[CHOOSE i \in at : \A j \in at : i <= j][2]

(* ---- the framework's own build (not part of this program) ------------------ *)

(* What a build writes: that of the adapter or the preset configured.       *)
NitroWrites(p) == {".output", IF p.preset = "ts" THEN ".output/ts" ELSE ".output/mjs"}
Writes(p) ==
  CASE "svelte" \in p.configs /\ p.adapter = "deno" -> {".deno-deploy"}
    [] "svelte" \in p.configs /\ p.adapter = "node" ->
         {"build", "build/index", "build/client"} \cup (IF p.prerenders THEN {"build/prerendered"} ELSE {})
    [] "svelte" \in p.configs /\ p.adapter = "nitro" -> NitroWrites(p)
    [] "nuxt" \in p.configs \/ p.deps \cap {"solid", "tanstack"} # {} -> NitroWrites(p)
    [] p.deps \cap {"remix", "router"} # {} ->
         {"build", "build/client"} \cup (IF p.spa THEN {} ELSE {"build/server"})
    [] p.fresh = "2" -> {"_fresh"}
    [] p.fresh \in {"gen", "1"} -> {}
    [] OTHER -> {"dist"}

(* What a build that fails leaves: of its own output any part, older or     *)
(* newer, and all that is not its own.                                      *)
Nested == [build |-> {"build/index", "build/client", "build/server", "build/prerendered"},
           output |-> {".output/ts", ".output/mjs"}]
FailedBuilds(p, out) ==
  {left \in SUBSET (out \cup Writes(p)) :
     /\ out \ Writes(p) \subseteq left
     /\ left \cap Nested.build # {} => "build" \in left
     /\ left \cap Nested.output # {} => ".output" \in left}

(* The directories its server reads; a directory covers those in it.        *)
Reads(p) == Writes(p) \cap {".deno-deploy", "build/client", "build/prerendered", ".output", "_fresh", "dist"}
Covers(include, d) == d \in include \/ ("build" \in include /\ d \in {"build/client", "build/prerendered"})

(* ---- packaging ---------------------------------------------------------------- *)

NotPackaged == [ok |-> FALSE, entry |-> "none", include |-> {}]
FrameworkInit ==
  /\ project \in Project
  /\ outputs = {} /\ packaged = NotPackaged /\ packagings = 0

(* build_framework: without an entry to bundle, or a directory to ship, the *)
(* packaging fails after the build.                                         *)
Package ==
  LET found == DetectFramework(project, outputs)
      out == IF found.build THEN outputs \cup Writes(project) ELSE outputs
  IN /\ packagings < 2 /\ packagings' = packagings + 1
     /\ IF found.name \in {"none", "error", "Next.js"}
        THEN packaged' = NotPackaged /\ UNCHANGED outputs
        ELSE /\ outputs' = out
             /\ packaged' = IF found.entry \in out \cup {"source"} /\ found.include \subseteq out
                            THEN [ok |-> TRUE, entry |-> found.entry, include |-> found.include]
                            ELSE NotPackaged
     /\ UNCHANGED project

(* The build fails, and the packaging with it (desktop.rs:1600-1601).       *)
BuildFails ==
  /\ DetectFramework(project, outputs).build
  /\ outputs' \in FailedBuilds(project, outputs)
  /\ packaged' = NotPackaged /\ packagings' = 0
  /\ UNCHANGED project

(* The developer goes over to another adapter, preset or framework; what    *)
(* was built stays until it is cleaned.                                     *)
Change ==
  /\ project' \in Project \ {project}
  /\ packaged' = NotPackaged /\ packagings' = 0
  /\ UNCHANGED outputs

CleanOutputs ==
  /\ outputs # {} /\ outputs' = {}
  /\ packaged' = NotPackaged /\ packagings' = 0
  /\ UNCHANGED project

FrameworkNext == Package \/ BuildFails \/ Change \/ CleanOutputs

(* ---- properties ---------------------------------------------------------------- *)

(* Outputs that this project's build does not write.                        *)
Leftovers == outputs \ Writes(project)

(* The frameworks of a project.  Detection takes the first; whose build its  *)
(* script runs is only known when there is one.                             *)
Frameworks(p) ==
  (p.configs \cap {"next", "astro", "nuxt"}) \cup (p.deps \ {"sveltekit", "vite"})
    \cup (IF "svelte" \in p.configs /\ "sveltekit" \in p.deps THEN {"sveltekit"} ELSE {})
    \cup (IF p.fresh # "none" THEN {"fresh"} ELSE {})
OneFramework ==
  \A p \in Project :
    /\ \A f, g \in Frameworks(p) : f = g
    /\ p.adapter # "none" => "sveltekit" \in Frameworks(p)

(* What is packaged is what was just built: without leftovers of another    *)
(* adapter, the second packaging in a row whose build went through starts   *)
(* from an entry of this build and ships every directory its server reads.  *)
(* The first may have been detected before anything was built, or by what a *)
(* failed build has left, which the code does not tell from a whole output  *)
(* (framework.rs:48-58, desktop.rs:1600-1624).                              *)
RepackagedWhole ==
  packagings = 2 /\ packaged.ok /\ Leftovers = {} =>
    /\ packaged.entry \in Writes(project) \cup {"source"}
    /\ \A d \in Reads(project) : Covers(packaged.include, d)
================================================================================
