-------------------------------- MODULE MCRules --------------------------------
(***************************************************************************)
(* Five sets of rules on their inputs, and the events of a desktop app.     *)
(* They share no state in the program; one run checks them side by side,    *)
(* each on its own variables, and only one of them moves.                   *)
(***************************************************************************)
EXTENDS VersionRules, Framework, Fetch, ModuleResolution, ArtifactFormat, DesktopEvents

VARIABLE topic  \* the rules that are tried

(* ---- versions: a beta whose counter has two digits, its rc and its release --- *)

MCSample == {V(0, 9, 1, Release, 0), V(1, 0, 0, Beta, 9), V(1, 0, 0, Beta, 10),
             V(1, 0, 0, Rc, 1), V(1, 0, 0, Release, 0)}

(* ---- one project per rule, and several adapters and presets ------------------ *)

Plain == [configs |-> {}, deps |-> {}, fresh |-> "none", adapter |-> "none",
          preset |-> "mjs", spa |-> FALSE, prerenders |-> FALSE]
KitProject(a, t, pr) ==
  [Plain EXCEPT !.configs = {"svelte", "vite"}, !.deps = {"sveltekit", "vite"},
                !.adapter = a, !.preset = t, !.prerenders = pr]
MCProject ==
  {KitProject(a, "mjs", FALSE) : a \in {"deno", "node", "auto"}} \cup
  {KitProject("node", "mjs", TRUE)} \cup
  {KitProject("nitro", t, FALSE) : t \in {"ts", "mjs"}} \cup
  {[Plain EXCEPT !.configs = {"nuxt"}, !.preset = t] : t \in {"ts", "mjs"}} \cup
  {[Plain EXCEPT !.deps = {"router", "vite"}, !.spa = s] : s \in BOOLEAN} \cup
  {[Plain EXCEPT !.configs = c] : c \in {{}, {"next"}, {"astro"}, {"vite"}}} \cup
  {[Plain EXCEPT !.deps = {d}] : d \in {"remix", "solid", "tanstack"}} \cup
  {[Plain EXCEPT !.fresh = f] : f \in {"gen", "1"}} \cup
  {[Plain EXCEPT !.fresh = "2", !.configs = {"vite"}]}

(* ---- every kind of import ------------------------------------------------------ *)

MCImport == {Relative(e) : e \in {"none", "js", "jsx", "mjs"}} \cup
            {Bare, Npm(0), Npm(1)} \cup {Remote(u) : u \in Url}
MCMapping == {Relative("none"), Npm(1), Remote("jsr"), Remote("plain")}
MCDisk == {{}, {"js"}, {"ts"}, {"tsx"}, {"mts"}, {"json"}, {"ts", "tsx"}, {"js", "ts"}, {"jsx", "ts", "tsx"}}

(* ---- desktop events: windows and functions are interchangeable ---------------- *)

MCSymmetry == Permutations(Window) \cup Permutations(Fn)

(* ---- artifacts: contents that look like the markers around them --------------- *)

File(p, d, x) == [path |-> p, data |-> d, exec |-> x]
MCPayload ==
  {[files |-> <<File(1, d, 0), File(2, <<3>>, x)>>, manifest |-> m] :
     d \in {<<>>, <<Sentinel, SentinelMagic>>, <<ArchiveMagic, 1>>}, x \in {0, 1}, m \in {<<5>>, <<FootMagic>>}}

(* What the theorems about frameworks and artifacts suppose holds of what is *)
(* tried here.                                                              *)
ASSUME MCHypotheses == OneFramework /\ \A p \in Payload : Unmistakable(p)

-----------------------------------------------------------------------------
Init ==
  /\ topic \in {"versions", "framework", "fetch", "modules", "artifacts", "events"}
  /\ EventsInit /\ RulesInit
  (* the rules that are not tried keep one initial state *)
  /\ FrameworkInit
  /\ topic # "framework" => project = Plain
  /\ FetchInit
  /\ topic # "fetch" => order = [toolchain |-> TRUE, pinned |-> NoSum, insecure |-> FALSE, local |-> FALSE]
                        /\ sidecar
  /\ ArtifactInit
  /\ topic # "artifacts" => form = "elf" /\ packed = [files |-> <<File(1, <<>>, 0), File(2, <<3>>, 0)>>,
                                                    manifest |-> <<5>>]
  /\ ResolutionInit
  /\ topic # "modules" => wanted = Bare /\ mapping = Unmapped /\ hasMap /\ ~aliased /\ ~granted

Next ==
  \/ topic = "versions" /\ RulesNext
       /\ UNCHANGED <<topic, frameworkVars, fetchVars, resolutionVars, artifactVars, eventVars>>
  \/ topic = "framework" /\ FrameworkNext
       /\ UNCHANGED <<topic, ruleVars, fetchVars, resolutionVars, artifactVars, eventVars>>
  \/ topic = "fetch" /\ FetchNext
       /\ UNCHANGED <<topic, ruleVars, frameworkVars, resolutionVars, artifactVars, eventVars>>
  \/ topic = "modules" /\ ResolutionNext
       /\ UNCHANGED <<topic, ruleVars, frameworkVars, fetchVars, artifactVars, eventVars>>
  \/ topic = "artifacts" /\ ArtifactNext
       /\ UNCHANGED <<topic, ruleVars, frameworkVars, fetchVars, resolutionVars, eventVars>>
  \/ topic = "events" /\ EventsNext
       /\ UNCHANGED <<topic, ruleVars, frameworkVars, fetchVars, resolutionVars, artifactVars>>

Spec == Init /\ [][Next]_<<topic, ruleVars, frameworkVars, fetchVars, resolutionVars, artifactVars, eventVars>>
================================================================================
