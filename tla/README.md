# Formal models of inka

This directory holds TLA+ models of inka: the parts of the toolchain, the
launcher and the desktop runtime in which several processes, threads, crashes or
pieces of configuration meet. Every definition is written from the Rust and
JavaScript sources; the line numbers are those of the sources beside this
directory. `PROJECT.json` lists for each definition the lines it stands for, for
each run what it checks, for each property a plausible bug of the code that the
property finds, and 40 places where the code is hard to test.

- [The system](#the-system)
- [What is hard in it](#what-is-hard-in-it)
- [Modules](#modules)
- [Runs](#runs)
- [Where code, documents and expectations disagree](#where-code-documents-and-expectations-disagree)
- [Proofs](#proofs)
- [What is not modelled](#what-is-not-modelled)
- [Plan](#plan)
- [Running it](#running-it)

## The system

inka packs a JavaScript or TypeScript program into an *artifact*: a small
launcher with a manifest and a compressed file tree behind it. The engine is not
in the artifact. It is a shared library, the *runtime tuple*, that `inka update`
installs once per user, and that the launcher finds and loads at every start. A
desktop app adds a *shim* library with a payload, a web engine backend (laufey),
and in development a dev server, hot module replacement and a DevTools
multiplexer.

| Component | Source (`src/crates/...`) | State it keeps | Operations | Talks to | Modules |
|---|---|---|---|---|---|
| Format | `inka-format/src/lib.rs` | none: versions, manifests, archives, footers | parse, display, compare, pack, read back | everything | `Versions`, `VersionRules`, `ArtifactFormat` |
| Launcher | `inka-launcher/src/main.rs` | the resolved tuple, the loaded library | resolve, load, check the version, run | runtime store, temp trees | `Launcher`, `RuntimeStore` |
| Temp trees | `inka-launcher/src/main.rs` | `inka-run-*` directories with `.inka-owner` | sweep, extract, mark, drop | other launches, by the file system | `TempTrees` |
| Runtime store | `inka/src/update.rs` | `libinka_runtime-<version>` files | plan, download, verify, rename | launchers, other updates | `RuntimeStore`, `Fetch` |
| Toolchain update | `inka/src/update.rs` | `inka`, `inka-launcher`, the shim, `VERSION` | compare, stage, activate, move aside, restore | running binaries, releases | `ToolchainUpdate`, `Fetch` |
| Channels | `inka/src/channel.rs`, `update.rs` | none: stable, beta, dev | effective channel, newest beta, currency | updates, builds, launcher | `Versions`, `VersionRules` |
| Payload cache | `inka-desktop-shim/src/lib.rs` | `<hash>/`, `.ok`, `.lock`, `<hash>.tmp<pid>` | probe, extract, activate, lock, prune | other apps, by files and file locks | `PayloadCache` |
| App update | `inka-runtime/src/desktop.rs`, `desktop_js.rs` | `<App>.so`, `.update`, `.backup`, `.update-ok` | stage, swap in, roll back, accept, confirm | earlier and later launches | `DesktopUpdate` |
| Boot and run loop | `inka-runtime/src/desktop.rs`, `lib.rs` | `INITIAL_WINDOW`, windows, timers | wait, navigate, fall back, reveal, quit | module thread, backend, user | `DesktopBoot`, `RunLoop` |
| Desktop events | `inka-runtime/src/desktop_api.rs`, `desktop_js.rs` | the event channel, bound functions, sets of windows and notifications | bind, call, take, create, close | pages, the UI thread | `DesktopEvents` |
| Hot module replacement | `inka-runtime/src/hmr.rs`, `lib.rs` | the change queue, `script_ids`, the batch | collect, read, replace, retry, reload | file watcher, V8, windows | `Hmr` |
| Modules | `inka-runtime/src/{lib,resolver,tsconfig,node_services}.rs`, `inka-bundler` | the module cache | resolve, fetch, load | registries, the project's files | `ModuleResolution` |
| DevTools multiplexer | `inka/src/desktop_devtools.rs` | sessions, pending ids, two upstream sockets, the gate | attach, route, announce, tear down | DevTools clients, two inspectors | `CdpMux` |
| Dev sessions | `inka/src/desktop.rs`, `run.rs` | child processes, generated entries, the DevTools port | spawn, wait, kill, clean up | dev servers, the backend, other sessions | `DevSession`, `DesktopDev` |
| Build | `inka/src/{build,config,permissions,embed}.rs` | the output file | read options, merge configuration, embed, write | launcher, runtime | `Build`, `Permissions`, `EmbedPackage`, `AtomicFile` |
| Desktop packaging | `inka/src/{desktop,cef,selfextract,framework,installer}.rs` | output directories with markers, two shared trees | detect, build, download, copy, link, archive | other builds, apps that link | `DesktopPackage`, `SharedTrees`, `Framework` |
| Downloads | `inka/src/main.rs`, `update.rs` | one file and its checksum | curl, wget, verify | release servers | `Fetch` |

What makes each correct, in a sentence: the launcher runs only what the manifest
allows and the file name says; a temp tree lives exactly as long as its launch; an
update never takes away what an artifact runs on, and what it installed is what it
verified; the toolchain is at every moment complete or being repaired, and never
goes back; the payload cache stays bounded without taking a live extraction away;
the app update keeps a loadable image and a way back; the boot shows exactly one
window, always, and takes everything down at its end; no page waits for an answer
for ever; hot replacement loses no change without a word; a DevTools frame reaches
whom it is for; an artifact is allowed what its project grants and no more; what is
packaged starts, and a rebuild is accepted; what was tested is what is shipped.

## What is hard in it

Nothing in inka is a distributed protocol, and almost nothing takes a lock. Its
components coordinate by *files*: a rename is the commit point, a marker file
written last says that what is beside it is complete, a pid in a name or a file
says who owns it, an age says that nobody does any more. All of that has to hold
when any process is killed between any two calls, when a pid is used again, and
when another process of any version does the same in the same directory. Tests
run these functions one after the other in a directory of their own. The desktop
runtime adds threads that race at the start, an event loop that drops a future
at an await, and a bounded channel between two threads. The build side is
sequential, but what it decides is decided again, by other code, in the launcher
and in the runtime: permissions, versions, import resolution and the artifact's
format all have a writer and a reader that must agree.

## Modules

An operator whose comment starts with "Mutant:" is not part of a model: it is the
bug a property is tried against, in place of the definition that follows it.

### Versions and VersionRules

`Versions` holds the pure rules: the derived order on versions (`Less`), parsing
and printing, manifest lines (`ParseManifest`), constraints (`ConstraintAllows`),
the launcher's choice (`Eligible`, `Newest`), and the channel rules
(`ResolveChannel`, `DefaultUpdateBeta`, `LatestBeta`, `UpToDate`, `PlanInstall`).
A text is a record of its numbers and dash-separated tags, which is all that the
parsers look at. A "best so far" loop in the code is `Newest`: the greatest of
a set. `VersionRules` feeds these rules: each step installs a tuple, as a file or as a
link, adds a line to a manifest or publishes a release. `SelectedTuple` is the launch in an
environment (`INKA_CHANNEL` unset, a channel, or `beta` with blanks, which the launcher does
not trim); it passes over links. `DoctorChannel` and `DoctorSelected` are `inka doctor`'s view
of the same artifact, which counts links and goes by the toolchain's channel. A variable that
names no channel ends doctor with an error and means nothing to the launcher; it is left out.

### Launcher, RuntimeStore

`Launcher` is `main` of the launcher: `Resolve` picks the newest eligible tuple
over the search path and `Load` loads the file, whatever it is by then, and
compares its self-reported version. `RuntimeStore` extends it with `inka update`
(`update_latest`, `install_file`): plan against what is installed, reserve a temp
name, download (any content), verify, rename. `store[d][v]` is the content of the
file named for tuple `v` in directory `d`.

### TempTrees

The execution trees of artifacts. `Sweep` reaps what `Reapable` says, `Extract`
makes a directory under a random name, `Mark` writes the pid last, `Drop` removes
it. A process may die at every step (`Stop`, `MarkTorn` in the middle of the
marker) and its pid may be given to the next launch: `Pid` is the set of pids.

### ToolchainUpdate

`inka update` on the toolchain itself: the currency check against `VERSION`, the
sweep of aside files, staging, one rename per binary (`Activate`) or the detour
where the target is moved aside first (`MoveAside`, `SwapIn`, and after a swap-in that
fails `Restore` or, as the code ignores whether that works, `RestoreFails`), `VERSION` truncated and written last. Releases appear on both channels; a mirror may
be behind.

### Fetch

One download with its checksum: the sidecar by curl or wget (`CurlSidecar`,
`WgetSidecar`), the file by either with what each leaves when it gives up, and what
`install_file` does with both, while the release is published again in between.

### PayloadCache

`resolve_payload` and `prune_cache` of the desktop shim, one action per file-system
call that another launch can observe. `remove_dir_all` has a beginning and an end:
in between, the marker may be there with files missing ("hollow") or be gone
("torn"). A lock file goes with its directory; a lock ends with its process. A prune lists
the staging directories once (`ScanCache`, `listed`), judges each by pid and age
(`JudgeStaging`) and then removes it in two steps (`BeginReap`, `EndReap`, `prey`). The pid
may be used again at any point between: a new launch may extract into the very directory
(`haunted`), and may rename it to `<hash>` under the removal (`moved`).

### DesktopUpdate

`apply_pending_update`, call by call, and what the running app adds to it:
`StageUpdate` and the confirmation in `Bootstrap`. `loaded[p]` is the build
process `p` has mapped, `dylib` the file the next launch maps; they differ after
the swap, which is what the protocol is about. Builds may be unloadable, or die before
the bootstrap.

### RunLoop, DesktopBoot, DevSession, DesktopDev

`RunLoop` is the module thread: bootstrap, main module, the event loop with its
two variants (desktop and plain) and the unload and `beforeExit` handlers that may
start new work. `DesktopBoot` extends it with the shell: the waits, the bootstrap
window, the fallback, the reveal timer, the user and the backend's shutdown after
the last window. `DevSession` is `inka desktop --hmr`/`--inspect` in as many
sessions as `Session` has: entry sweep, framework detection, dev server, generated
entry, DevTools port, backend, and the teardown in the code's order. `Kill` ends the command
only: where that has started the server (`wrapped`, as `npm run dev` does), the server ends
with it or goes on. `DesktopDev`
composes them: how the session serves the pages decides the mode of the worker
(`LaunchSubject`), the worker needs the generated entry (`EntryThere`), and the end of
the shell is the end of the session's backend (`SubjectEnds`).

### DesktopEvents

The desktop API of a running app: one bounded channel (`channel`, `Capacity`) from
the backend's UI thread to the worker's polling loop, the functions an app binds on
its windows and the calls of pages, and the sets of windows and notifications that
both threads share. Making a window takes three steps (`Creates`, `Wire`,
`KeepWindow`), between which the user may close it. `offered`, `tools` and `missed`
are history variables: what was bound since a call was made, which windows show
DevTools, what was closed before its handler was there or while the channel was full.

### Hmr

The watcher thread appends to `queue`; the runner collects a batch during the
debounce and handles file after file (`HandleUpdated`, `ReadSource`, then
`Replace`, `NeedsTopLevel` or `Blocked`), and `Finish` reloads the windows. Module
loading is two steps (`LoadModule` reads, `ScriptParsed` registers) because a change can
fall between them. `EventLoopDry` is the `select!` in `lib.rs` that drops the
runner at its await, with the batch it holds. The history variables `why`, `owed`,
`stuck` and `dropped` record for each file why it is not up to date.

### CdpMux

The DevTools multiplexer: the HTTP checks before a client (`Origin`, the gate of
`--inspect-brk`), the connection to both inspectors, the injected `Debugger.enable`
and `pause` with their replies, `Route` for a client's frame, `ReadUpstream` for
an isolate's, the writer tasks with their queues, and the teardown. Any peer may
leave at any step.

### ModuleResolution

One import, resolved by `inka run` (`RunResult`) and by `inka build` (`BuildResult`),
over one project: mapped or not, aliased or not, relative with each extension,
a package with or without a pin, a registry module or a URL, against a module cache
that `FetchModules` fills and registries that go on publishing.

### Build, Permissions, EmbedPackage, AtomicFile

`Permissions` carries a grant from JSON values and flags through the permission DSL
and the launcher's path expansion to what the runtime permits. `Build` is `cmd_build`
and the permission side of `cmd_run`: arguments token by token, the files of the
configuration with their precedence, named sets and markers, the manifest's runtime
line from the floor, the option and the configuration, embedded packages, the atomic write
with death at every step, and the launch of what came out. `EmbedPackage` is the
breadth-first copy of `collect_package`. `AtomicFile` is an abstract specification:
a file that changes only by becoming a finished content. `Build` implements it (`Output`
is its instance under the refinement mapping `file <- out`, `ready <- tmp` once finished),
and so does the swap of `DesktopUpdate` (`Live`, with `file <- dylib` and `ready <-` what
the process is about to rename over it: the update, its copy or the backup).

### ArtifactFormat

Writers and readers of archives, sections and footers, on images that are sequences
of fields: signing, truncation and damage happen between `PackedImage` and the two
readers, `Launched` and `Examined`. Offsets, lengths and alignments are numbers below
`WordSize`, and every cell of an image may be damaged to any of them. A sum that the code
checks ends the search when it is not such a number; the sum in `AlignUp` is not checked and
wraps, as in a release build, and a search of notes that comes to one place twice is `Endless`.
A cell is the unit of alignment as of length, so what a linker writes is an alignment to one
cell. Contents include fields that look like the markers around them. `Unmistakable` says of a payload that it
holds no footer mark but at the end of its manifest, and no section name: the older form,
an image followed by archive, manifest and footer, has nothing else that tells its end
from that of an older artifact packed into it. Such an artifact, cut off exactly behind the
inner one, is read as the inner one.

### DesktopPackage, SharedTrees, Framework

`DesktopPackage` is `cmd_desktop` from the payload to the archive, installer or
self-extracting directory, one action per step at which a death or another command
matters. A removal of the output or staging directory may fail half way (`ClearsPart`,
`Collect`) and the marker may not get written (`MarkDir`, `OwnCopy`); `cut` remembers the
directories in which one of these, or a death, may have left something without a marker.
`SharedTrees` are the two directories all packaging commands share, with
replacement and removal entry by entry. `Framework` is the detection of a project's
framework, the adapter's outputs and what is packaged of them; a build that fails
(`BuildFails`) ends the packaging and may leave any part of its outputs.

### MC modules and proof modules

`MCBuild`, `MCDesktopDev`, `MCDesktopPackage`, `MCDesktopUpdate`, `MCRules`,
`MCRuntimeStore`, `MCToolchainUpdate` and `MCTrees` give constants their values or name
symmetries; `MCRules` also puts six modules without common state side by side, one of which
moves in each behaviour (`topic`), and `MCTrees` does so with `PayloadCache` and `TempTrees`.
`Hmr` and `CdpMux` are instantiated by their `.cfg` alone.
Eight modules hold theorems: `VersionsProofs` (the order and what a manifest reads as),
`RuntimeStoreProofs`, `ToolchainUpdateProofs`, `TreesProofs` (`PayloadCache` and
`TempTrees`), `DesktopProofs` (`DesktopUpdate` and `DesktopDev`), `DevToolsProofs` (`Hmr`
and `CdpMux`), `RulesProofs` (`ArtifactFormat`, `DesktopEvents`, `Fetch`, `Framework`,
`ModuleResolution` and `VersionRules`) and `PackagingProofs` (`Build` with what it is composed of, and
`DesktopPackage`). Modules that share a proof module name their state and their
specification apart (`TempSpec`, `UpdateSpec`, `MuxSpec`, `PackageSpec`).

## Runs

| Run | Bounds | Properties | Why the bounds are enough |
|---|---|---|---|
| `desktop_update` | one process at a time, 4 builds: two healthy, one that dies, one that cannot be loaded | `SwapsAtomically`, `SwapRecoverable`, `SentinelIsForDylib` | an old, a new and a next build make every role; updates and launches are not counted, so every chain of them is explored |
| `trees` | 2 pids, 2 payloads, `CACHE_KEEP` = 0; 2 pids, 3 names of temp trees | `CacheBounded`, `LiveExtractionKept`, `AppearsComplete`, `RunningTreeKept`, `DeadTreesReaped` | a launch and a pruner of the same and of another app; with the limit at 0 every other payload is judged. A live launch, a sweeping one and the tree of a dead one. Pids are used again in both |
| `runtime_store` | 3 tuples (stable, beta, stable), 2 directories, 2 manifests, 1 launch, 2 updates | `RunsWhatItAllows`, `StoreVerified`, `UpdateReachesLaunch` | two updates interleave with each other and with one launch; a second launch shares nothing with the first but the store |
| `toolchain_update` | 1 updater, 4 releases (3 stable, 1 beta) | `CurrentMeansAsNew`, `NeverLeftMissing`, `NeverDowngrades` | three stable releases let an interrupted update be followed by a stale and by a newer one; the channels cross at the beta |
| `hmr` | 2 modules, `MaxSaves` = 3 | `StaleExplained`, `Converges` | the main module and one loaded later; three changes put one before, one in and one after a batch |
| `desktop_dev` | 2 sessions, 1 kill; the second session only in the ways `MCDesktopDev` names | `OneWindow`, `EntryStays`, `SomethingShows`, `NothingCut`, `ClosingCleans` | each window is opened once; one other session is enough to sweep an entry or hold the port |
| `dev_server_left` | the same | `NoServerLeft` (violated) | see below |
| `cdp_mux` | 1 client, 2 requests, 1 unasked frame or departure | `RoutedBySession`, `AnnouncedInTime`, `GateOpensAfterPause`, `UnifiedEnds` | two requests make the orders of a request, its reply, the announcement and a detach; one event meets each of them |
| `build` | 2 tokens out of 20, 63 projects, 3 stores, all acyclic graphs of 6 folders | `RunsAsGranted`, `StartsAsBuilt`, `EmbeddedResolves`, `ReplacesAtomically` | two tokens meet in every pair and order; a package, its neighbour and two packages with two versions make every conflict |
| `desktop_package` | 2 apps, 3 builds, 1 kill, 4 directories | `PackagedRuns`, `RebuildAccepted`, `UserDirKept` | a build, its rebuild and one of the other app; a kill leaves one unfinished leftover, and failing steps, which are not counted, leave more |
| `rules` | 5 versions with 2 tuples or links, 2 lines, 4 environments and 3 releases; 20 framework projects, 2 release states; each import over 9 sets of files with 2 publications; 12 payloads on words modulo 64; 2 windows, 1 notification, 1 call, 2 functions, a channel of 2 | `VersionsFollowed`, `RepackagedWhole`, `InstalledVerified`, `BuildRunAgree`, `FetchedRunsOffline`, `ReadsAsPacked`, `CallsAnswered`, `WindowsTracked` | two lines give a line and one that overrides it; counters 9 and 10 tell numbers from text; two publications make "then" and "now"; a channel of 2 is empty, in between and full |
| `damaged_notes` | the same | `ReadersEndAlways` (violated) | see below |

What they show:

- **desktop_update.** At every crash point of the swap, of its copy fallback and of
  the rollback, the file that is mapped next is a complete build. A process that
  swapped keeps the image it runs from, and a sentinel left from an earlier update
  never vouches for a later one.
- **trees.** Once a launch that was alone runs, at most `CACHE_KEEP` other
  payloads and no interrupted extraction are left, whatever died before. A live
  extraction of less than an hour loses nothing to a prune, and a payload appears whole or
  not at all, unless the extraction began, under the pid of a dead one, between a prune's
  look at that pid and the end of its removal. A launch that has written its marker keeps its
  temp tree, also under a pid that a killed launch had; a sweep leaves nothing of dead launches
  but the exceptions that the property names.
- **runtime_store.** What runs reports the version of its file name, meets the
  manifest and is a prerelease only for those who opted in, whatever updates did
  between resolution and load. An update that ends well is seen by a launch of its channel.
- **toolchain_update.** "Up to date" is true of every required binary; a binary is
  missing only while it is swapped, after a kill in just that step, or when neither the new
  nor the old one could be moved to its place; a binary older than
  `VERSION` is never put in place.
- **hmr.** A loaded module that differs from its file has a change still to be
  handled or was given up on at exactly that content. When nothing changes any more
  the runner rests.
- **desktop_dev.** Fallback and bootstrap window exist together only after a wait that ran
  into its deadline; a window is always shown; an app with work left is not torn down;
  the generated entry is there until the worker has loaded it, unless another session
  swept it; after the last window has closed the process, the entry, the port and a dev
  server that is the command itself go, or another window is shown. A server that the command
  has started is not promised to go.
- **cdp_mux.** A frame of a session reaches the isolate of that session, and every
  reply the request it answers, once; the Deno target is announced before the
  frontend has its answer; the gate opens after the renderer has paused; a session
  whose client or isolate is gone ends with all its tasks.
- **build.** An artifact, or a run with the flags `inka run` prints, is permitted exactly
  what the configuration that counts grants; an artifact never runs on a tuple that lacks
  what its files need; an embedded package finds the versions it found in the project; the
  output path changes only by becoming a finished artifact.
- **desktop_package.** Whatever later commands do and wherever they die, a cache that the
  next one trusts is whole, and what was reported as packaged goes on to have its launcher,
  its library and every file of the backend, or a link that leads to it. A
  build is refused only where the directory is the developer's, the self-extracting form has
  taken its place, or a death, a removal or a write of the marker that failed has left no
  marker; what is in a directory of the developer's stays.
- **rules.** An unreadable constraint is never dropped, a manifest without opt-in never
  runs on a prerelease unless the environment asks for betas, doctor and launcher agree
  where both see the same channel and files, update and build follow the same channel; what
  the second packaging in a row of a project holds is what its builds wrote, when they went
  through; no file is installed against a checksum; where run and build both accept an import
  they take the same; what was fetched runs offline; an artifact is read as it was packed, or
  refused, or (with a damaged alignment of notes) never read to the end; no page waits for ever
  and no closed window counts as open.

Variables that would grow without end are bounded in the guards: `MaxUpdates`
(RuntimeStore), `MaxSaves` (Hmr), `MaxLive` (PayloadCache, processes at the same time),
`MaxTuples`, `MaxLines`, `MaxReleases` (VersionRules), `MaxReleased` (Fetch),
`MaxPublished` (ModuleResolution), `MaxTokens` (Build), `MaxBuilds`, `MaxKills` and
`Together` (DesktopPackage), `MaxKills` (DevSession), `MaxAsked`, `MaxEvents`,
`MaxClients` (CdpMux). `Capacity` (DesktopEvents) is a bound of the code itself.
`Together = 1` is an assumption, not a bound: at most one packaging command runs at a
time, as `PackagedRuns` needs; what happens without it is listed below. `Tree`
(SharedTrees) is a bound too: a step that needs a directory and finds none is not taken. In `ArtifactFormat` no
packed file ends in a whole footer of its own. `Bound` in `MCDesktopDev` keeps the
second session and the app's own window apart: their interleavings concern
disjoint variables. `CHECK_DEADLOCK FALSE` stands where the system may stop: an app
whose installed build cannot be loaded, an app or a session that has ended, files that
no longer change, commands that are done, inputs used up. The symmetries are of windows and
functions (`rules`), of app directories (`desktop_package`) and of the shim's pids (`trees`),
which no definition orders; none of these runs checks liveness.

**Fairness.** `Hmr` assumes `WF(Runner)`: the runner is polled by the worker's event
loop, and each of its awaits (a timer, a file read, an answer of V8's local inspector
session) ends. `DesktopBoot` assumes `WF(Wait)`, `WF(Shows)` and `WF(WorkerCloses)`: the
shell's waits poll against a deadline, its timer fires, the backend's loop returns when
asked to, and the module thread ends when its work is done. `DesktopDev` adds
`WF(SubjectEnds)` (a process ends with its main thread) and `WF(TakesDown)` (a session is
scheduled). `CdpMux` assumes that tasks of the async runtime are scheduled, and that
connecting either succeeds or runs into its 30 seconds. Nothing is assumed of the app, of
its pages, of dev servers, of DevTools clients or of the user.

## Where code, documents and expectations disagree

Two disagreements are runs of their own that TLC ends with a counterexample:

- `dev_server_left` (`NoServerLeft`). The comment `inka/src/desktop.rs:620-621` says of the
  dev server "Killed on drop so it can't outlive the desktop app"; an error after it was
  started goes through `fail()`, hence `process::exit`, which runs no destructor.
- `damaged_notes` (`ReadersEndAlways`). The comment `inka-format/src/lib.rs:311-312` says that
  the search for the embedded section is "working on arbitrary file bytes". `align_up` (364)
  adds without a check: a `p_align` damaged to all ones wraps the place of the next note round
  to the one before, and a release build of the launcher and of doctor never ends (a debug
  build panics).

The others were met while modelling; the properties except them by name or the bounds
leave them out, so that what holds besides them is checked:

*App update and payload cache.* The sentinel of an update is written by the build that
swaps it in, which still runs the old code (`desktop_js.rs:1033`; `docs/desktop.md:301-302`
reads as if the new one did). A payload lock that is held for a moment by another prune is
never tried again (shim `lib.rs:68-71`), so a later prune may take what the app runs from. A
prune looks at the pid of a staging directory (132) before it removes it (134): a pid that is
used again in between gets its live extraction removed, against the comments `lib.rs:80-81` and
129-130, and what that one then renames to `<hash>` may be incomplete. A death inside
`remove_dir_all` may leave `.ok` with files missing.

*Temp trees, toolchain.* A marker cut off while it was written keeps its tree for ever. A
swap-in that fails "restores the original [...], so the toolchain is never left missing"
(`update.rs:507-509`), but whether that rename works is not looked at (526). A beta release that carries a stable tuple is downloaded again by every update
(`update.rs:649`). Concurrent toolchain updates, and two instances of one app that swap,
are not excluded by the code; the runs take them one after the other.

*Downloads and frameworks.* Any HTTP error counts as "no checksum" (`main.rs:203-205`
says "genuinely absent"). Frameworks are detected before the build: the first packaging
of SvelteKit's node adapter omits what is prerendered, of Nitro's "ts" preset and of
Fresh 2 with Vite fails, and leftovers of another adapter are packaged instead of the new
build; the second packaging is whole. What a *failed* build left is not told from a whole
output: after one, a first packaging counts as a second in this, and SvelteKit's node adapter
is again detected by its configuration and shipped without what is prerendered
(`framework.rs:459-464`).

*Desktop packaging.* After `--compress` the thin directory has no marker, so the next
build is refused (`desktop.rs:33-35`); so is one whose marker a death took first. The comment
at the marker (30-31) and the refusal ("it was not created by `inka desktop`", 1783) are also
wrong of a directory whose clearing failed half way (1788), whose marker could not be written
(1152), or in which the staging directory could not be removed (1107-1111). The fallback to a
copy does not look at whether its own clearing worked (1748); where it did not, the copy is
written through the links that are left into the shared runtime (not modelled).
`--compress` with `--installer` always fails. Concurrent installs of the shared CEF or of
the backend can publish a torn tree (`desktop.rs:323-325`), as the unrestricted model of
`SharedTrees` shows. A self-extracting launcher runs a partial tree after a killed `tar`
(`selfextract.rs:96-117`), and concurrent builds of installers share a staging directory
(`installer.rs:100`); neither is modelled.

*Dev sessions.* A Ctrl-C does not run the teardown (`desktop.rs:634-636`), and a starting session sweeps the entries of live
ones. The kill of the dev server reaches the command (629), which is `npm run dev` by default
(711-716): the server that npm has started may outlive the app, against 620-621. In external mode the shell waits for a window that is never made
(`inka-runtime/src/desktop.rs:73-76`, `380-381`), always until its deadline. A
`beforeExit` handler that throws ends the app with work pending. The reveal timer shows a
window that the app has hidden (`desktop.rs:396`). A port chosen for the server may be
taken before it is bound (`desktop.rs:47-52`).

*Desktop events.* A window closed between its making and its entry into `open_windows`
stays there (`desktop_api.rs:248`), a DevTools window closed there can never be reopened
(`343-348`), a notification closed there leaks its handle (`693-745`). A full channel drops
input and close events silently. A call that the channel refuses leaves its entry in
`PendingBindResponses`. The timer of an earlier blur can clear the suppression of a
later one in `attachPanel` (`desktop_js.rs:388-440`), and overlapping checks of
`autoUpdate` can stage the older update last (`desktop_js.rs:1086-1188`); neither is modelled.

*Hot replacement.* A module blocked by an active function through three attempts is
skipped, neither replaced nor reloaded (`hmr.rs:525`; `docs/desktop.md:135-137`).

*Modules.* `inka run` and the build try extensions in different orders
(`inka-runtime/src/lib.rs:208`, `349-363`), treat an alias out of the tree differently, and
`npm:` mirrors of registry packages are known to one of them only. A redirected URL is
cached under its target only and never found offline (against `inka-bundler/src/lib.rs:87-90`). A
build without an import map resolves no direct registry import. Failed fetches do not fail
`inka cache`.

*Build and configuration.* `inka run` ignores the configured path base; `--runtime` may
undercut the security floor (`build.rs:563-566`); a `--tested-against` below the floor gives
an artifact no store satisfies, and `'>=..'` is accepted there but malformed for the launcher;
a deny list of nothing but separators denies all; `--runtime` after a two-word option is
ignored (`run.rs:132-133`). Of packages with several second versions the nearest does not
always win (`embed.rs:112-114`), and a cycle through second versions nests for ever: only
acyclic graphs are checked.

*Artifacts.* A launcher with a malformed section falls back to the footer, `inka doctor` does not
(`main.rs:662-676`). Archives of version 1 carry no executable bit. Doctor does not always tell
"which tuple would be selected" (`docs/cli.md:109-113`): it goes by the toolchain's channel,
which the launcher does not know (`main.rs:717`), by `INKA_CHANNEL` without its blanks, and by
links too (462-478), which the launcher skips (launcher `main.rs:419-423`).

## Proofs

TLAPS checks these for every value of the constants that meets the assumptions named.
Every invariant below was first checked by TLC on the instance of the component's run.

### Versions, runtimes and the toolchain

**VersionsProofs**, from the definitions alone. `Less` is irreflexive, transitive and
total, for versions of any numbers, and `NewestIsGreatest`: the "best so far" of a finite
set is its greatest element. Induction on the size of the set is out of the prover's
reach; the argument is that among its elements one has the fewest above it (natural
numbers are well-founded), and a newer one would have fewer (`AboveShrinks`). `LoopEnds` and the
lemmas behind it say in the same way (the least line at which two runs of the loop would
differ) that a manifest of any length is read to its end, and one line more is one step more.

**RuntimeStoreProofs**, from `LauncherAssumption` (tuples are versions, finitely many, and
search paths are sequences of directories) and `UpdatesAssumption` (a search path is not
empty), for any number of launches and updates. None of the properties is inductive.
`IInv` adds what lies between two steps of one actor while the others act: `ChosenAllowed`
(a resolved tuple still meets its own manifest, though its file may be anything by now),
`ImageChosen` (what runs reported the chosen version), `TmpVerified` (what an update is
about to rename is a file, and has passed its checksum when it has one), `PlanOfChannel`
(a stable update carries no prerelease) and `Reached` (a finished update found, or left, a
tuple at least as new as its release, and no later rename takes that away). With
`NewestIsGreatest` the launcher's choice is not older than that (`Reaches`).
`NeverTakenAway` is an action property: a step that changes the store installs one tuple
(`InstallAdds`), so what a manifest resolves can only be replaced by a newer tuple.

**ToolchainUpdateProofs**, from `ToolchainAssumption` (releases are versions) and
`OneAtATime`, which the theorems state as an assumption: nothing locks the toolchain
directory. `VERSION` is written last, so it is a floor under the required binaries of its
channel (`VersionIsFloor`), and an update that goes past the comparison installs something
above that floor or of the other channel (`NotCurrent`, with `GoalAboveFloor`). `SwapsOne`
and `RestActivated` say what is moved aside and that whatever is not staged any more
has been activated, so that `VERSION` may be written at the end. From it: `TypeCorrect`,
`NotLeftMissing` (`NeverLeftMissing`, where `cut` remembers a kill or a refused move back in the
middle of a swap until `VERSION` is written again), `CurrentIsAsNew` (`CurrentMeansAsNew`, with
`AboveCurrent`) and the action property `NoDowngrade` (`NeverDowngrades`).

### Trees that processes share (TreesProofs)

*The payload cache*, from `CacheAssumption` (no pid is the value for an unlocked
payload, and there is a payload), for any number of launches, pids and payloads. `IInv` is
`TypeOK`, `LiveExtractionKept`, `LockHolderLive` and `ReapersExcused`, inductive together; the
last says that an extraction whose very directory a prune is removing is old or began under
that removal, which is what keeps the prune's stale judgement from anybody else.
`RemovalTyped` says what both halves of a `remove_dir_all` leave alone. `Appears`
(`AppearsComplete`) follows from the invariant: only `Activate` makes a directory appear,
and a staging directory that is not whole then belongs to an extraction that grew old or is such a one.
`Bounded` (`CacheBounded`) speaks of what a whole launch has done: a launch that is alone
from its start (`AloneAlive`) has its scan to itself, so what it will not visit any more is
at most `Keep` payloads at each of its steps (`PrunedAlone`), the set being finite
(`PresentFinite`) because each step adds at most one directory.

*The temp trees*, from `NoneAssumption` only, so for any number of pids and names. That a
sweep spares a running tree rests on *whose* pid is in the marker, and that another launch
cannot have changed. `TempInv` adds `TreeByStep` (a launch has a tree from extraction to
its end, and only then), `DistinctTrees` (no two launches in one tree) and `OwnMarker`
(the marker in a running launch's tree is its own). `TempTypeCorrect` and `TreesNeverShared`
are invariants; `TreeKept` (`RunningTreeKept`) and `SweepReaps` (`DeadTreesReaped`) are
action properties, proved from it step by step.

### Desktop apps (DesktopProofs)

*The app update*, from `ImageAssumption` (the builds are distinct from the values for no
file and a torn file) and `OneInstance`, which the theorems state as an assumption: two
instances that swap at the same time do delete each other's backups. `UpdateInv` says what
each step of the swap relies on: `PendingByStep` (the swap works on a pending update, the
judgement without one), `LiveIsLoaded` (until the swap the live image is the mapped one),
`BackupIsLoaded`, `TmpIsWhole` and `NoStaleSentinel`. From it: `AlwaysWhole`,
`TornBackupNeverJudged`, `Recoverable`, `SentinelFresh`, and the refinement
`ImplementsAtomicFile`: each step of the swap is `Finish`, `Publish`, `GiveUp` or a stutter
of `AtomicFile` (`StepIsAtomic`).

*The dev session with its app*, from `SubjectAssumption` (the session that is followed is one)
and `SessionAssumption`, for any number of sessions and kills. `BootInv` is why there is one
window: a server that serves belongs to a worker that has made the bootstrap window, so a
wait that has not run into its deadline finds it, or the backend shuts down. `EntryInv` is why
the generated entry stays: a session unlinks it only after its backend has ended, which ends
after its shell, and another session removes it by the sweep at its start only. From them:
`DevTypeCorrect`, `WindowOnce` (`OneWindow`), `EntryKept` (`EntryStays`) and the
action property `CutsNothing` (`NothingCut`).

### Developer tools (DevToolsProofs)

*Hot replacement*, from `HmrAssumption` and `AbsentAssumption` (the main module is watched, no
file and no content is the value for their absence), for any number of files and changes.
`IInv` follows one content of a file. `SavedSince`: a file that was removed and is there
has a save behind the removal in the queue, so that a removal that overrides a save in
the batch loses nothing. `HoldsNewest`: what the runner holds after its read is what
the file holds, or a newer change is queued. `NoneLost` says the same of a module that has been
read and waits for V8 (`ScriptParsed`). `MainIsLoaded`: the runner is only polled once the
main module is loaded. `Watched` and `Collected` say once what a watcher event and the
debounce do to the queue. `NothingLost` is `StaleExplained`.

*The multiplexer*, from `MuxAssumption` (its three bounds are numbers), for any number of
requests, unasked frames and clients. `MuxTypeOK` has the types of every queue. `IdleInv`:
nothing of one client's session is left when the next one begins. `GateInv`: the id of the
injected pause is above those of the client, so an acknowledgement with it is the renderer's
(`GateWaits`, `GateOpensAfterPause`). Routing needs more: a request is at every moment in *one*
of the places between the client and its answer (`OnePlace`, with the lemmas that say how a
frame moves from one place to the next), no queue holds two frames with its id
(`DistinctInv`), every frame is what it may be where it is (`FrameInv`), and the replies to the
mux's own requests never get past `inject` (`InjectInv`). `AnnounceInv` relates the
announcement to the request it answers. From them: `MuxRoutes` (`RoutedBySession`) and
`MuxAnnounces` (`AnnouncedInTime`).

### Rules of the command line and the event channel (RulesProofs)

*Desktop events*, from `EventsAssumption` (the channel takes at least one event,
windows and notifications are told apart), for any number of windows, notifications, calls
and functions and every capacity. A call that is taken off the channel gets a function, and
is not in it any more, because it was in it only once (`QueuedOnce`) and an answered call
has no function running (`OnlyWaiting`). What both threads know of the screen rests on the
steps between which the user may close: `Unknown` (what was never shown is in no set),
`ClosedIsClosed`, `MadeMissed` (what is closed while it is being made counts as missed),
`OneHeir` (while a second DevTools window is being made the first one is closed) and
`ClosedReported` (the channel holds close events of closed notifications only). `Answered` is
`CallsAnswered`, `WindowsFollowed` is `WindowsTracked`.

*One download*, from `FetchAssumption`, for any number of builds published meanwhile:
`FetchInv` follows what is cleared for installation, by the checksum or by the order that goes
on without one (`FetchVerifies`, `InstalledVerified`).

*One import*, from `ResolutionAssumption`, for every import, map, set of files and number of
publications. `ResolutionInv` says that the cache holds what was published and, after a fetch
of which no request failed, the module. `FetchedRuns` (`FetchedRunsOffline`) follows from it.
`BuildsAsRun` (`BuildRunAgree`) is one lemma per kind of import; for files it is about the two
orders in which extensions are tried (what the first match of either is when only one fits).

*Versions and manifests*, for every set of installed tuples, every list of lines and every
release. `ManifestInv` relates the record that the loop leaves to the lines: of every key it
holds the *last* line, and it is malformed exactly when one cannot be read. With what
`VersionsProofs` says of the loop, of `Less` and of `Newest`: `VersionsAgree`
(`VersionsFollowed`), in every environment and with links, from a lemma for each of its parts (`StableStays`, `DoctorIsRight`,
`ManifestFollowed`, `ChannelFollowed`).

*Frameworks*, for every set of projects of one framework each (`OneFramework`): `Repackages`
(`RepackagedWhole`). The hypothesis is about the input: detection takes the first framework
it finds, whose build the project's build script runs is only known when there is one, and an
adapter is SvelteKit's. The property speaks of the second packaging in a row whose build went
through, so `FrameworkInv` adds
what the first one leaves, whatever failed builds left before: when nothing in the outputs is another adapter's, they contain all
this project's build writes, or the project is packaged without a build. The second detection
then sees the outputs of its own build; that they agree with what the server reads is one case
per framework, of SvelteKit one per adapter.

*Artifacts*, from `ArtifactAssumption` (payloads are not empty, their entries have the type of an
archive entry, and a word holds the length of the artifact), for every payload and every word
size above 40. `ArtifactInv` says of an image that it is what was packed, that with a signature
behind it, a prefix of one of these, or one with a cell that was overwritten. The rest is about
the functions:

- What a writer lays down: `ArchiveLaid` (each entry is where the ones before it end),
  `SectionLaid`, `TrailerLaid`, and `HostLaid` (the head of each kind of host, then the payload).
- Readers undo it. The archive reader is a recursive function on positions. That it
  is defined everywhere, and that from each entry on it returns the rest of what was packed, are
  inductions; no induction theorem of the library can be instantiated here, so each takes the set
  of the numbers for which the claim fails and its least member (`LeastNumber`). They give
  `ArchiveReadsBack`, `SectionReadsBack`, `TrailerReadsBack`. The search through notes is done
  the same way (`SuiNoteFound`, `GnuNotePassed`, `NoNameNoNote`). That it ends when the alignment
  is the least one (`NotesEnd`) is an argument on rounds: each goes to a later place
  (`NoteMoves`), and there are more rounds than places; with `LocateEndless`, a reader that does
  not end has met a header that asks for more (`MisalignedNotes`). From them, one lemma per
  host (`ElfLocated`, `PeLocated`, `MachoArmLocated`, `MachoIntelLocated`): a section is found
  when all of it is in the image, and is then what was embedded.
- What is not whole: `CutHostRefused` and `CutTrailerRefused` (no footer mark is at the end of
  what was cut), `DamagedHostAgrees` and `DamagedTrailerAgrees` (where the readers part is where
  a section that is found is malformed, and there both refuse).

`ArtifactsReadBack` needs none of the hypothesis on content: intact and signed artifacts are read
back as packed whatever they contain, no reader slices outside its image, and only
`MisalignedNotes` keeps one from ending.
`ArtifactsRead` is `ReadsAsPacked` for payloads that are `Unmistakable`; without it, the cut
described above is a counterexample, as `damaged_notes` is to readers that always end. `MCRules` states both hypotheses of its constants as
an assumption, which TLC evaluates.

### Building and packaging (PackagingProofs)

*`inka build` and `inka run`*, from `BuildAssumption` (the shape of configurations and tokens;
the floor and what stores hold are versions), for every configuration, command line and store.
`GrantInv` follows the flags token by token, and an artifact holds the permission text that was
wanted; what the text means comes back through the launcher's expansion (`Granted`,
`RunsAsGranted`). `FloorInv` says what a manifest without a runtime of its own
requires (`BuiltStarts`, `StartsAsBuilt`). `OutputReplaced` (`ReplacesAtomically`) is
the refinement: a build is an `AtomicFile`.

*Embedded packages*, for every graph whose dependencies are folders (`IsGraph`) and every list of
packages (`EmbedAssumption`): `PackagesResolve` (`EmbeddedResolves`). The loop is a
breadth-first search, so the invariant is about copies, not folders: a name is claimed once and
by what is copied to the top level (`ClaimInv`), what was copied is in the tree (`TreeInv`),
every dependency of a copy that was looked at is found by it, or waits (`FollowInv`), and
what is in the artifact already stays right when the next package is copied over it
(`ArtifactInv`).

*`inka desktop`*, from `TreesAssumption` and `PackageAssumption` (options are of their type, the
app directories are finitely many, no directory is the value for none). `DirInv` says
what a command has found in its directory and what it made there at each step: nothing but the
staging directory up to the end of the payload, nothing of its own until the directory is
cleared, and from then on the marker, or `cut` says that a removal or a marker has failed. From it `Rebuilds` (`RebuildAccepted`) and `UserKeeps`
(`UserDirKept`), also for commands at the same time. `Packaged` (`PackagedRuns`) assumes
`Together = 1`, since two commands that fill one cache do publish torn trees. Its invariant
relates three things: what a cache is trusted for is in it while only one command fills or
removes it (`Alone`, `CacheInv`); what a command replaces a cache with is whole and the
cache is not trusted meanwhile, and from the resolution on the backend is (`Keeping`); and what
an app needs is in its directory from the staging on, where a link is only found once the
shared runtime is trusted, which never ends (`RunInv`).

### Only model-checked

- Liveness, which is out of the prover's reach (fairness and `ENABLED`): `Converges`,
  `SomethingShows`, `ClosingCleans`, `UnifiedEnds`; and the violations of `NoServerLeft` and
  `ReadersEndAlways`, which are counterexamples.

Every invariant and every action property that a passing run checks is stated by a theorem.

## What is not modelled

- Platform tables, texts, terminal output, icons, the file formats of installers (MSI,
  dmg, AppImage, deb): no state a model would tell apart.
- What Deno's crates, V8, laufey, the bundler, the kernel and the file system do is modelled
  from how this code uses it: a rename is atomic, a file lock ends with its process,
  `hard_link` fails when its target exists, `setScriptSource` answers one of five ways,
  laufey shuts down after the last window.
- Power loss (the code never calls `fsync`): a crash is the end of a process.
- Some failures that the code ignores. Removals of the shared trees (`cef.rs:164`,
  `desktop.rs:378-380`) and of a prune (shim `lib.rs:134`, 158) may be cut short by a death only:
  what they leave is the same. The removal of the sentinel of an app update
  (`DropStaleSentinel`, `AcceptUpdate`) and the clearing by the packaging's fallback (listed above)
  are taken to succeed; where the former fails, a sentinel may vouch for the next update. So is
  the write of the `.desktop` entry. What a removal that fails half way leaves in an output
  directory is any of the entries that say whose it is, and all or none of the rest.
- Some steps are coarser than the code's. Where two embedded packages bring the same folder, the
  earlier one is kept as a whole, while `push_unique` goes file by file (`build.rs:414-418`).
  There is one project directory, while `inka run` reads the configuration of the workspace
  root (`run.rs:385-389`, 430) and `inka build` that of the working directory
  (`build.rs:196-203`). Closing a window and binding a function are one step each, not one for
  the shared map and one for the native call (`desktop_api.rs:180-191`,
  `desktop_js.rs:223-229`, 273-278). A sweep of temp trees judges and removes in one step: names
  are random, so no other launch gets one that was judged.
- Menus, docks and trays only add events to the channel of `DesktopEvents`; the panel of a
  tray icon, and `autoUpdate`'s schedule, are not modelled.
- CommonJS analysis and node services are glue around Deno's crates; the desktop block of
  the configuration and deep-link files are copied key by key.
- `--embed-dir`, the launcher script of a self-extracting app, the installation scripts and
  the runtime stub (a test double).

## Plan

The order was by what an error costs: user data and installed programs first. Done:
updates, caches and the launcher with their proofs; the desktop runtime; build, packaging,
modules and formats; the event channel, the toolchain update, hot module replacement, frameworks and
artifacts with their proofs. What is left, in order:

1. *Modules:* `autoUpdate`'s overlapping checks with `DesktopUpdate`; the self-extracting
   launcher beside `PayloadCache`; `attachPanel`.
2. *Proofs:* that what is trusted is whole with several packaging commands at a time, once
   their interleavings at a name are told apart; the steps of `cmd_desktop` that fail
   silently; that a wait which does not run out finds its window (`SomethingShows` without
   its fairness).
3. *Abstract specifications:* a tuple's file in `RuntimeStore` as an `AtomicFile` with several
   writers.

## Running it

    tlc -workers 2 -config MCRuntimeStore.cfg MCRuntimeStore
    tlapm TreesProofs.tla

Each run is in `PROJECT.json` with its module and configuration; the longest takes about
two minutes and a half.
