--------------------------- MODULE DesktopPackage ---------------------------
(***************************************************************************)
(* `inka desktop`: from the payload over the app directory, the backend and *)
(* its shared runtime to the self-extracting form and the installer, with a *)
(* failure or a death at every step, built again and again into the same    *)
(* directories, which may hold what the user put there.                     *)
(***************************************************************************)
EXTENDS SharedTrees, Functions

CONSTANTS
  Option,    \* the options a command is given
  MaxBuilds, \* bound: packaging commands
  Together,  \* bound: commands at the same time
  MaxKills   \* bound: commands that die

(* What an app directory holds, under its names.                             *)
DirEntry == CacheItem \cup {"user", "staging", "marker", "launcher", "so", "version", "entry", "payload"}
Content == {"own", "payload", "marker", "backend", "link", "copy", "shim", "tuple", "entry", "archive", "torn", "script"}

ASSUME PackageAssumption ==
  /\ Option \subseteq [compress : BOOLEAN, installer : BOOLEAN, so : {"so", "lib"}]
  /\ IsFiniteSet(App) /\ MaxBuilds \in Nat /\ Together \in Nat /\ MaxKills \in Nat
  /\ \A S \in SUBSET DirEntry : None \notin [S -> Content]

VARIABLES
  dir,     \* app directories: what lies under which name
  listing, \* the shared entries a command links
  opt,     \* the options of a command
  packed,  \* the tree moved aside for, then packed into, the payload archive
  builds, kills,
  cut      \* directories a removal left unmarked or with the staging, or that got no marker

ownVars == <<dir, listing, opt, packed, builds, kills, cut>>
packageVars == <<treeVars, ownVars>>

EmptyDir == [n \in {} |-> "nothing"]
(* The app's library is named after the app: it may have the name of a file *)
(* of the backend.                                                          *)
PlainOption == [compress |-> FALSE, installer |-> FALSE, so |-> "so"]

Resting == {"idle", "done", "failed", "refused", "dead"}
Active == {a \in App : pc[a] \notin Resting}
Entries(a) == IF dir[a] = None THEN {} ELSE DOMAIN dir[a]
Laid(d, n, what) == [x \in DOMAIN d \cup {n} |-> IF x = n THEN what ELSE d[x]]
Put(a, n, what) == dir' = [dir EXCEPT ![a] = Laid(@, n, what)]
Drop(a, n) == dir' = [dir EXCEPT ![a] = Restrict(@, DOMAIN @ \ {n})]

PackageInit ==
  /\ TreesInit
  /\ dir \in [App -> {None, Laid(EmptyDir, "user", "own")}]
  /\ listing = [a \in App |-> {}] /\ opt = [a \in App |-> PlainOption]
  /\ packed = [a \in App |-> EmptyDir]
  /\ builds = 0 /\ kills = 0 /\ cut = {}

(* ---- the payload ------------------------------------------------------------ *)

(* The staging directory is made in the app directory, before anything is   *)
(* known of that one.                                                       *)
Start(a) ==
  /\ pc[a] \in Resting /\ builds < MaxBuilds /\ Cardinality(Active) < Together
  /\ builds' = builds + 1
  /\ \E o \in Option : opt' = [opt EXCEPT ![a] = o]
  /\ dir' = [dir EXCEPT ![a] = Laid(IF @ = None THEN EmptyDir ELSE @, "staging", "payload")]
  /\ packed' = [packed EXCEPT ![a] = EmptyDir]
  /\ Goto(a, "payload")
  /\ UNCHANGED <<ships, stored, name, mine, rm, listing, kills, cut>>

Step(a, from, ends) ==
  /\ At(a, from)
  /\ \E l \in ends : Goto(a, l)
  /\ UNCHANGED <<ships, stored, name, mine, rm, ownVars>>

CopyPayload(a) == Step(a, "payload", {"collect", "failed"})

(* A framework is detected and built; an entry generated in the project is  *)
(* bundled like any other, and the build's output shipped with it.          *)
BuildFramework(a) == Step(a, "payload", {"bundle", "failed"})
BundleFramework(a) == Step(a, "bundle", {"outputs", "failed"})
CopyOutputs(a) == Step(a, "outputs", {"collect", "failed"})

BuildEntry(a) == Step(a, "payload", {"collect", "failed"})

(* Mutant: the staging directory is kept for the next build. *)
CollectKept(a) == Step(a, "collect", {"backend", "failed"})

(* The files are read and the staging directory goes, if it lets itself be  *)
(* removed: a failure of that is ignored.  Every failure up to here leaves  *)
(* it.                                                                      *)
Collect(a) ==
  /\ At(a, "collect")
  /\ \/ Drop(a, "staging") /\ Goto(a, "backend") /\ UNCHANGED cut
     \/ UNCHANGED dir /\ Goto(a, "backend") /\ cut' = cut \cup {a}
     \/ Goto(a, "failed") /\ UNCHANGED <<dir, cut>>
  /\ UNCHANGED <<ships, stored, name, mine, rm, listing, opt, packed, builds, kills>>

(* ---- the backend ------------------------------------------------------------ *)

ResolveBackend(a) ==
  /\ At(a, "backend")
  /\ Goto(a, IF Trusted("laufey") THEN "shim" ELSE "download")
  /\ UNCHANGED <<ships, stored, name, mine, rm, ownVars>>

Download(a) ==
  /\ At(a, "download")
  /\ \/ IF {"mark", "exe"} \subseteq Held("laufey") THEN Goto(a, "shim") /\ UNCHANGED <<ships, stored, name, mine, rm>>
        ELSE Fill(a, "laufey", Whole.laufey)
     \/ Goto(a, "failed") /\ UNCHANGED <<ships, stored, name, mine, rm>>
  /\ UNCHANGED ownVars

ResolveShim(a) == Step(a, "shim", {"reserve", "failed"})

(* ---- the app directory ------------------------------------------------------ *)

Ours(a) == {"marker", "version"} \cap Entries(a) # {}

Reserve(a) ==
  /\ At(a, "reserve")
  /\ IF dir[a] # None /\ ~Ours(a) /\ Entries(a) # {} THEN Goto(a, "refused") ELSE Goto(a, "clear")
  /\ UNCHANGED <<ships, stored, name, mine, rm, ownVars>>

(* remove_dir_all takes one entry after the other.  Where it is cut short   *)
(* any may be left of those that say whose the directory is, and all or     *)
(* none of the rest, as nothing asks which; the directory goes unmarked     *)
(* when something is left and none of it says so.                           *)
Telling == {"marker", "version", "payload"}
Unmarked(left) == left # {} /\ {"marker", "version"} \cap left = {}
ClearsPart(a) ==
  \E said \in SUBSET (Entries(a) \cap Telling), rest \in {{}, Entries(a) \ Telling} :
    LET left == said \cup rest IN
    /\ dir' = [dir EXCEPT ![a] = Restrict(@, left)]
    /\ cut' = IF Unmarked(left) THEN cut \cup {a} ELSE cut

Clear(a) ==
  /\ At(a, "clear")
  /\ \/ dir' = [dir EXCEPT ![a] = EmptyDir] /\ cut' = cut \ {a} /\ Goto(a, "mark")
     \/ dir[a] # None /\ ClearsPart(a) /\ Goto(a, "failed")
  /\ UNCHANGED <<ships, stored, name, mine, rm, listing, opt, packed, builds, kills>>

(* That the marker cannot be written is ignored. *)
MarkDir(a) ==
  /\ At(a, "mark")
  /\ \/ Put(a, "marker", "marker") /\ UNCHANGED cut
     \/ UNCHANGED dir /\ cut' = cut \cup {a}
  /\ Goto(a, "stage")
  /\ UNCHANGED <<ships, stored, name, mine, rm, listing, opt, packed, builds, kills>>

(* ---- staging the backend ------------------------------------------------------ *)

PlaceExe(a) == Put(a, "exe", "backend")

(* A backend without libcef beside it ships alone. *)
StageBackend(a) ==
  /\ At(a, "stage")
  /\ IF "lib" \in Held("laufey") THEN Goto(a, "ensure") /\ UNCHANGED dir
     ELSE \/ "exe" \in Held("laufey") /\ PlaceExe(a) /\ Goto(a, "pack")
          \/ Goto(a, "failed") /\ UNCHANGED dir
  /\ UNCHANGED <<ships, stored, name, mine, rm, listing, opt, packed, builds, kills, cut>>

(* ensure_shared_cef_at; entries that are not there are not missed, but for *)
(* libcef.                                                                  *)
EnsureShared(a) ==
  /\ At(a, "ensure")
  /\ LET got == Held("laufey") \cap Runtime
     IN \/ Trusted("cef") /\ Goto(a, "link") /\ UNCHANGED <<ships, stored, name, mine, rm>>
        \/ ~Trusted("cef") /\ "lib" \in got /\ Fill(a, "cef", got)
        \/ ~Trusted("cef") /\ Goto(a, "own") /\ UNCHANGED <<ships, stored, name, mine, rm>>
  /\ UNCHANGED ownVars

(* The marker is written by path, into whatever lies there. *)
MarkShared(a) ==
  /\ At(a, "mark shared")
  /\ IF name["cef"] = None THEN Goto(a, "own") /\ UNCHANGED stored
     ELSE Goto(a, "link") /\ stored' = [stored EXCEPT !["cef"][name["cef"]] = @ \cup {"mark"}]
  /\ UNCHANGED <<ships, name, mine, rm, ownVars>>

(* link_into_app: the entries are listed once and linked one by one. *)
ListShared(a) ==
  /\ At(a, "link")
  /\ IF name["cef"] = None THEN Goto(a, "own") /\ UNCHANGED listing
     ELSE Goto(a, "linking") /\ listing' = [listing EXCEPT ![a] = Held("cef") \ {"mark"}]
  /\ UNCHANGED <<ships, stored, name, mine, rm, dir, opt, packed, builds, kills, cut>>

LinkOne(a) ==
  /\ At(a, "linking")
  /\ \E i \in listing[a] :
       \/ i \in Held("cef") /\ Put(a, i, "link") /\ listing' = [listing EXCEPT ![a] = @ \ {i}] /\ UNCHANGED pc
       \/ Goto(a, "own") /\ UNCHANGED <<dir, listing>>
  /\ UNCHANGED <<ships, stored, name, mine, rm, opt, packed, builds, kills, cut>>

Linked(a) ==
  /\ At(a, "linking") /\ listing[a] = {}
  /\ \/ "exe" \in Held("laufey") /\ PlaceExe(a) /\ Goto(a, "pack")
     \/ Goto(a, "own") /\ UNCHANGED dir
  /\ UNCHANGED <<ships, stored, name, mine, rm, listing, opt, packed, builds, kills, cut>>

(* The fallback: the directory is cleared, marked again, and gets a copy of *)
(* what lies beside the backend.  A copy that fails leaves all or nothing   *)
(* of that; that the marker cannot be written is ignored here too.          *)
Copied(a) == [i \in Held("laufey") \ {"mark"} |-> IF i = "exe" THEN "backend" ELSE "copy"]
CopyEnds(a, got) == \/ Goto(a, "failed")
                    \/ got = DOMAIN Copied(a) /\ "exe" \in got /\ Goto(a, "pack")

(* Mutant: the cleared directory is not marked again. *)
OwnCopyUnmarked(a) ==
  /\ At(a, "own")
  /\ \E got \in {{}, DOMAIN Copied(a)} : dir' = [dir EXCEPT ![a] = Restrict(Copied(a), got)] /\ CopyEnds(a, got)
  /\ listing' = [listing EXCEPT ![a] = {}]
  /\ UNCHANGED <<ships, stored, name, mine, rm, opt, packed, builds, kills, cut>>

OwnCopy(a) ==
  /\ At(a, "own")
  /\ \E got \in {{}, DOMAIN Copied(a)} :
       /\ \/ /\ dir' = [dir EXCEPT ![a] = Laid(Restrict(Copied(a), got), "marker", "marker")]
             /\ UNCHANGED cut
          \/ /\ dir' = [dir EXCEPT ![a] = Restrict(Copied(a), got)]
             /\ cut' = cut \cup {a}
       /\ CopyEnds(a, got)
  /\ listing' = [listing EXCEPT ![a] = {}]
  /\ UNCHANGED <<ships, stored, name, mine, rm, opt, packed, builds, kills>>

(* ---- the app ------------------------------------------------------------------ *)

So(a) == opt[a].so

(* Mutant: what the backend ships under the app's name is replaced. *)
PackShimOver(a) ==
  /\ At(a, "pack")
  /\ Put(a, So(a), "shim") /\ Goto(a, "rename")
  /\ UNCHANGED <<ships, stored, name, mine, rm, listing, opt, packed, builds, kills, cut>>

(* check_target_collisions; a link counts when it leads somewhere. *)
Leads(n, what) == what # "link" \/ n \in Held("cef")

PackShim(a) ==
  /\ At(a, "pack")
  /\ \/ So(a) \in Entries(a) /\ Leads(So(a), dir[a][So(a)]) /\ Goto(a, "failed") /\ UNCHANGED dir
     \/ ~(So(a) \in Entries(a) /\ Leads(So(a), dir[a][So(a)])) /\ Put(a, So(a), "shim") /\ Goto(a, "rename")
     \/ Goto(a, "failed") /\ UNCHANGED dir
  /\ UNCHANGED <<ships, stored, name, mine, rm, listing, opt, packed, builds, kills, cut>>

RenameBackend(a) ==
  /\ At(a, "rename")
  /\ \/ /\ dir' = [dir EXCEPT ![a] = Laid(Restrict(@, DOMAIN @ \ {"exe"}), "launcher", "backend")]
        /\ Goto(a, "version")
     \/ Goto(a, "failed") /\ UNCHANGED dir
  /\ UNCHANGED <<ships, stored, name, mine, rm, listing, opt, packed, builds, kills, cut>>

(* Without an installed runtime there is no tuple to write; the desktop     *)
(* entry always is.                                                         *)
WriteVersion(a) ==
  /\ At(a, "version")
  /\ \E some \in BOOLEAN :
       dir' = [dir EXCEPT ![a] = Laid(IF some THEN Laid(@, "version", "tuple") ELSE @, "entry", "entry")]
  /\ Goto(a, IF opt[a].compress THEN "compress" ELSE "artifacts")
  /\ UNCHANGED <<ships, stored, name, mine, rm, listing, opt, packed, builds, kills, cut>>

(* ---- the self-extracting form -------------------------------------------------- *)

MoveAside(a) ==
  /\ At(a, "compress")
  /\ packed' = [packed EXCEPT ![a] = dir[a]]
  /\ dir' = [dir EXCEPT ![a] = EmptyDir]
  /\ Goto(a, "thin")
  /\ UNCHANGED <<ships, stored, name, mine, rm, listing, opt, builds, kills, cut>>

(* The tree aside is removed also when the archive could not be written. *)
WriteThin(a) ==
  /\ At(a, "thin")
  /\ \/ Put(a, "payload", "archive") /\ Goto(a, "thin launcher") /\ UNCHANGED packed
     \/ Goto(a, "failed") /\ packed' = [packed EXCEPT ![a] = EmptyDir]
        /\ (UNCHANGED dir \/ Put(a, "payload", "torn"))
  /\ UNCHANGED <<ships, stored, name, mine, rm, listing, opt, builds, kills, cut>>

WriteLauncher(a) ==
  /\ At(a, "thin launcher")
  /\ \/ Put(a, "launcher", "script") /\ Goto(a, "artifacts")
     \/ Goto(a, "failed") /\ UNCHANGED dir
  /\ UNCHANGED <<ships, stored, name, mine, rm, listing, opt, packed, builds, kills, cut>>

(* The installer wants the tuple and four files. *)
Shippable(a) == {"launcher", So(a), "version", "entry"} \subseteq Entries(a)

Installer(a) ==
  /\ opt[a].installer
  /\ Step(a, "artifacts", {"failed"} \cup IF Shippable(a) THEN {"done"} ELSE {})

(* The portable archive may fail with a warning. *)
PortableArchive(a) == ~opt[a].installer /\ Step(a, "artifacts", {"done"})

(* ---- the world around ------------------------------------------------------------ *)

Die(a) ==
  /\ a \in Active /\ kills < MaxKills
  /\ kills' = kills + 1
  /\ IF pc[a] \in {"clear", "own"} /\ dir[a] # None THEN ClearsPart(a) ELSE UNCHANGED <<dir, cut>>
  /\ Goto(a, "dead")
  /\ Forget(a)
  /\ listing' = [listing EXCEPT ![a] = {}]
  /\ UNCHANGED <<ships, name, opt, packed, builds>>

Command(a) ==
  \/ Start(a) \/ CopyPayload(a) \/ BuildFramework(a) \/ BundleFramework(a) \/ CopyOutputs(a)
  \/ BuildEntry(a) \/ Collect(a) \/ ResolveBackend(a) \/ Download(a) \/ ResolveShim(a)
  \/ Reserve(a) \/ Clear(a) \/ MarkDir(a)
  \/ StageBackend(a) \/ EnsureShared(a) \/ MarkShared(a)
  \/ ListShared(a) \/ LinkOne(a) \/ Linked(a) \/ OwnCopy(a)
  \/ PackShim(a) \/ RenameBackend(a) \/ WriteVersion(a)
  \/ MoveAside(a) \/ WriteThin(a) \/ WriteLauncher(a) \/ Installer(a) \/ PortableArchive(a)

Replace(a) ==
  /\ \E c \in Cache : OpenOld(a, c) \/ RemoveItem(a, c) \/ Removed(a, c)
  /\ UNCHANGED ownVars

PublishBackend(a) == Publish(a, "laufey", "shim", "failed") /\ UNCHANGED ownVars
PublishShared(a) == Publish(a, "cef", "mark shared", "own") /\ UNCHANGED ownVars

PackageNext == \E a \in App : Command(a) \/ Replace(a) \/ PublishBackend(a) \/ PublishShared(a) \/ Die(a)
PackageSpec == PackageInit /\ [][PackageNext]_packageVars

(* ---- properties ------------------------------------------------------------------- *)

Runs(d, so) ==
  /\ {"launcher", so} \cup ships \subseteq DOMAIN d
  /\ d["launcher"] = "backend" /\ d[so] = "shim"
  /\ \A i \in ships : d[i] = "copy" \/ (d[i] = "link" /\ Leads(i, "link"))

(* What the next command takes from a cache without a second look is whole, *)
(* also after a command died while it filled or replaced it                 *)
(* (desktop.rs:321-325, cef.rs:121-129).                                    *)
TrustedWhole ==
  \A c \in Cache : Trusted(c) => Whole[c] \ {"mark"} \subseteq Held(c)

(* Whatever later commands do and wherever they die, the caches they trust  *)
(* are whole, and an app that was reported as packaged goes on to run: it   *)
(* has its launcher, its own library and every file of the backend, or a    *)
(* link that leads to it (desktop.rs:1650-1756, cef.rs:132-305).            *)
PackagedRuns ==
  /\ TrustedWhole
  /\ \A a \in App : At(a, "done") =>
       IF "payload" \in Entries(a) THEN Runs(packed[a], So(a)) /\ dir[a]["launcher"] = "script"
       ELSE Runs(dir[a], So(a))

(* A command may clear what an earlier one has left, however that one ended *)
(* (desktop.rs:33-35, 1762-1792).  It is refused only for what the user     *)
(* owns, where the self-extracting form has replaced the directory, and     *)
(* where a removal that was cut short took the marker and left something,   *)
(* left the staging directory, or the marker could not be written.          *)
RebuildAccepted ==
  \A a \in App : At(a, "refused") =>
    \/ "user" \in Entries(a)
    \/ "payload" \in Entries(a)
    \/ a \in cut

OwnFile(a) == "user" \in Entries(a)

(* What is in a directory the user made stays there, and a command that is  *)
(* refused has left nothing beside it, unless its staging directory could   *)
(* not be removed (desktop.rs:1077-1110, 1762-1792).                        *)
UserDirKept ==
  [][\A a \in App : OwnFile(a) =>
       OwnFile(a)' /\ (At(a, "refused")' => Entries(a)' = {"user"} \/ a \in cut')]_packageVars
=============================================================================
