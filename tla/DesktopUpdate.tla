--------------------------- MODULE DesktopUpdate ---------------------------
(***************************************************************************)
(* The auto-update file protocol of a desktop app: a running app stages     *)
(* `<App>.so.update`; the next launch swaps it in (apply_pending_update),   *)
(* keeping the replaced image as `.backup`; the `.update-ok` sentinel tells *)
(* a later launch to keep the update, its absence to roll it back.          *)
(*                                                                          *)
(* One action is one file-system call, so a crash (Stop) may fall between   *)
(* any two of them.  The launch maps `<App>.so` into the process BEFORE     *)
(* apply_pending_update replaces that file: `loaded` is what runs, `dylib`  *)
(* is what the next launch will run.                                        *)
(***************************************************************************)
EXTENDS Naturals, FiniteSets

CONSTANTS
  Proc,        \* app processes that may be running at the same time
  Image,       \* complete builds of the app shim + payload
  Unloadable,  \* builds the backend cannot load: shim or payload setup fails
  Dies,        \* builds that load but die before the desktop JS bootstrap
  FirstImage,  \* the build the app was installed with
  NoFile,      \* the file does not exist
  Torn         \* a copy that has not been completed

ASSUME ImageAssumption ==
  /\ Unloadable \subseteq Image
  /\ Dies \subseteq Image
  /\ FirstImage \in Image
  /\ NoFile \notin Image
  /\ Torn \notin Image
  /\ NoFile # Torn

VARIABLES
  dylib,       \* <App>.so
  update,      \* <App>.so.update
  backup,      \* <App>.so.backup
  tmp,         \* <App>.so.update.tmp
  sentinel,    \* <App>.so.update-ok, with the builds it was written for and by
  pc,          \* where each process is in apply_pending_update
  loaded,      \* the build each process has mapped
  rolledBack   \* INKA_DESKTOP_ROLLED_BACK of each process

files == <<dylib, update, backup, tmp, sentinel>>
updateVars == <<dylib, update, backup, tmp, sentinel, pc, loaded, rolledBack>>

Whole == Image \cup {NoFile}
Sentinel == [for : Image \cup {Torn}, by : Image] \cup {NoFile}

SwapSteps == {"dropOk", "dropOld", "link", "copyBackup", "swap", "copyUpdate",
              "renameTmp", "dropUpdate", "undoTmp", "undoBackup"}
Steps == {"off", "check", "checkBackup", "rollback", "accept", "acceptOk",
          "boot", "running"} \cup SwapSteps

UpdateTypeOK ==
  /\ dylib \in Image \cup {Torn}
  /\ update \in Whole
  /\ backup \in Whole \cup {Torn}
  /\ tmp \in Whole \cup {Torn}
  /\ sentinel \in Sentinel
  /\ pc \in [Proc -> Steps]
  /\ loaded \in [Proc -> Image]
  /\ rolledBack \in [Proc -> BOOLEAN]

UpdateInit ==
  /\ dylib = FirstImage
  /\ update = NoFile /\ backup = NoFile /\ tmp = NoFile /\ sentinel = NoFile
  /\ pc = [p \in Proc |-> "off"]
  /\ loaded = [p \in Proc |-> FirstImage]
  /\ rolledBack = [p \in Proc |-> FALSE]

UpdateGoto(p, from, to) == pc[p] = from /\ pc' = [pc EXCEPT ![p] = to]

(***************************************************************************)
(* A launch maps the file and runs the shim's setup.  An image that cannot  *)
(* be loaded makes the launch fail before apply_pending_update: nothing     *)
(* changes.                                                                 *)
(***************************************************************************)
LaunchApp(p) ==
  /\ UpdateGoto(p, "off", "check")
  /\ dylib \in Image \ Unloadable
  /\ loaded' = [loaded EXCEPT ![p] = dylib]
  /\ rolledBack' = [rolledBack EXCEPT ![p] = FALSE]
  /\ UNCHANGED files

CheckPending(p) ==
  /\ UpdateGoto(p, "check", IF update # NoFile THEN "dropOk" ELSE "checkBackup")
  /\ UNCHANGED <<files, loaded, rolledBack>>

(* ---- a new update is pending: back the live image up, move it in ------- *)

(* Mutant: the sentinel of the previous update is left in place. *)
DropStaleSentinelForgotten(p) ==
  /\ UpdateGoto(p, "dropOk", "dropOld")
  /\ UNCHANGED <<files, loaded, rolledBack>>

DropStaleSentinel(p) ==
  /\ UpdateGoto(p, "dropOk", "dropOld")
  /\ sentinel' = NoFile
  /\ UNCHANGED <<dylib, update, backup, tmp, loaded, rolledBack>>

DropOldBackup(p) ==
  /\ UpdateGoto(p, "dropOld", "link")
  /\ backup' = NoFile
  /\ UNCHANGED <<dylib, update, tmp, sentinel, loaded, rolledBack>>

(* Mutant: backup_ok is not consulted when neither link nor copy worked. *)
LinkBackupUnchecked(p) ==
  /\ UpdateGoto(p, "link", "swap")
  /\ backup' \in {dylib, backup}
  /\ UNCHANGED <<dylib, update, tmp, sentinel, loaded, rolledBack>>

(* hard_link succeeds, or a copy is started, or neither can be done. *)
LinkBackup(p) ==
  /\ \/ /\ UpdateGoto(p, "link", "swap")
        /\ backup = NoFile
        /\ backup' = dylib
     \/ UpdateGoto(p, "link", "copyBackup") /\ backup' = Torn
     \/ UpdateGoto(p, "link", "boot") /\ UNCHANGED backup
  /\ UNCHANGED <<dylib, update, tmp, sentinel, loaded, rolledBack>>

CopyBackup(p) ==
  /\ \/ UpdateGoto(p, "copyBackup", "swap") /\ backup' = dylib
     \/ UpdateGoto(p, "copyBackup", "boot") /\ UNCHANGED backup
  /\ UNCHANGED <<dylib, update, tmp, sentinel, loaded, rolledBack>>

(* Mutant: the copy fallback writes the live file in place. *)
SwapInCopiesInPlace(p) ==
  /\ UpdateGoto(p, "swap", "copyUpdate")
  /\ dylib' = Torn
  /\ UNCHANGED <<update, backup, tmp, sentinel, loaded, rolledBack>>

SwapIn(p) ==
  /\ \/ /\ UpdateGoto(p, "swap", "boot")
        /\ update # NoFile
        /\ dylib' = update /\ update' = NoFile
        /\ UNCHANGED tmp
     \/ /\ UpdateGoto(p, "swap", "copyUpdate")     \* the rename failed
        /\ tmp' = Torn
        /\ UNCHANGED <<dylib, update>>
  /\ UNCHANGED <<backup, sentinel, loaded, rolledBack>>

CopyUpdate(p) ==
  /\ \/ UpdateGoto(p, "copyUpdate", "renameTmp") /\ update # NoFile /\ tmp' = update
     \/ UpdateGoto(p, "copyUpdate", "undoTmp") /\ UNCHANGED tmp
  /\ UNCHANGED <<dylib, update, backup, sentinel, loaded, rolledBack>>

RenameTmp(p) ==
  /\ \/ /\ UpdateGoto(p, "renameTmp", "dropUpdate")
        /\ tmp # NoFile
        /\ dylib' = tmp /\ tmp' = NoFile
     \/ UpdateGoto(p, "renameTmp", "undoTmp") /\ UNCHANGED <<dylib, tmp>>
  /\ UNCHANGED <<update, backup, sentinel, loaded, rolledBack>>

DropUpdate(p) ==
  /\ UpdateGoto(p, "dropUpdate", "boot")
  /\ update' = NoFile
  /\ UNCHANGED <<dylib, backup, tmp, sentinel, loaded, rolledBack>>

UndoTmp(p) ==
  /\ UpdateGoto(p, "undoTmp", "undoBackup")
  /\ tmp' = NoFile
  /\ UNCHANGED <<dylib, update, backup, sentinel, loaded, rolledBack>>

UndoBackup(p) ==
  /\ UpdateGoto(p, "undoBackup", "boot")
  /\ backup' = NoFile
  /\ UNCHANGED <<dylib, update, tmp, sentinel, loaded, rolledBack>>

(* ---- nothing pending: judge the previous update by its sentinel --------- *)

CheckBackup(p) ==
  /\ \/ UpdateGoto(p, "checkBackup", "rollback") /\ backup # NoFile /\ sentinel = NoFile
     \/ UpdateGoto(p, "checkBackup", "accept") /\ backup # NoFile /\ sentinel # NoFile
     \/ UpdateGoto(p, "checkBackup", "boot") /\ backup = NoFile
  /\ UNCHANGED <<files, loaded, rolledBack>>

(* The rename's failure is ignored: the launch reports a rollback anyway. *)
Rollback(p) ==
  /\ UpdateGoto(p, "rollback", "boot")
  /\ \/ backup # NoFile /\ dylib' = backup /\ backup' = NoFile
     \/ UNCHANGED <<dylib, backup>>
  /\ rolledBack' = [rolledBack EXCEPT ![p] = TRUE]
  /\ UNCHANGED <<update, tmp, sentinel, loaded>>

AcceptUpdate(p) ==
  /\ UpdateGoto(p, "accept", "acceptOk")
  /\ backup' = NoFile
  /\ UNCHANGED <<dylib, update, tmp, sentinel, loaded, rolledBack>>

AcceptSentinel(p) ==
  /\ UpdateGoto(p, "acceptOk", "boot")
  /\ sentinel' = NoFile
  /\ UNCHANGED <<dylib, update, backup, tmp, loaded, rolledBack>>

(* ---- the app runs ------------------------------------------------------- *)

(***************************************************************************)
(* The auto-update script runs before the app's own module: unless this     *)
(* launch rolled back, it calls op_desktop_confirm_update.  The op is       *)
(* Deno's; it writes the sentinel, possibly only when a backup exists.      *)
(***************************************************************************)
BootstrapApp(p) ==
  /\ UpdateGoto(p, "boot", "running")
  /\ loaded[p] \notin Dies
  /\ \/ /\ ~rolledBack[p]
        /\ sentinel' = [for |-> dylib, by |-> loaded[p]]
     \/ /\ rolledBack[p] \/ backup = NoFile
        /\ UNCHANGED sentinel
  /\ UNCHANGED <<dylib, update, backup, tmp, loaded, rolledBack>>

(***************************************************************************)
(* Deno.autoUpdate found a manifest of another version than the running     *)
(* one; op_desktop_apply_patch patches a copy of `<App>.so`, whatever build *)
(* that file holds by now.                                                  *)
(***************************************************************************)
StageUpdate(p, img) ==
  /\ pc[p] = "running"
  /\ img \notin {loaded[p], dylib}
  /\ update' = img
  /\ UNCHANGED <<dylib, backup, tmp, sentinel, pc, loaded, rolledBack>>

(* The process exits, is killed, or dies before the bootstrap. *)
Stop(p) ==
  /\ pc[p] # "off"
  /\ pc' = [pc EXCEPT ![p] = "off"]
  /\ UNCHANGED <<files, loaded, rolledBack>>

SwapStep(p) ==
  \/ DropStaleSentinel(p) \/ DropOldBackup(p) \/ LinkBackup(p) \/ CopyBackup(p)
  \/ SwapIn(p) \/ CopyUpdate(p) \/ RenameTmp(p) \/ DropUpdate(p)
  \/ UndoTmp(p) \/ UndoBackup(p)

UpdateNext ==
  \E p \in Proc :
    \/ LaunchApp(p) \/ CheckPending(p) \/ SwapStep(p)
    \/ CheckBackup(p) \/ Rollback(p) \/ AcceptUpdate(p) \/ AcceptSentinel(p)
    \/ BootstrapApp(p) \/ Stop(p)
    \/ \E img \in Image : StageUpdate(p, img)

UpdateSpec == UpdateInit /\ [][UpdateNext]_updateVars

-----------------------------------------------------------------------------
(* Properties of one instance of the app at a time (Proc is a singleton).   *)

(* What a process is about to rename over <App>.so. *)
Offer(p) ==
  CASE pc[p] = "swap" -> update
    [] pc[p] = "renameTmp" -> tmp
    [] pc[p] = "rollback" -> backup
    [] OTHER -> NoFile
Offered ==
  IF \E p \in Proc : Offer(p) # NoFile
  THEN Offer(CHOOSE p \in Proc : Offer(p) # NoFile) ELSE NoFile

Live == INSTANCE AtomicFile WITH
  Content <- Image, None <- NoFile, file <- dylib, ready <- Offered

(* The file the next launch loads changes only by becoming a complete build *)
(* that was ready beside it, at every crash point of the swap, of its copy  *)
(* fallback and of the rollback (desktop.rs:107-137); see AtomicFile.       *)
SwapsAtomically == Live!Spec

(* It is never half a copy (desktop.rs:107-126). *)
DylibWhole == dylib # Torn

(* A half-copied backup is never what a launch would roll back to: it only  *)
(* exists while the update it belongs to is still pending, and a pending    *)
(* update is re-applied before any backup is looked at (desktop.rs:105-137).*)
TornBackupPending == backup = Torn => update # NoFile

(* A process that has replaced the file it runs from keeps the image it     *)
(* runs from as the backup until a later launch (desktop.rs:107-130).       *)
SwapRecoverable ==
  \A p \in Proc :
    pc[p] \in {"boot", "running", "dropUpdate"} /\ ~rolledBack[p] /\ dylib # loaded[p]
      => backup = loaded[p]

(* The sentinel that makes a launch accept an update was written after that *)
(* update was swapped in; one left from an earlier update never vouches for *)
(* a later one (desktop.rs:108, 136-139).                                   *)
SentinelIsForDylib ==
  backup # NoFile /\ sentinel # NoFile /\ update = NoFile => sentinel.for = dylib
=============================================================================
