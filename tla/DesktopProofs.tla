---------------------------- MODULE DesktopProofs ----------------------------
(***************************************************************************)
(* A desktop app: the update it swaps in before it runs, the windows of its *)
(* boot, and the dev server that runs beside it.                            *)
(***************************************************************************)
EXTENDS DesktopUpdate, DesktopDev, TLAPS

-----------------------------------------------------------------------------
(***************************************************************************)
(* The update swap of one app instance, for every set of builds.  A launch  *)
(* between two file-system calls is described by what each step can rely    *)
(* on: what is pending, what the live image is and what the backup holds.   *)
(***************************************************************************)

(* Properties of one instance of the app at a time.                         *)
OneInstance == \A p, q \in Proc : p = q

JudgeSteps == {"checkBackup", "rollback", "accept", "acceptOk"}
BackedUp == {"swap", "copyUpdate", "renameTmp", "dropUpdate", "undoTmp", "undoBackup"}

(* The swap works on a pending update, the judgement without one. *)
PendingByStep ==
  \A p \in Proc : /\ pc[p] \in SwapSteps => update # NoFile
                  /\ pc[p] \in JudgeSteps => update = NoFile

(* Until the swap, the live image is the one that has been mapped. *)
LiveIsLoaded ==
  \A p \in Proc :
    pc[p] \in (SwapSteps \ {"dropUpdate"}) \cup JudgeSteps \cup {"check"} => dylib = loaded[p]

BackupIsLoaded == \A p \in Proc : pc[p] \in BackedUp => backup = loaded[p]

TmpIsWhole == \A p \in Proc : pc[p] = "renameTmp" => tmp \in Image

NoStaleSentinel == \A p \in Proc : pc[p] \in SwapSteps \ {"dropOk"} => sentinel = NoFile

UpdateInv ==
  /\ UpdateTypeOK
  /\ PendingByStep /\ LiveIsLoaded /\ BackupIsLoaded /\ TmpIsWhole /\ NoStaleSentinel
  /\ DylibWhole /\ TornBackupPending /\ SwapRecoverable /\ SentinelIsForDylib

(* An app that has just been installed has no update (desktop.rs:95-103).   *)
LEMMA UpdateStarts == UpdateInit => UpdateInv
  BY ImageAssumption
  DEF UpdateInit, UpdateInv, UpdateTypeOK, PendingByStep, LiveIsLoaded, BackupIsLoaded, TmpIsWhole,
      NoStaleSentinel, DylibWhole, TornBackupPending, SwapRecoverable, SentinelIsForDylib,
      Steps, SwapSteps, JudgeSteps, BackedUp, Whole, Sentinel

(* Every file-system call of an update, and a crash before any of them,     *)
(* keeps the invariant (desktop.rs:95-141).                                 *)
LEMMA UpdateStep == ASSUME OneInstance, UpdateInv, [UpdateNext]_updateVars PROVE UpdateInv'
<1> USE ImageAssumption
    DEF OneInstance, UpdateInv, UpdateTypeOK, PendingByStep, LiveIsLoaded, BackupIsLoaded, TmpIsWhole,
      NoStaleSentinel, DylibWhole, TornBackupPending, SwapRecoverable, SentinelIsForDylib,
      Steps, SwapSteps, JudgeSteps, BackedUp, Whole, Sentinel, UpdateGoto, files
<1>1. ASSUME NEW p \in Proc, LaunchApp(p) PROVE UpdateInv'
  BY <1>1 DEF LaunchApp
<1>2. ASSUME NEW p \in Proc, CheckPending(p) PROVE UpdateInv'
  BY <1>2 DEF CheckPending
<1>3. ASSUME NEW p \in Proc, SwapStep(p) PROVE UpdateInv'
  <2>1. CASE DropStaleSentinel(p)
    BY <2>1 DEF DropStaleSentinel
  <2>2. CASE DropOldBackup(p)
    BY <2>2 DEF DropOldBackup
  <2>3. CASE LinkBackup(p)
    BY <2>3 DEF LinkBackup
  <2>4. CASE CopyBackup(p)
    BY <2>4 DEF CopyBackup
  <2>5. CASE SwapIn(p)
    BY <2>5 DEF SwapIn
  <2>6. CASE CopyUpdate(p)
    BY <2>6 DEF CopyUpdate
  <2>7. CASE RenameTmp(p)
    BY <2>7 DEF RenameTmp
  <2>8. CASE DropUpdate(p)
    BY <2>8 DEF DropUpdate
  <2>9. CASE UndoTmp(p)
    BY <2>9 DEF UndoTmp
  <2>10. CASE UndoBackup(p)
    BY <2>10 DEF UndoBackup
  <2> QED
    BY <1>3, <2>1, <2>2, <2>3, <2>4, <2>5, <2>6, <2>7, <2>8, <2>9, <2>10 DEF SwapStep
<1>4. ASSUME NEW p \in Proc, CheckBackup(p) PROVE UpdateInv'
  BY <1>4 DEF CheckBackup
<1>5. ASSUME NEW p \in Proc, Rollback(p) PROVE UpdateInv'
  BY <1>5 DEF Rollback
<1>6. ASSUME NEW p \in Proc, AcceptUpdate(p) PROVE UpdateInv'
  BY <1>6 DEF AcceptUpdate
<1>7. ASSUME NEW p \in Proc, AcceptSentinel(p) PROVE UpdateInv'
  BY <1>7 DEF AcceptSentinel
<1>8. ASSUME NEW p \in Proc, BootstrapApp(p) PROVE UpdateInv'
  BY <1>8 DEF BootstrapApp
<1>9. ASSUME NEW p \in Proc, Stop(p) PROVE UpdateInv'
  BY <1>9 DEF Stop
<1>10. ASSUME NEW p \in Proc, NEW img \in Image, StageUpdate(p, img) PROVE UpdateInv'
  BY <1>10 DEF StageUpdate
<1>11. CASE UNCHANGED updateVars
  BY <1>11 DEF updateVars
<1> QED
  BY <1>1, <1>2, <1>3, <1>4, <1>5, <1>6, <1>7, <1>8, <1>9, <1>10, <1>11 DEF UpdateNext

(* The invariant in every reachable state of one instance                   *)
(* (desktop.rs:95-141).                                                     *)
THEOREM UpdateInvariance == ASSUME OneInstance PROVE UpdateSpec => []UpdateInv
<1>1. UpdateInit => UpdateInv
  BY UpdateStarts
<1>2. UpdateInv /\ [UpdateNext]_updateVars => UpdateInv'
  BY UpdateStep
<1> QED
  BY <1>1, <1>2, PTL DEF UpdateSpec

(* The file the next launch loads is a complete build at every crash point  *)
(* (desktop.rs:107-126).                                                    *)
THEOREM AlwaysWhole == ASSUME OneInstance PROVE UpdateSpec => []DylibWhole
<1>1. UpdateSpec => []UpdateInv
  BY UpdateInvariance
<1> QED
  BY <1>1, PTL DEF UpdateInv

(* A half-copied backup is never rolled back to (desktop.rs:105-137).       *)
THEOREM TornBackupNeverJudged == ASSUME OneInstance PROVE UpdateSpec => []TornBackupPending
<1>1. UpdateSpec => []UpdateInv
  BY UpdateInvariance
<1> QED
  BY <1>1, PTL DEF UpdateInv

(* A swap can be undone as long as the process that made it runs            *)
(* (desktop.rs:107-130).                                                    *)
THEOREM Recoverable == ASSUME OneInstance PROVE UpdateSpec => []SwapRecoverable
<1>1. UpdateSpec => []UpdateInv
  BY UpdateInvariance
<1> QED
  BY <1>1, PTL DEF UpdateInv

(* A sentinel left from an earlier update never vouches for a later one     *)
(* (desktop.rs:108, 136-139).                                               *)
THEOREM SentinelFresh == ASSUME OneInstance PROVE UpdateSpec => []SentinelIsForDylib
<1>1. UpdateSpec => []UpdateInv
  BY UpdateInvariance
<1> QED
  BY <1>1, PTL DEF UpdateInv

(* Only what the one process offers is offered (desktop.rs:107-137).        *)
LEMMA OfferedByOne ==
  ASSUME OneInstance, NEW p \in Proc
  PROVE  Offered = Offer(p) /\ Offered' = Offer(p)'
<1>1. \A q \in Proc : q = p
  BY DEF OneInstance
<1>2. Offered = Offer(p)
  <2>1. CASE Offer(p) # NoFile
    <3>1. (CHOOSE q \in Proc : Offer(q) # NoFile) \in Proc
      BY <2>1
    <3> QED BY <1>1, <2>1, <3>1 DEF Offered
  <2>2. CASE Offer(p) = NoFile
    BY <1>1, <2>2 DEF Offered
  <2> QED BY <2>1, <2>2
<1>3. Offered' = Offer(p)'
  <2>1. CASE Offer(p)' # NoFile
    <3>1. (CHOOSE q \in Proc : Offer(q)' # NoFile) \in Proc
      BY <2>1
    <3> QED BY <1>1, <2>1, <3>1 DEF Offered
  <2>2. CASE Offer(p)' = NoFile
    BY <1>1, <2>2 DEF Offered
  <2> QED BY <2>1, <2>2
<1> QED
  BY <1>2, <1>3

(* An update is made ready, renamed into place, or given up                 *)
(* (desktop.rs:107-137).                                                    *)
LEMMA StepIsAtomic ==
  ASSUME OneInstance, UpdateInv, [UpdateNext]_updateVars PROVE [Live!Next]_(Live!fileVars)
<1> SUFFICES ASSUME NEW p \in Proc, NEW o, NEW o1,
                    o = Offer(p), o1 = Offer(p)', Offered = o, Offered' = o1,
                    \/ LaunchApp(p) \/ CheckPending(p) \/ SwapStep(p)
                    \/ CheckBackup(p) \/ Rollback(p) \/ AcceptUpdate(p) \/ AcceptSentinel(p)
                    \/ BootstrapApp(p) \/ Stop(p)
                    \/ \E img \in Image : StageUpdate(p, img)
             PROVE  [Live!Next]_(Live!fileVars)
  <2>1. CASE UNCHANGED updateVars
    BY <2>1 DEF updateVars, Live!fileVars, Offered, Offer
  <2> QED
    BY <2>1, OfferedByOne DEF UpdateNext
<1> DEFINE A == \/ o = NoFile /\ o1 \in Image /\ dylib' = dylib
                \/ o # NoFile /\ dylib' = o /\ o1 = NoFile
                \/ o # NoFile /\ o1 = NoFile /\ dylib' = dylib
                \/ o1 = o /\ dylib' = dylib
<1>1. A
  <2> USE ImageAssumption
      DEF UpdateInv, UpdateTypeOK, PendingByStep, TmpIsWhole, TornBackupPending, DylibWhole, Offer, UpdateGoto,
          files, Steps, SwapSteps, JudgeSteps, Whole
  <2>1. CASE LaunchApp(p) \/ CheckPending(p)
    BY <2>1 DEF LaunchApp, CheckPending
  <2>2. CASE DropStaleSentinel(p) \/ DropOldBackup(p) \/ DropUpdate(p) \/ UndoTmp(p) \/ UndoBackup(p)
    BY <2>2 DEF DropStaleSentinel, DropOldBackup, DropUpdate, UndoTmp, UndoBackup
  <2>3. CASE LinkBackup(p) \/ CopyBackup(p)
    BY <2>3 DEF LinkBackup, CopyBackup
  <2>4. CASE SwapIn(p)
    BY <2>4 DEF SwapIn
  <2>5. CASE CopyUpdate(p)
    BY <2>5 DEF CopyUpdate
  <2>6. CASE RenameTmp(p)
    BY <2>6 DEF RenameTmp
  <2>7. CASE CheckBackup(p)
    BY <2>7 DEF CheckBackup
  <2>8. CASE Rollback(p)
    BY <2>8 DEF Rollback
  <2>9. CASE AcceptUpdate(p) \/ AcceptSentinel(p) \/ BootstrapApp(p)
    BY <2>9 DEF AcceptUpdate, AcceptSentinel, BootstrapApp
  <2>10. CASE Stop(p)
    BY <2>10 DEF Stop
  <2>11. ASSUME NEW img \in Image, StageUpdate(p, img) PROVE A
    BY <2>11 DEF StageUpdate
  <2> QED
    BY <2>1, <2>2, <2>3, <2>4, <2>5, <2>6, <2>7, <2>8, <2>9, <2>10, <2>11 DEF SwapStep
<1> QED
  BY <1>1 DEF Live!Next, Live!Finish, Live!Publish, Live!GiveUp, Live!fileVars

(* The swap implements the replacement of a file others may open at any     *)
(* moment, whatever its crash points and fallbacks (desktop.rs:95-141).     *)
THEOREM ImplementsAtomicFile == ASSUME OneInstance PROVE UpdateSpec => SwapsAtomically
<1>1. UpdateInit => Live!Init
  BY ImageAssumption DEF UpdateInit, Live!Init, Offered, Offer
<1>2. UpdateInv /\ [UpdateNext]_updateVars => [Live!Next]_(Live!fileVars)
  BY StepIsAtomic
<1> QED
  BY <1>1, <1>2, UpdateInvariance, PTL DEF UpdateSpec, SwapsAtomically, Live!Spec

-----------------------------------------------------------------------------
(***************************************************************************)
(* Boot, run loop and dev sessions, for every set of sessions, of ways the  *)
(* subject asks for its windows and number of processes that are killed.    *)
(***************************************************************************)

(* ---- types ---------------------------------------------------------------- *)

(* Nothing runs and nobody has asked yet (desktop.rs:355, 634).             *)
LEMMA DevInitTyped == Init => TypeOK
<1> SUFFICES ASSUME Init PROVE TypeOK
  OBVIOUS
<1>1. BootTypeOK
  BY DEF Init, BootInit, LoopInit, BootTypeOK, LoopTypeOK, Modes, Window
<1>2. SessionTypeOK
  BY SessionAssumption DEF Init, SessionInit, SessionTypeOK, Over, None
<1> QED BY <1>1, <1>2 DEF TypeOK

(* A step of the module thread (lib.rs:758-860).                            *)
LEMMA LoopTyped ==
  ASSUME LoopTypeOK, Bootstrap \/ Fails \/ Loop
  PROVE  LoopTypeOK'
  BY DEF LoopTypeOK, Bootstrap, Fails, Loop, Evaluate, Turn, Poll, BeforeUnload, BeforeExit,
     Pass, Passed, Unloads, Ends, Gone, Goto, Handlers, Modes

(* A step of the app: its thread, its shell, its windows and the user       *)
(* (inka-runtime desktop.rs:355-430).                                       *)
LEMMA AppTyped ==
  ASSUME BootTypeOK, BootStep
  PROVE  BootTypeOK'
<1> USE DEF BootTypeOK
<1>1. CASE WorkerBootstrap \/ WorkerFails \/ WorkerLoops
  <2>1. LoopTypeOK'
    BY <1>1, LoopTyped DEF WorkerBootstrap, WorkerFails, WorkerLoops
  <2> QED BY <1>1, <2>1 DEF WorkerBootstrap, WorkerFails, WorkerLoops, shellVars, Window
<1>2. CASE Wait
  <2>1. serverUp' \in BOOLEAN
    BY <1>2 DEF Wait, WaitEnds, WaitTimesOut
  <2> QED BY <1>2, <2>1 DEF Wait, WaitEnds, WaitTimesOut, Shell, loopVars, LoopTypeOK
<1>5. CASE Shows
  <2>1. CASE ReadInitial \/ SkipWindow \/ ShellEnds \/ Reveal
    BY <2>1 DEF ReadInitial, SkipWindow, ShellEnds, Reveal, Shell, Show, Initial, loopVars, LoopTypeOK, Window
  <2>2. CASE UseBootstrap
    BY <2>2 DEF UseBootstrap, Shell, Show, loopVars, LoopTypeOK, Window
  <2>3. CASE OpenFallback
    BY <2>3 DEF OpenFallback, Shell, loopVars, LoopTypeOK, Window
  <2> QED BY <1>5, <2>1, <2>2, <2>3 DEF Shows
<1>3. ASSUME NEW w \in Window, OpenWindow \/ PageLoads(w) \/ AppHides(w) \/ AppShows(w)
      PROVE  BootTypeOK'
  BY <1>3 DEF OpenWindow, PageLoads, AppHides, AppShows, AppSets, Show, loopVars, LoopTypeOK, Window
<1>4. ASSUME NEW w \in Window, CloseWindow(w) \/ AppCloses(w) PROVE BootTypeOK'
  BY <1>4 DEF CloseWindow, AppCloses, Close, LoopTypeOK, Window
<1> QED
  BY <1>1, <1>2, <1>3, <1>4, <1>5 DEF BootStep, Window

(* A step of a session, or of what it has started (desktop.rs:634-986).     *)
LEMMA SessionTyped ==
  ASSUME SessionTypeOK, NEW s \in Session,
         Starts(s) \/ TakesDown(s) \/ External(s) \/ Launch(s) \/ BackendEnds(s)
  PROVE  SessionTypeOK'
<1> USE SessionAssumption DEF SessionTypeOK, Move, Over, None
<1>1. CASE Starts(s)
  <2>1. ASSUME NEW from, Fail(s, from) PROVE SessionTypeOK'
    BY <2>1 DEF Fail
  <2>2. CASE Detect(s) \/ ResolveRuntime(s)
    BY <2>2 DEF Detect, ResolveRuntime
  <2>4. CASE AwaitFails(s)
    BY <2>4 DEF AwaitFails, Kill
  <2>3. CASE \/ SweepStaleDevEntries(s) \/ FileEntry(s) \/ Build(s) \/ SpawnDevServer(s)
             \/ AwaitUrl(s) \/ WriteDevEntry(s) \/ SpawnMux(s) \/ LaunchFails(s)
    BY <2>3
    DEF SweepStaleDevEntries, FileEntry, Build, SpawnDevServer, AwaitUrl, WriteDevEntry, SpawnMux,
        LaunchFails
  <2> QED BY <1>1, <2>1, <2>2, <2>3, <2>4 DEF Starts, StartFails
<1>2. CASE TakesDown(s)
  BY <1>2 DEF TakesDown, Status, DropDevServer, RemoveEntry, DropMux, Kill
<1>3. CASE External(s)
  BY <1>3 DEF External, ServerPrints, ServerExits, Killed
<1>4. CASE Launch(s) \/ BackendEnds(s)
  BY <1>4 DEF Launch, BackendEnds
<1> QED
  BY <1>1, <1>2, <1>3, <1>4

(* Every step of the app and of the sessions is well typed (inka-runtime    *)
(* desktop.rs:355-430, inka desktop.rs:634-986).                            *)
LEMMA DevTyped == TypeOK /\ [Next]_allVars => TypeOK'
<1> SUFFICES ASSUME TypeOK, [Next]_allVars PROVE TypeOK'
  OBVIOUS
<1>1. CASE RunPlain
  <2>1. SessionTypeOK'
    BY <1>1 DEF RunPlain, sessionVars, TypeOK, SessionTypeOK
  <2>2. BootTypeOK'
    BY <1>1 DEF RunPlain, StartPlain, shellVars, TypeOK, BootTypeOK, LoopTypeOK, Modes
  <2> QED BY <2>1, <2>2 DEF TypeOK
<1>2. CASE LaunchSubject
  <2>1. SessionTypeOK'
    BY <1>2, SessionTyped, SubjectAssumption DEF LaunchSubject, TypeOK
  <2>2. BootTypeOK'
    BY <1>2 DEF LaunchSubject, StartDesktop, TypeOK, BootTypeOK, LoopTypeOK, Modes
  <2> QED BY <2>1, <2>2 DEF TypeOK
<1>3. CASE App
  <2>1. SessionTypeOK'
    BY <1>3 DEF App, sessionVars, TypeOK, SessionTypeOK
  <2> QED BY <1>3, <2>1, AppTyped DEF App, TypeOK
<1>4. ASSUME UNCHANGED vars PROVE BootTypeOK'
  BY <1>4 DEF vars, shellVars, loopVars, TypeOK, BootTypeOK, LoopTypeOK
<1>5. CASE SubjectEnds \/ Sessions
  <2>1. PICK s \in Session :
          Starts(s) \/ TakesDown(s) \/ External(s) \/ Launch(s) \/ BackendEnds(s)
    BY <1>5, SubjectAssumption DEF SubjectEnds, Sessions, OtherBackend
  <2> QED BY <1>4, <1>5, <2>1, SessionTyped DEF SubjectEnds, Sessions, TypeOK
<1>6. CASE UNCHANGED allVars
  BY <1>4, <1>6 DEF allVars, sessionVars, TypeOK, SessionTypeOK
<1> QED
  BY <1>1, <1>2, <1>3, <1>5, <1>6 DEF Next

(* Type correctness of the app, its windows and the sessions (inka-runtime  *)
(* desktop.rs:355-430, inka desktop.rs:634-986).                            *)
THEOREM DevTypeCorrect == Spec => []TypeOK
  BY DevInitTyped, DevTyped, PTL DEF Spec

(* ---- windows --------------------------------------------------------------- *)

(***************************************************************************)
(* Why there is one window: a server that serves is that of a worker that   *)
(* has made the bootstrap window, so a wait that has not run into its       *)
(* deadline finds that window, or the backend shuts down.                   *)
(***************************************************************************)
BootInv ==
  /\ mode = "none" => worker = "start"
  /\ shell # "none" => mode \in {"serve", "external"}
  /\ server => worker \notin {"start", "ready", "ended"}
  /\ mode = "serve" /\ worker \notin {"start", "ended"} /\ shell # "ended" =>
       window["bootstrap"] # "none"
  /\ shell \in {"read", "decide"} =>
       timedOut \/ shutdown \/ window["bootstrap"] # "none"
  /\ shell = "decide" => timedOut \/ shutdown \/ windowId # "none"
  /\ window["fallback"] # "none" => timedOut

(* The app keeps it (inka-runtime desktop.rs:355-430).                      *)
LEMMA AppKeepsWindows ==
  ASSUME BootTypeOK, BootInv, BootStep
  PROVE  BootInv'
<1> USE DEF BootTypeOK, LoopTypeOK, BootInv, Window
<1>1. CASE WorkerBootstrap
  BY <1>1 DEF WorkerBootstrap, Bootstrap, Goto
<1>2. CASE WorkerFails
  BY <1>2 DEF WorkerFails, Fails, Ends, Gone, shellVars
<1>3. CASE WorkerLoops
  <2>1. CASE Evaluate \/ Turn \/ Poll \/ BeforeUnload \/ BeforeExit \/ Pass \/ Passed
    <3>1. /\ worker \notin {"start", "ended"} /\ worker' \notin {"start", "ready", "ended"}
          /\ mode' = mode /\ shutdown' = shutdown
      BY <2>1 DEF Evaluate, Turn, Poll, BeforeUnload, BeforeExit, Pass, Passed, Goto
    <3> QED BY <1>3, <3>1 DEF WorkerLoops, shellVars
  <2>2. CASE Unloads
    BY <1>3, <2>2 DEF WorkerLoops, Unloads, Ends, Gone, shellVars
  <2> QED BY <1>3, <2>1, <2>2 DEF WorkerLoops, Loop
<1>4. CASE Wait
  BY <1>4 DEF Wait, WaitEnds, WaitTimesOut, Shell, Initial, loopVars
<1>5. CASE Shows
  BY <1>5
  DEF Shows, ReadInitial, UseBootstrap, OpenFallback, SkipWindow, Reveal, ShellEnds, Shell, Show,
      Initial, loopVars
<1>6. ASSUME NEW w \in Window, OpenWindow \/ PageLoads(w) \/ AppHides(w) \/ AppShows(w)
      PROVE  BootInv'
  BY <1>6 DEF OpenWindow, PageLoads, AppHides, AppShows, AppSets, Show, loopVars
<1>7. ASSUME NEW w \in Window, CloseWindow(w) \/ AppCloses(w) PROVE BootInv'
  BY <1>7 DEF CloseWindow, AppCloses, Close
<1> QED
  BY <1>1, <1>2, <1>3, <1>4, <1>5, <1>6, <1>7 DEF BootStep

(* ---- the entry -------------------------------------------------------------- *)

(***************************************************************************)
(* Why the entry stays: a session removes it itself only after its backend  *)
(* has ended, which ends after its shell, and another session only by the   *)
(* sweep at its start.                                                      *)
(***************************************************************************)
EntryInv ==
  /\ at[Subject] \in {"runtime", "mux", "launch"}
       \/ (backend[Subject] # "none" /\ shell # "ended") =>
     ~ask[Subject].dir \/ Subject \in entries \/ Subject \in swept
  /\ backend[Subject] # "none" =>
       at[Subject] \in {"run", "drop", "unlink", "release", "exited", "killed"}
  /\ backend[Subject] = "ended" => shell = "ended"
  /\ at[Subject] \in {"drop", "unlink", "release"} => backend[Subject] # "running"

(* Sessions and their backends keep it (desktop.rs:634-986).                *)
LEMMA SessionsKeepEntry ==
  ASSUME SessionTypeOK, EntryInv, NEW s \in Session, shell' = shell,
         Starts(s) \/ TakesDown(s) \/ External(s) \/ OtherBackend(s)
  PROVE  EntryInv'
<1> USE SubjectAssumption DEF SessionTypeOK, EntryInv, Move, Over
<1>1. CASE Starts(s)
  <2>1. ASSUME NEW from \in {"idle", "detect", "build", "command", "write", "runtime", "mux"},
               Fail(s, from)
        PROVE  EntryInv'
    BY <2>1 DEF Fail
  <2>2. CASE SweepStaleDevEntries(s) \/ FileEntry(s) \/ Detect(s) \/ WriteDevEntry(s)
    BY <2>2 DEF SweepStaleDevEntries, FileEntry, Detect, WriteDevEntry
  <2>3. CASE \/ Build(s) \/ SpawnDevServer(s) \/ AwaitUrl(s) \/ AwaitFails(s)
             \/ ResolveRuntime(s) \/ SpawnMux(s) \/ LaunchFails(s)
    BY <2>3 DEF Build, SpawnDevServer, AwaitUrl, AwaitFails, ResolveRuntime, SpawnMux, LaunchFails
  <2> QED BY <1>1, <2>1, <2>2, <2>3 DEF Starts, StartFails
<1>2. CASE TakesDown(s)
  BY <1>2 DEF TakesDown, Status, DropDevServer, RemoveEntry, DropMux
<1>3. CASE External(s)
  BY <1>3 DEF External, ServerPrints, ServerExits, Killed
<1>4. CASE OtherBackend(s)
  BY <1>4 DEF OtherBackend, Launch, BackendEnds
<1> QED
  BY <1>1, <1>2, <1>3, <1>4

(* ---- the invariant ---------------------------------------------------------- *)

DevInv == TypeOK /\ BootInv /\ EntryInv

(* Nothing has been started (inka-runtime desktop.rs:355, inka              *)
(* desktop.rs:634).                                                         *)
LEMMA DevInit == Init => DevInv
  BY DevInitTyped, SubjectAssumption
  DEF Init, BootInit, LoopInit, SessionInit, DevInv, BootInv, EntryInv, Window

(* Every step keeps it, and lets no shell come back (inka-runtime           *)
(* desktop.rs:355-430, inka desktop.rs:634-986).                            *)
LEMMA DevNext == DevInv /\ [Next]_allVars => DevInv'
<1> SUFFICES ASSUME DevInv, [Next]_allVars PROVE BootInv' /\ EntryInv'
  BY DevTyped DEF DevInv
<1> USE SubjectAssumption DEF DevInv
<1>1. CASE RunPlain
  <2>1. BootInv'
    BY <1>1 DEF RunPlain, StartPlain, shellVars, BootInv
  <2>2. EntryInv'
    BY <1>1 DEF RunPlain, StartPlain, shellVars, sessionVars, EntryInv
  <2> QED BY <2>1, <2>2
<1>2. CASE LaunchSubject
  <2>1. BootInv'
    BY <1>2 DEF LaunchSubject, StartDesktop, BootInv
  <2>2. EntryInv'
    BY <1>2 DEF LaunchSubject, StartDesktop, Launch, Move, EntryInv, TypeOK, SessionTypeOK
  <2> QED BY <2>1, <2>2
<1>3. CASE App
  <2>1. BootInv'
    BY <1>3, AppKeepsWindows DEF App, TypeOK
  <2>2. shell = "ended" => shell' = "ended"
    BY <1>3
    DEF App, BootStep, WorkerBootstrap, WorkerFails, WorkerLoops, Wait, Shows, WaitEnds, WaitTimesOut,
        ReadInitial, UseBootstrap, OpenFallback, SkipWindow, Reveal, ShellEnds, Shell, OpenWindow,
        PageLoads, CloseWindow, AppCloses, AppHides, AppShows, AppSets, Close, shellVars
  <2>3. EntryInv'
    BY <1>3, <2>2 DEF App, sessionVars, EntryInv
  <2> QED BY <2>1, <2>3
<1>4. ASSUME UNCHANGED vars PROVE BootInv' /\ shell' = shell
  BY <1>4 DEF vars, shellVars, loopVars, BootInv
<1>5. CASE SubjectEnds
  <2>1. EntryInv'
    BY <1>4, <1>5 DEF SubjectEnds, BackendEnds, EntryInv, TypeOK, SessionTypeOK
  <2> QED BY <1>4, <1>5, <2>1 DEF SubjectEnds
<1>6. CASE Sessions
  BY <1>4, <1>6, SessionsKeepEntry DEF Sessions, TypeOK
<1>7. CASE UNCHANGED allVars
  BY <1>4, <1>7 DEF allVars, sessionVars, EntryInv
<1> QED
  BY <1>1, <1>2, <1>3, <1>5, <1>6, <1>7 DEF Next

(* The invariant holds of every app and its sessions (inka-runtime          *)
(* desktop.rs:355-430, inka desktop.rs:634-986).                            *)
THEOREM DevInvariance == Spec => []DevInv
  BY DevInit, DevNext, PTL DEF Spec

(* OneWindow: the user is given one window unless the wait has run into its *)
(* deadline (inka-runtime desktop.rs:372-378, 394-414), whatever the app    *)
(* and the user do.                                                         *)
THEOREM WindowOnce == Spec => []OneWindow
<1>1. DevInv => OneWindow
  BY DEF DevInv, BootInv, OneWindow
<1> QED BY <1>1, DevInvariance, PTL

(* EntryStays: the entry stays until the worker has loaded it, unless       *)
(* another session has swept it (inka desktop.rs:634-652, 981-985), for any *)
(* set of sessions and any number that are killed.                          *)
THEOREM EntryKept == Spec => []EntryStays
<1>1. DevInv => EntryStays
  BY DEF DevInv, EntryInv, EntryStays, EntryThere
<1> QED BY <1>1, DevInvariance, PTL

(* NothingCut: no app with work or a server is torn down unless it is shut  *)
(* down or its handler has thrown (lib.rs:770-775, 795-822, 831-860).       *)
THEOREM CutsNothing == Spec => NothingCut
<1>1. [Next]_allVars =>
        [worker # "unload" /\ worker' = "unload" => Idle' \/ shutdown \/ threw']_loopVars
  <2> SUFFICES ASSUME Next, worker # "unload", worker' = "unload"
               PROVE  Idle' \/ shutdown \/ threw'
    BY DEF allVars, vars
  <2>1. CASE App
    <3>1. CASE WorkerLoops
      BY <3>1
      DEF WorkerLoops, Loop, Evaluate, Turn, Poll, BeforeUnload, BeforeExit, Pass, Passed, Unloads,
          Ends, Gone, Goto, Idle, Handlers
    <3>2. CASE WorkerBootstrap \/ WorkerFails
      BY <3>2 DEF WorkerBootstrap, Bootstrap, Goto, WorkerFails, Fails, Ends, Gone
    <3>3. CASE worker' = worker
      BY <3>3
    <3> QED
      BY <2>1, <3>1, <3>2, <3>3
      DEF App, BootStep, Wait, Shows, WaitEnds, WaitTimesOut, ReadInitial, UseBootstrap,
          OpenFallback, SkipWindow, Reveal, ShellEnds, OpenWindow, PageLoads, CloseWindow,
          AppCloses, AppHides, AppShows, AppSets, Close, loopVars
  <2>2. CASE worker' = worker
    BY <2>2
  <2> QED
    BY <2>1, <2>2
    DEF Next, RunPlain, StartPlain, LaunchSubject, StartDesktop, SubjectEnds, Sessions, vars, loopVars
<1> QED BY <1>1, PTL DEF Spec, NothingCut
=============================================================================
