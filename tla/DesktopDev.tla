------------------------------ MODULE DesktopDev ------------------------------
(***************************************************************************)
(* A dev session and the app its backend runs: how the session serves the   *)
(* pages decides the mode of the worker, the generated entry has to be      *)
(* there when the worker loads it, and the end of the shell is that of the  *)
(* backend.  The backends of the other sessions end at any time.            *)
(***************************************************************************)
EXTENDS DesktopBoot, DevSession

CONSTANT Subject
ASSUME SubjectAssumption == Subject \in Session

allVars == <<vars, sessionVars>>

Init == BootInit /\ SessionInit

(* An app that is not run by a session: `inka run`, an artifact.            *)
RunPlain ==
  /\ \A s \in Session : at[s] = "idle"
  /\ StartPlain /\ UNCHANGED sessionVars

(* INKA_DESKTOP_DEV_URL is set when a dev server was waited for.            *)
LaunchSubject ==
  /\ Launch(Subject)
  /\ StartDesktop(IF devServer[Subject] = "none" THEN "serve" ELSE "external")

(* "entry module not found": neither can the worker be made, nor can it go  *)
(* past its main module.                                                    *)
EntryThere == mode = "plain" \/ ~ask[Subject].dir \/ Subject \in entries

App ==
  /\ BootStep /\ UNCHANGED sessionVars
  /\ worker' \in {"ready", "loop", "running"} /\ worker \in {"start", "ready"} => EntryThere

SubjectEnds == shell = "ended" /\ BackendEnds(Subject) /\ UNCHANGED vars

OtherBackend(s) == s # Subject /\ (Launch(s) \/ BackendEnds(s))
Sessions ==
  /\ mode # "plain"
  /\ \E s \in Session : Starts(s) \/ TakesDown(s) \/ External(s) \/ OtherBackend(s)
  /\ UNCHANGED vars

Next == RunPlain \/ LaunchSubject \/ App \/ SubjectEnds \/ Sessions

(* Beside BootFairness: a process ends with its main thread, and a session  *)
(* is scheduled.  Nothing is assumed of dev servers, nor of other backends. *)
Fairness ==
  /\ BootFairness
  /\ WF_allVars(SubjectEnds)
  /\ \A s \in Session : WF_allVars(TakesDown(s) /\ UNCHANGED vars)
Spec == Init /\ [][Next]_allVars /\ Fairness

TypeOK == BootTypeOK /\ SessionTypeOK

(* The generated entry stays until the worker has loaded it: a worker that  *)
(* does not find it has lost it to another session's start, which removes   *)
(* every entry with the prefix (desktop.rs:634-652, 981-985).               *)
EntryStays ==
  backend[Subject] # "none" /\ worker \in {"start", "ready"} /\ shell # "ended" =>
    EntryThere \/ Subject \in swept

(* Closing the last window ends the process, and more than the app: the     *)
(* generated entry, the DevTools port and a dev server that is the dev      *)
(* command itself go with it (desktop.rs:627-632, 981-986, inka-runtime     *)
(* desktop.rs:422-424).                                                     *)
ClosingCleans ==
  /\ ClosingEnds
  /\ shell = "ended" ~> Clean(Subject) \/ at[Subject] = "killed"
================================================================================
