----------------------------- MODULE AtomicFile -----------------------------
(***************************************************************************)
(* What a program promises that replaces a file others may open at any      *)
(* moment: a content is finished aside, and the file changes only by        *)
(* becoming it.  Giving up, or dying, leaves the file as it was.            *)
(***************************************************************************)
CONSTANTS
  Content, \* finished contents, and what the file may hold at first
  None     \* nothing is ready

VARIABLES
  file,    \* what an observer finds
  ready    \* the finished content that waits aside

fileVars == <<file, ready>>

Init == file \in Content \cup {None} /\ ready = None

Finish == ready = None /\ ready' \in Content /\ UNCHANGED file
Publish == ready # None /\ file' = ready /\ ready' = None
GiveUp == ready # None /\ ready' = None /\ UNCHANGED file

Next == Finish \/ Publish \/ GiveUp
Spec == Init /\ [][Next]_fileVars
=============================================================================
