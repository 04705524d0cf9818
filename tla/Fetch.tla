--------------------------------- MODULE Fetch ---------------------------------
(***************************************************************************)
(* One file of a release, from the request for its checksum to the rename:  *)
(* a mirror on disk is read, a server is asked with curl and, if that       *)
(* fails, with wget; the release may be published anew in between.          *)
(***************************************************************************)
EXTENDS Integers

CONSTANT MaxReleased  \* bound: how often the release is published

ASSUME FetchAssumption == MaxReleased \in Nat \ {0}

VARIABLES
  fetchAt,
  order,     \* the command: which file, from where, how it is to be verified
  released,  \* the build the server has; its checksum is the same number
  sidecar,   \* the server has a checksum for it
  expected,  \* the checksum to be met, NoSum if there is none
  file,      \* the temporary file
  installed, \* what has been put in place
  answered   \* history: the server has answered that there is no checksum

fetchVars == <<fetchAt, order, released, sidecar, expected, file, installed, answered>>

NoSum == 0
None == 0
Part == -1
Build == 1..MaxReleased
Order == [toolchain : BOOLEAN, pinned : {NoSum, 1}, insecure : BOOLEAN, local : BOOLEAN]

FetchInit ==
  /\ fetchAt = "sidecar" /\ order \in Order
  /\ released = 1 /\ sidecar \in BOOLEAN
  /\ expected = NoSum /\ file = None /\ installed = None /\ answered = FALSE

FetchGoto(from, to) == fetchAt = from /\ fetchAt' = to

(* A checksum given on the command line, or one that versions.json holds.   *)
Pinned ==
  /\ order.pinned # NoSum
  /\ FetchGoto("sidecar", "download")
  /\ expected' = order.pinned
  /\ UNCHANGED <<order, released, sidecar, file, installed, answered>>

(* What fetch_optional makes of an answer; only the toolchain's update goes *)
(* on without a checksum and without --insecure, up to the verification.    *)
Absent(from) ==
  /\ FetchGoto(from, IF order.insecure \/ order.toolchain THEN "download" ELSE "failed")
  /\ answered' = TRUE
  /\ UNCHANGED <<order, released, sidecar, expected, file, installed>>
Present(from) ==
  /\ sidecar
  /\ FetchGoto(from, "download")
  /\ expected' = released
  /\ UNCHANGED <<order, released, sidecar, file, installed, answered>>
Lost(from, to) ==
  /\ FetchGoto(from, to)
  /\ UNCHANGED <<order, released, sidecar, expected, file, installed, answered>>

ReadSidecar ==
  /\ order.pinned = NoSum /\ order.local
  /\ IF sidecar THEN Present("sidecar") \/ Lost("sidecar", "failed") ELSE Absent("sidecar")

(* Mutant: a server that cannot be reached has no checksum. *)
WgetSidecarLenient ==
  Present("wget sidecar") \/ Absent("wget sidecar") \/ Lost("wget sidecar", "download")

(* Any HTTP error, 503 like 404, means that there is no checksum; whatever  *)
(* else ails curl, wget is tried.                                           *)
CurlSidecar ==
  /\ order.pinned = NoSum /\ ~order.local
  /\ Present("sidecar") \/ Absent("sidecar") \/ Lost("sidecar", "wget sidecar")
WgetSidecar == Present("wget sidecar") \/ Absent("wget sidecar") \/ Lost("wget sidecar", "failed")

(* The file: all of what is released, or as much as has come.               *)
Gets(from, what, to) ==
  /\ FetchGoto(from, to)
  /\ file' = what
  /\ UNCHANGED <<order, released, sidecar, expected, installed, answered>>

Copy == order.local /\ (Gets("download", released, "verify") \/ Gets("download", None, "failed"))

CurlDownload ==
  /\ ~order.local
  /\ \/ Gets("download", released, "verify")
     \/ \E w \in {None, Part} : Gets("download", w, "wget")
WgetDownload == Gets("wget", released, "verify") \/ Gets("wget", None, "failed")

(* A checksum that is there has to be met, also with --insecure.            *)
VerifyFile ==
  /\ fetchAt = "verify"
  /\ LET met == IF expected = NoSum THEN order.insecure ELSE file = expected
     IN /\ fetchAt' = IF met THEN "install" ELSE "failed"
        /\ file' = IF met THEN file ELSE None
  /\ UNCHANGED <<order, released, sidecar, expected, installed, answered>>

InstallFile ==
  /\ FetchGoto("install", "done")
  /\ installed' = file /\ file' = None
  /\ UNCHANGED <<order, released, sidecar, expected, answered>>

(* The release is built again under the same name, with or without sidecar. *)
Republish ==
  /\ released < MaxReleased /\ released' = released + 1
  /\ sidecar' \in BOOLEAN
  /\ UNCHANGED <<fetchAt, order, expected, file, installed, answered>>

FetchNext ==
  \/ Pinned \/ ReadSidecar \/ CurlSidecar \/ WgetSidecar
  \/ Copy \/ CurlDownload \/ WgetDownload
  \/ VerifyFile \/ InstallFile \/ Republish

(* ---- properties ---------------------------------------------------------------- *)

(* What is put in place is one whole build, although two tools, two requests *)
(* and a release that changes are involved; it is the one the checksum is   *)
(* of, and it goes unverified only if that was asked for and the server has *)
(* said that there is no checksum, never because it could not be reached    *)
(* (inka main.rs:207-258, 314-347, update.rs:696-749).                      *)
InstalledVerified ==
  installed # None =>
    /\ installed \in Build
    /\ IF expected = NoSum THEN order.insecure /\ answered ELSE installed = expected
================================================================================
