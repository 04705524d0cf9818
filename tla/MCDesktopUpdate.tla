------------------------- MODULE MCDesktopUpdate -------------------------
(* One instance of the app, a healthy first build, and updates of every     *)
(* kind: healthy, dying before the bootstrap, not loadable at all.          *)
EXTENDS DesktopUpdate

CONSTANTS v0, v1, v2, v3
MCImage == {v0, v1, v2, v3}
MCDies == {v1}
MCUnloadable == {v2}
=============================================================================
