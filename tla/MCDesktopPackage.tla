-------------------------- MODULE MCDesktopPackage --------------------------
(* Two app directories; the commands are interchangeable.  Each option on   *)
(* its own, and the two that meet: an installer of a self-extracting app.   *)
EXTENDS DesktopPackage, TLC

Apps == Permutations(App)
Opts == {PlainOption, [PlainOption EXCEPT !.so = "lib"], [PlainOption EXCEPT !.installer = TRUE],
         [PlainOption EXCEPT !.compress = TRUE], [PlainOption EXCEPT !.compress = TRUE, !.installer = TRUE]}
=============================================================================
