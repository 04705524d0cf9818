----------------------------- MODULE MCDesktopDev -----------------------------
(* Bounds: the other session is asked for in one way, and the app has a     *)
(* window of its own, or hides one, and a session is killed, only while no  *)
(* other session is about.                                                  *)
EXTENDS DesktopDev

Asked(d, h, i, w) == [dir |-> d, hmr |-> h, inspect |-> i, wrapped |-> w]
MCAsk == {Asked(TRUE, TRUE, FALSE, FALSE), Asked(TRUE, TRUE, FALSE, TRUE),
          Asked(TRUE, FALSE, TRUE, FALSE), Asked(FALSE, TRUE, TRUE, FALSE)}

Others == {s \in Session \ {Subject} : at[s] # "idle"}
Bound ==
  Others' # {} =>
    /\ Others = {} \/ kills' = kills
    /\ window'["own"] = "none" /\ \A w \in Window : window'[w] # "away"

MCInit == Init /\ \A s \in Session \ {Subject} : ask[s] = Asked(TRUE, FALSE, TRUE, FALSE)
MCSpec == MCInit /\ [][Next /\ Bound]_allVars /\ Fairness
================================================================================
