----------------------------- MODULE MCController -----------------------------
\* Contents of the ConfigMaps: as installed, edited, and broken.
EXTENDS Controller

Contents == [n \in Watched |->
  IF n = "keda"
  THEN {None} \cup {[address |-> a, autocreate |-> b] :
                      a \in {"unset", "bad"}, b \in {"unset", "false"}}
  ELSE [content: {"bad", "c1"}]]
===============================================================================
