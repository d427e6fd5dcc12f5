--------------------------- MODULE MCInterfaceApply ---------------------------
(* Small instances of InterfaceApply for TLC: home-alpha-full@1 with two    *)
(* choices of targets, its revision 2 with Caddy in front, and classroom@1. *)
EXTENDS InterfaceApply, TLC

CONSTANTS home1, home1b, home2, class1

MCFamily == (home1 :> "home") @@ (home1b :> "home") @@ (home2 :> "home") @@ (class1 :> "class")
MCRevision == (home1 :> 1) @@ (home1b :> 1) @@ (home2 :> 2) @@ (class1 :> 1)
MCServices ==
  LET plain == {"scratch", "bridge", "minecraft"}
  IN  [o \in Order |-> IF o = home2 THEN plain \cup {"caddy"} ELSE plain]
=============================================================================
