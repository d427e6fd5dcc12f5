--------------------------- MODULE MCBootstrapApply ---------------------------
(* Small instances of BootstrapApply for TLC: Caddy has a volume of its     *)
(* own, the game server the world.                                          *)
EXTENDS BootstrapApply, TLC

CONSTANTS minecraft, caddy, world, edge

MCMounts == (minecraft :> {world}) @@ (caddy :> {edge})
=============================================================================
