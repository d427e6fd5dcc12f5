---------------------------- MODULE MCHomepageSync ----------------------------
(* Small instances of HomepageSync with BootstrapApply for TLC: Caddy has   *)
(* a volume of its own, the game server the world.                          *)
EXTENDS HomepageSync, TLC

CONSTANTS minecraft, caddy, world, edge

MCMounts == (minecraft :> {world}) @@ (caddy :> {edge})
=============================================================================
