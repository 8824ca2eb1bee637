------------------------------ MODULE MCDesktop ------------------------------
(* TLC instance of Uninstall: one tray after another, services it spawns   *)
(* or adopts, and a command against them.                                  *)
EXTENDS Uninstall

MCFlags == {<<FALSE, TRUE>>, <<TRUE, FALSE>>}
=============================================================================
