--------------------------- MODULE MCCliInstaller ---------------------------
(* A small instance of CliInstaller: three versions, of which the third has *)
(* a launcher of its own.                                                  *)
EXTENDS CliInstaller

CONSTANTS v1, v2, v3, textA, textB

MCLauncherOf == [v \in Versions |-> IF v = v3 THEN textB ELSE textA]
=============================================================================
