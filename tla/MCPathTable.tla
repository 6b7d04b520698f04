---------------------------- MODULE MCPathTable ----------------------------
(* PathTable for TLC: two interfaces of different gravity or bitrate.      *)
EXTENDS PathTable, TLC

CONSTANTS i1, i2

MCInterfaces == {i1, i2}
MCGravity == i1 :> 1 @@ i2 :> 1
MCBitrate == i1 :> -1 @@ i2 :> 5
=============================================================================
