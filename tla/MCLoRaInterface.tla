--------------------------- MODULE MCLoRaInterface ---------------------------
(* An instance of LoRaInterface: the first packet of each side is split, the *)
(* second is short, and no two have one nibble; every chipset, with and      *)
(* without flow control and GPIO lines.  Only the SX1262 driver claims that  *)
(* a packet was sent, and it has a second one to send after a failed one.    *)
EXTENDS LoRaInterface

Board(c, flow, gpio, own, faults) ==
  [chipset |-> c, flow_control |-> flow, lines |-> gpio, own |-> own, faults |-> faults]

MCBoards ==
  {Board("sx1262", FALSE, TRUE, 2, 2), Board("sx1262", TRUE, FALSE, 2, 1),
   Board("sx1276", TRUE, TRUE, 1, 2), Board("lr1121", FALSE, FALSE, 1, 2)}

MCSplit == {<<"own", 1>>, <<"peer", 1>>}

MCNibble == [p \in Packets |-> IF p[1] = "own" THEN p[2] ELSE 8 + p[2]]

=============================================================================
