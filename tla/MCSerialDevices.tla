-------------------------- MODULE MCSerialDevices --------------------------
(***************************************************************************)
(* SerialDevices for TLC: a plain port, a TNC with and without flow        *)
(* control, and an RNode: with flow control on an ESP32, without either,   *)
(* and with a configuration the driver refuses.                            *)
(***************************************************************************)
EXTENDS SerialDevices

Device(kind, flowControl, esp32) ==
  [kind |-> kind, flow |-> flowControl, esp32 |-> esp32, valid |-> TRUE]

Devices ==
  {Device("serial", FALSE, FALSE), Device("kiss", FALSE, FALSE), Device("kiss", TRUE, FALSE),
   Device("rnode", TRUE, TRUE), Device("rnode", FALSE, FALSE),
   [Device("rnode", TRUE, TRUE) EXCEPT !.valid = FALSE]}
=============================================================================
