------------------------------ MODULE LoRaChip ------------------------------
(***************************************************************************)
(* What the three LoRa chipset drivers of src/src/iface/lora share: the    *)
(* chip as the driver sees it over SPI, and the outcome of a driver call.  *)
(*                                                                         *)
(* A driver method is a chain of SPI commands, each followed by `?`.  Here *)
(* a method maps a chip to the set of its possible outcomes: success with  *)
(* the chip it leaves, or an error with the chip as it was when the chain  *)
(* broke off.  Register values, voltages and powers are left out; which    *)
(* settings have been written since the chip last lost them is kept.       *)
(***************************************************************************)
EXTENDS Sequences

CONSTANT NoFrame   \* nothing in a buffer

\* The interrupts a driver acts on.
Irqs == {"tx_done", "rx_done", "crc_err", "header_err"}

\* A chip after power-up.
PowerUp ==
  [mode      |-> "standby",   \* sleep, standby, rx, tx
   irq       |-> {},          \* the interrupt register
   rx        |-> NoFrame,     \* what a read of the received packet returns
   tx        |-> NoFrame,     \* what SetTx puts on air
   cfg       |-> {},          \* settings written since the last cold start
   tx_active |-> FALSE,       \* the driver's flag of that name
   sent      |-> <<>>]        \* frames that went on air as a whole

\* An outcome; got are the packets process_irq returns.
Ok(c) == [ok |-> TRUE, chip |-> c, got |-> <<>>]

Err(c) == [ok |-> FALSE, chip |-> c, got |-> <<>>]

\* `outcomes?; F`: go on with F from every success.
Then(outcomes, F(_)) ==
  UNION {IF r.ok THEN F(r.chip) ELSE {r} : r \in outcomes}

\* The packets a method returns, if it succeeds.
Returning(frames, outcomes) ==
  {IF r.ok THEN [Ok(r.chip) EXCEPT !.got = frames] ELSE r : r \in outcomes}

\* LoRaSpi::xfer: the transfer has its effect, or fails before it has any.
xfer(c, after) == {Ok(after), Err(c)}

SetMode(c, m) == [c EXCEPT !.mode = m]

TxActive(c) == [c EXCEPT !.tx_active = TRUE]

TxIdle(c) == [c EXCEPT !.tx_active = FALSE]

Configure(c, settings) == [c EXCEPT !.cfg = @ \cup settings]

ClearIrq(c, mask) == [c EXCEPT !.irq = @ \ mask]

\* The FIFO that the SX1262 and the SX1276 have for both directions.
WriteFifo(c, f) == [c EXCEPT !.tx = f, !.rx = f]

\* A reset or a sleep without retention: every setting is lost.
ColdStart(c) == [c EXCEPT !.mode = "standby", !.irq = {}, !.cfg = {}]

\* The reset line, where GpioPins has one, is toggled; a pin can fail.
ResetLine(c) == {Ok(c), Ok(ColdStart(c)), Err(c)}

-----------------------------------------------------------------------------
(* The radio itself. *)

\* The frame on air ends: the chip raises TX_DONE and falls back to standby.
TxDone(c) ==
  [c EXCEPT !.mode = "standby", !.irq = @ \cup {"tx_done"}, !.sent = Append(@, c.tx)]

\* Between two commands a frame on air may end.
Meanwhile(c) == {Ok(d) : d \in IF c.mode = "tx" THEN {c, TxDone(c)} ELSE {c}}

\* A frame is heard in continuous receive mode, which the chip stays in.
RxDone(c, f) == [c EXCEPT !.rx = f, !.irq = @ \cup {"rx_done"}]

\* A frame whose payload, or whose header, does not check.
RxBroken(c, f, how) ==
  IF how = "crc_err" THEN [c EXCEPT !.rx = f, !.irq = @ \cup {"rx_done", "crc_err"}]
                     ELSE [c EXCEPT !.irq = @ \cup {"header_err"}]

=============================================================================
