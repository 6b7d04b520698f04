------------------------------- MODULE SX1262 -------------------------------
(***************************************************************************)
(* The SX1262 driver (src/src/iface/lora/sx1262.rs).  Transmit and receive *)
(* share one FIFO, both from offset 0, and transmit waits for TX_DONE with *)
(* the driver locked, so that it is one step of the interface.             *)
(***************************************************************************)
EXTENDS Integers, LoRaChip

\* BUSY released in time, or not.
wait_ready(c) == {Ok(c), Err(c)}

\* Wait, issue the command, which leaves the chip as given, wait for it to digest it.
write_command(c, after) ==
  Then(wait_ready(c), LAMBDA d : Then(xfer(d, after), wait_ready))

read_command(c) == wait_ready(c)

\* The settings init writes, in its order.
Settings ==
  <<"packet_type", "regulator", "dio2", "tcxo", "calibration", "image",
    "frequency", "modulation", "tx_params", "buffer_base", "sync_word",
    "dio_irq", "packet_params">>

Set(c, setting) == write_command(c, Configure(c, {setting}))

\* The settings from one to another, in order; the chain breaks off after any
\* of them.
SetAll(c, first, last) ==
  {Ok(Configure(c, {Settings[i] : i \in first..last}))}
  \cup {Err(Configure(c, {Settings[i] : i \in first..n})) : n \in (first - 1)..last}

\* Toggles NRST where it is wired.
hardware_reset(c) == ResetLine(c)

\* SetSleep without retention, then a wake-up by NSS.
software_cold_start(c) == Then(write_command(c, ColdStart(c)), read_command)

ping(c) == read_command(c)

\* The errata workarounds: registers read, changed and written back.
fix_errata(c) == read_command(c)

\* The sync word reads back.
validate_communication(c) == read_command(c)

\* Up to four attempts; a chip that never gets there is an error.
enter_standby_xosc(c) == write_command(c, SetMode(c, "standby"))

clear_irq_status(c, mask) == write_command(c, ClearIrq(c, mask))

\* The packet's length and place, its bytes, its signal strength.
read_buffer(c) == read_command(c)

\* The payload overwrites whatever the FIFO held, a received packet too.
write_buffer(c, f) == write_command(c, WriteFifo(c, f))

\* The cold start comes last.
initColdLast(c) ==
  Then(Then(Then(hardware_reset(TxIdle(c)),
                 LAMBDA d : SetAll(d, 1, Len(Settings))), software_cold_start),
       validate_communication)

\* The whole of init; new starts with no transmission under way.
init(c) ==
  LET new   == TxIdle(c)
      awake == Then(Then(hardware_reset(new), software_cold_start), ping)
  IN  Then(Then(Then(Then(awake, LAMBDA d : SetAll(d, 1, 6)), enter_standby_xosc),
                LAMBDA d : SetAll(d, 7, Len(Settings))),
           validate_communication)

start_receive(c) ==
  Then(Then(Set(c, "packet_params"), fix_errata),
       LAMBDA d : Then(write_command(d, SetMode(d, "rx")),
                       LAMBDA e : {Ok(TxIdle(e))}))

\* TX_DONE was seen: reception again.
Confirmed(c) ==
  Then(clear_irq_status(c, {"tx_done"}),
       LAMBDA d : Then(Meanwhile(d), LAMBDA e : start_receive(TxIdle(e))))

\* It was not within 500 ms: back to standby.
GivenUp(c) ==
  Then(clear_irq_status(c, Irqs),
       LAMBDA d : Then(write_command(d, SetMode(d, "standby")),
                       LAMBDA e : {Err(TxIdle(e))}))

\* While it polls, the frame is still on air, has ended, or the chip refused it.
Polling(c) == {c, TxDone(c), SetMode(c, "standby")}

\* Without a look at the register.
AwaitTxDoneUnchecked(c) ==
  UNION {Then(read_command(d), Confirmed) : d \in Polling(c)}

\* Any TX_DONE in the register ends the wait: nothing clears it before SetTx.
AwaitTxDone(c) ==
  UNION {Then(read_command(d),
              LAMBDA e : IF "tx_done" \in e.irq THEN Confirmed(e) ELSE GivenUp(e))
         : d \in Polling(c)}

\* A frame that an earlier call left on air may end before standby cuts it off.
transmit(c, f) ==
  Then(Then(Meanwhile(TxActive(c)), enter_standby_xosc),
       LAMBDA d : Then(write_buffer(d, f),
         LAMBDA e : Then(Then(Set(e, "packet_params"), fix_errata),
           LAMBDA g : Then(write_command(g, SetMode(g, "tx")), AwaitTxDone))))

\* With DIO1 wired a low pin ends the call early, as an empty register does.
process_irq(c) ==
  IF c.irq = {} THEN read_command(c)
  ELSE IF {"tx_done", "rx_done"} \subseteq c.irq
    THEN Then(read_command(c), LAMBDA d : Then(clear_irq_status(d, Irqs), start_receive))
    ELSE Returning(IF "rx_done" \in c.irq /\ "crc_err" \notin c.irq THEN <<c.rx>> ELSE <<>>,
           Then(IF "rx_done" \in c.irq THEN Then(read_command(c), read_buffer) ELSE read_command(c),
                LAMBDA d : Then(clear_irq_status(d, c.irq), start_receive)))

\* Drop: standby, an error ignored.
drop(c) == {SetMode(c, "standby"), c}

=============================================================================
