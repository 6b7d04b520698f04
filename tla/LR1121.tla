------------------------------- MODULE LR1121 -------------------------------
(***************************************************************************)
(* The LR1121 driver (src/src/iface/lora/lr1121.rs).  It has a receive     *)
(* buffer of its own, transmit returns once SetTx is issued, and init only *)
(* wakes the chip: without a reset line its settings survive.              *)
(***************************************************************************)
EXTENDS Integers, LoRaChip

wait_ready(c) == {Ok(c), Err(c)}

write_command(c, after) ==
  Then(wait_ready(c), LAMBDA d : Then(xfer(d, after), wait_ready))

read_command(c) == wait_ready(c)

Settings ==
  <<"packet_type", "image", "regulator", "tcxo", "lf_clock", "calibration",
    "pa", "rf_switch", "frequency", "modulation", "tx_params", "sync_word", "dio_irq">>

\* The settings from one to another, in order; the chain breaks off after any
\* of them.
SetAll(c, first, last) ==
  {Ok(Configure(c, {Settings[i] : i \in first..last}))}
  \cup {Err(Configure(c, {Settings[i] : i \in first..n})) : n \in (first - 1)..last}

hardware_reset(c) == ResetLine(c)

\* SetStandby, then polls the mode for up to three seconds.
wake_to_standby_rc(c) == write_command(c, SetMode(c, "standby"))

ping(c) == read_command(c)

enter_standby_xosc(c) == write_command(c, SetMode(c, "standby"))

\* Before every transmit and receive: a bit of a register is cleared.
apply_high_acp_workaround(c) == read_command(c)

clear_irq_status(c, mask) == write_command(c, ClearIrq(c, mask))

init(c) ==
  LET new == TxIdle(c) IN
  Then(Then(Then(Then(hardware_reset(new), wake_to_standby_rc), ping),
            LAMBDA d : SetAll(d, 1, 6)),
       LAMBDA d : Then(Then(enter_standby_xosc(d), LAMBDA e : SetAll(e, 7, Len(Settings))),
                       LAMBDA e : clear_irq_status(e, Irqs)))

write_buffer(c, f) == write_command(c, [c EXCEPT !.tx = f])

\* The buffer is written while the chip may still be receiving.
transmit(c, f) ==
  Then(write_buffer(TxActive(c), f),
       LAMBDA d : Then(Then(apply_high_acp_workaround(d),
                            LAMBDA e : write_command(e, SetMode(e, "standby"))),
                       LAMBDA e : write_command(e, SetMode(e, "tx"))))

start_receive(c) ==
  Then(Then(apply_high_acp_workaround(c),
            LAMBDA d : write_command(d, SetMode(d, "standby"))),
       LAMBDA d : Then(write_command(d, SetMode(d, "rx")),
                       LAMBDA e : {Ok(TxIdle(e))}))

read_buffer(c) == read_command(c)

\* Reception is re-armed only after a reception.
process_irqRxOnly(c) ==
  IF c.irq = {} THEN read_command(c)
  ELSE Returning(IF "rx_done" \in c.irq /\ "crc_err" \notin c.irq THEN <<c.rx>> ELSE <<>>,
         Then(read_buffer(c),
              LAMBDA d : Then(clear_irq_status(d, c.irq),
                              LAMBDA e : IF "rx_done" \in c.irq THEN start_receive(e) ELSE {Ok(e)})))

process_irq(c) ==
  IF c.irq = {} THEN read_command(c)
  ELSE Returning(IF "rx_done" \in c.irq /\ "crc_err" \notin c.irq THEN <<c.rx>> ELSE <<>>,
         Then(read_buffer(c), LAMBDA d : Then(clear_irq_status(d, c.irq), start_receive)))

drop(c) == {SetMode(c, "standby"), c}

=============================================================================
