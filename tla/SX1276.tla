------------------------------- MODULE SX1276 -------------------------------
(***************************************************************************)
(* The SX1276 driver (src/src/iface/lora/sx1276.rs): register accesses     *)
(* without a BUSY line, one FIFO for both directions, and a transmit that  *)
(* returns as soon as the chip is in TX mode.                              *)
(***************************************************************************)
EXTENDS Integers, LoRaChip

write_register(c, after) == xfer(c, after)

read_register(c) == {Ok(c), Err(c)}

set_op_mode(c, m) == write_register(c, SetMode(c, m))

Settings ==
  <<"frequency", "fifo_base", "lna", "modulation", "sync_word", "preamble",
    "crc", "iq", "pa">>

\* The settings from one to another, in order; the chain breaks off before
\* one of them.
SetAll(c, first, last) ==
  {Ok(Configure(c, {Settings[i] : i \in first..last}))}
  \cup {Err(Configure(c, {Settings[i] : i \in first..n})) : n \in (first - 1)..(last - 1)}

hardware_reset(c) == ResetLine(c)

ping(c) == read_register(c)

clear_irq_flags(c, mask) == write_register(c, ClearIrq(c, mask))

\* Ends in standby with the interrupt flags cleared, that error ignored.
init(c) ==
  LET new == TxIdle(c) IN
  Then(Then(Then(Then(hardware_reset(new), LAMBDA d : set_op_mode(d, "sleep")), ping),
            LAMBDA d : SetAll(d, 1, Len(Settings))),
       LAMBDA d : Then(set_op_mode(d, "standby"), LAMBDA e : {Ok(ClearIrq(e, Irqs)), Ok(e)}))

transmit(c, f) ==
  Then(set_op_mode(TxActive(c), "standby"),
       LAMBDA d : Then(write_register(d, WriteFifo(d, f)),
                       LAMBDA e : set_op_mode(e, "tx")))

start_receive(c) ==
  Then(set_op_mode(c, "rx"), LAMBDA d : {Ok(TxIdle(d))})

read_fifo_payload(c) == read_register(c)

process_irq(c) ==
  LET acted == {"tx_done", "rx_done", "crc_err"} \cap c.irq IN
  IF c.irq = {} THEN read_register(c)
  ELSE Returning(IF "rx_done" \in c.irq /\ "crc_err" \notin c.irq THEN <<c.rx>> ELSE <<>>,
         Then(read_fifo_payload(c),
              LAMBDA d : Then(clear_irq_flags(d, c.irq),
                              LAMBDA e : IF acted = {} THEN {Ok(e)} ELSE start_receive(e))))

\* Drop: sleep, an error ignored.
drop(c) == {SetMode(c, "sleep"), c}

=============================================================================
