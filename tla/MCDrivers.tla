----------------------------- MODULE MCDrivers -----------------------------
(***************************************************************************)
(* The peripheral drivers, each in turn: a behaviour chooses one of them   *)
(* in its initial state and the others stay as they are.  IrqWait has the  *)
(* drivers that share a register or a handler, two at a time; the others   *)
(* own their peripheral.                                                   *)
(***************************************************************************)
EXTENDS IrqWait, I2cBus, UartFifo, SpiBus, FrameLayout

VARIABLE driver

MCTeams == {{"kbi", "rtc"}, {"spi", "kbi"}, {"spi", "i2c"}, {"spi", "adc"},
            {"uart_rx", "uart_tx"}, {"i2c", "rtc"}, {"adc", "uart_rx"}}

\* Two operations of up to two bytes: every pair of neighbours.  Three of up
\* to one: a direction that changes twice, an empty one in the middle.
MCI2cPrograms == UNION {[1..n -> [read : BOOLEAN, len : 0..2]] : n \in 0..2}
                 \cup [1..3 -> [read : BOOLEAN, len : 0..1]]

DriversInit ==
    /\ driver \in {"waits", "i2c", "uart", "spi", "frame"}
    /\ Init /\ I2cInit /\ UartInit /\ SpiInit /\ FrameInit
    /\ driver # "waits" => team = {"kbi", "rtc"} /\ ~abandons

DriversNext ==
    /\ UNCHANGED driver
    /\ \/ /\ driver = "waits" /\ Next
          /\ UNCHANGED <<i2vars, uavars, spvars, flvars>>
       \/ /\ driver = "i2c" /\ I2cNext
          /\ UNCHANGED <<vars, uavars, spvars, flvars>>
       \/ /\ driver = "uart" /\ UartNext
          /\ UNCHANGED <<vars, i2vars, spvars, flvars>>
       \/ /\ driver = "spi" /\ SpiNext
          /\ UNCHANGED <<vars, i2vars, uavars, flvars>>
       \/ /\ driver = "frame" /\ FrameNext
          /\ UNCHANGED <<vars, i2vars, uavars, spvars>>

allvars == <<driver, vars, i2vars, uavars, spvars, flvars>>

\* The fairness of each driver's module, in the behaviours that are its own.
DriversSpec ==
    /\ DriversInit /\ [][DriversNext]_allvars
    /\ WF_vars(driver = "waits" /\ Irq) /\ SF_vars(driver = "waits" /\ Task)
    /\ WF_vars(driver = "waits" /\ RtcDue)
    /\ WF_vars(driver = "waits" /\ HwEvent("rtc"))
    /\ WF_i2vars(driver = "i2c" /\ I2cDriver)
    /\ WF_i2vars(driver = "i2c" /\ I2cIsr)
    /\ WF_i2vars(driver = "i2c" /\ I2cShift)
    /\ WF_uavars(driver = "uart" /\ UartDriver)
    /\ WF_uavars(driver = "uart" /\ UartIsr)
    /\ WF_uavars(driver = "uart" /\ UartTxShift)
=============================================================================
