SPECIFICATION DriversSpec
CONSTANTS
  Teams <- MCTeams
  MaxOps = 2
  I2cPrograms <- MCI2cPrograms
  MaxI2cDrops = 1
  UART_DEPTH = 2
  UartLengths = {0, 1, 3}
  MaxUartBytes = 3
  SpiLengths = {0, 1, 2, 3}
  MaxSpiDrops = 2
  FrameLengths = {0, 1, 2, 64, 124, 125, 126, 127, 128, 253, 254, 255, 256, 300}
  SliceLengths = {1, 2, 3, 65, 125, 126, 127, 128}
INVARIANTS IrqWakeNotLost ReportsOwnEvent I2cWire I2cBuffers UartTxOrdered UartRxOrdered SpiExchanged FrameSurvives
PROPERTIES WaitResolves I2cReturns UartReturns
CHECK_DEADLOCK FALSE
