CONSTANTS
  Proc = {p1, p2}
  None = None
  Intr = Intr
  p1 = p1
  p2 = p2
  cpu0 = p1
  Keys = {"a", "cr", "D", "H", "U", "P"}
  INPUT_BUF = 2
  U = 4
  UART_TX_BUF_SIZE = 3
  TXFIFO = 2
  RXFIFO = 2
  Starts = {2}
  MaxTicks = 3
SPECIFICATION MCSpec
INVARIANTS BuffersBounded SleepersHaveReason PanicNeedsBacklog
PROPERTIES ImplementsTty OutputDrains ReadReturns
CHECK_DEADLOCK FALSE
