CONSTANTS
  Harts = {1, 2}
  INPUT_BUF = 3
  UART_TX_BUF_SIZE = 3
  UINT = 6
  Naps <- SomeNaps
  Workloads <- Drivers
SPECIFICATION Spec
INVARIANT NoPanic
