\* _start with every combination of UART start states on COM1 and COM2,
\* with and without a memmap response; 16-byte FIFOs, 115200 baud.
CONSTANTS
  FifoDepth = 16
  Baud = 115200
  UartStarts <- MCUartStarts
  Ascii <- MCAscii
SPECIFICATION Spec
INVARIANT LineCarriesText
PROPERTY BootCompletes
