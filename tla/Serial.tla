------------------------------- MODULE Serial -------------------------------
(***************************************************************************)
(* Serial<PORT_BASE, BAUD, ILCR> of src/kernel/Source/arch/serial.hh, over *)
(* io::out / io::in of arch/io.hh, against the 16550A UART those port     *)
(* writes program.  A UART is a record:                                    *)
(*   present   a UART answers at the port base (else reads give 0xFF and  *)
(*             writes are lost)                                            *)
(*   lcr, dll, dlm, ier, mcr, fifo   its registers (fifo: FCR bit 0)       *)
(*   thr       the transmit holding register / FIFO, oldest first          *)
(*   wire      what went out on the line: each byte with the divisor and   *)
(*             the frame format (LCR without DLAB) it was sent with        *)
(* Bytes are 0..255; FwByte stands for a byte the bootloader left in the   *)
(* FIFO.                                                                   *)
(***************************************************************************)
EXTENDS Integers, Sequences, Bitwise

CONSTANTS
  FifoDepth,   \* bytes the 16550A transmit FIFO holds
  Baud         \* the BAUD template argument

\* enum SerialRegister (MSR and SCR are never accessed).
DATA == 0
IER == 1
FCR == 2
LCR == 3
MCR == 4
LSR == 5

\* The ILCR template argument: 8 data bits, no parity, one stop bit.
ILCR == \h03

FwByte == 256

\* constexpr u16 divisor = 115200 / BAUD;
Divisor == 115200 \div Baud

DLAB(u) == (u.lcr & \h80) # 0

\* A byte written to DATA is dropped when the FIFO (one byte when the
\* FIFO is off) is full.
Depth(u) == IF u.fifo THEN FifoDepth ELSE 1

\* io::out<u8>(PORT_BASE + reg, v), the outb instruction, as the UART decodes it: with DLAB set,
\* DATA and IER are the two halves of the divisor latch; FCR bit 0 turns
\* the FIFOs on and bit 2 empties the transmit FIFO.
outb(u, reg, v) ==
  IF ~u.present THEN u
  ELSE CASE reg = DATA /\ DLAB(u) -> [u EXCEPT !.dll = v]
         [] reg = DATA -> IF Len(u.thr) < Depth(u) THEN [u EXCEPT !.thr = Append(@, v)]
                          ELSE u
         [] reg = IER /\ DLAB(u) -> [u EXCEPT !.dlm = v]
         [] reg = IER -> [u EXCEPT !.ier = v]
         [] reg = FCR -> [u EXCEPT !.fifo = ((v & 1) = 1),
                                   !.thr = IF (v & 4) # 0 THEN <<>> ELSE @]
         [] reg = LCR -> [u EXCEPT !.lcr = v]
         [] reg = MCR -> [u EXCEPT !.mcr = v]

\* io::in<u8>(PORT_BASE + LSR): THRE (bit 5) and TEMT (bit 6) once the
\* transmitter has nothing left; an empty bus reads 0xFF.
in_LSR(u) ==
  IF ~u.present THEN \hFF
  ELSE IF u.thr = <<>> THEN \h60 ELSE 0

\* (mutant) the data-ready bit rx_ready tests, read as the transmitter's
tx_ready_RxBit(u) == (in_LSR(u) & \h01) # 0

tx_ready(u) == (in_LSR(u) & 2^5) # 0

\* (mutant) the divisor written before DLAB is set
InitWrites_DlabLate ==
  << <<IER, 0>>, <<DATA, Divisor & \hFF>>, <<LCR, \h80>>, <<IER, shiftR(Divisor, 8)>>,
     <<LCR, ILCR>>, <<FCR, \hC7>>, <<MCR, \h0B>> >>

\* Serial::init's port writes, in program order.
InitWrites ==
  << <<IER, 0>>, <<LCR, \h80>>, <<DATA, Divisor & \hFF>>, <<IER, shiftR(Divisor, 8)>>,
     <<LCR, ILCR>>, <<FCR, \hC7>>, <<MCR, \h0B>> >>

\* The line shifts out the oldest byte of the FIFO at the current divisor
\* and frame format.
Shift(u) ==
  [u EXCEPT !.thr  = Tail(@),
            !.wire = Append(@, [b |-> Head(u.thr), div |-> u.dlm * 256 + u.dll,
                                lcr |-> u.lcr & \h7F])]

=============================================================================
