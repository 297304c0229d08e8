-------------------------------- MODULE Boot --------------------------------
(***************************************************************************)
(* _start of src/kernel/Source/core/_start.cc: COM1 and COM2 initialised,  *)
(* the banner printed on COM2 through FmtBase<SerialCOM2>::print, the     *)
(* "Memmap is still null" line printed on COM1 through Fmt::printf when    *)
(* the bootloader left the memmap request unanswered, then cli and the hlt *)
(* loop.  The calls that set up GDT, IDT and PMM are commented out in the  *)
(* code and are not part of this sequence.                                 *)
(*                                                                         *)
(* The processor runs _start one port access at a time (`pc` indexes      *)
(* Program); each UART's line shifts bytes out of its FIFO concurrently.   *)
(***************************************************************************)
EXTENDS Integers, Sequences, SequencesExt, Serial

CONSTANTS
  UartStarts,  \* the states a UART may be in when the bootloader jumps to _start
  Ascii        \* character -> code, for the characters _start prints

VARIABLES
  uart,          \* port -> its UART (see Serial)
  responseNull,  \* request.response == nullptr
  pc             \* the next step of Program; past its end: in the hlt loop

vars == <<uart, responseNull, pc>>

Ports == {"COM1", "COM2"}

\* Only puts of the formatter is used; it has no state of its own here.
Fmt == INSTANCE Format WITH Cases <- {}, fmt0 <- <<>>, args0 <- <<>>, p <- <<>>,
                            rest <- <<>>, out <- <<>>, rendered <- <<>>, done <- TRUE

Banner == <<"\n", " ", "-", "-", "-", "-", "-", "-", "-", "-", "-", "-", "-", " ", "\n">>

NullMsg == <<"M", "e", "m", "m", "a", "p", " ", "i", "s", " ", "s", "t", "i", "l", "l",
             " ", "n", "u", "l", "l", ".", ".", ".", "\n">>

\* Serial::init: its writes to the port, as steps.
SerialInit(port) ==
  [i \in 1..Len(InitWrites) |->
     [op |-> "out", port |-> port, reg |-> InitWrites[i][1], val |-> InitWrites[i][2]]]

\* print(const char*) and printf(const char*): puts, one Serial::put per
\* character, each char cast to u8.
PrintOn(port, s) ==
  LET chars == Fmt!puts(s)
  IN  [i \in 1..Len(chars) |-> [op |-> "put", port |-> port, val |-> Ascii[chars[i]]]]

Program(null) ==
  SerialInit("COM1") \o SerialInit("COM2") \o PrintOn("COM2", Banner)
    \o (IF null THEN PrintOn("COM1", NullMsg) ELSE <<>>) \o <<[op |-> "cli"]>>

\* Program for each answer of the memmap request (a constant, computed once).
Programs == [null \in BOOLEAN |-> Program(null)]

Running == pc <= Len(Programs[responseNull])
Instr == Programs[responseNull][pc]

Init ==
  /\ uart \in [Ports -> UartStarts]
  /\ responseNull \in BOOLEAN
  /\ pc = 1

\* io::out<u8>(PORT_BASE + reg, v) of Serial::init.
Out ==
  /\ Running /\ Instr.op = "out"
  /\ uart' = [uart EXCEPT ![Instr.port] = outb(@, Instr.reg, Instr.val)]
  /\ pc' = pc + 1
  /\ UNCHANGED responseNull

\* Serial::put: the spin on tx_ready ends when LSR reports THRE (nothing
\* but this loop writes the port, so it stays set); then the byte is
\* written to DATA.
Put ==
  /\ Running /\ Instr.op = "put"
  /\ tx_ready(uart[Instr.port])
  /\ uart' = [uart EXCEPT ![Instr.port] = outb(@, DATA, Instr.val)]
  /\ pc' = pc + 1
  /\ UNCHANGED responseNull

\* io::cli(); the loop that follows only executes hlt.
Cli ==
  /\ Running /\ Instr.op = "cli"
  /\ pc' = pc + 1
  /\ UNCHANGED <<uart, responseNull>>

\* for (;;) io::hlt();
Halted == ~Running /\ UNCHANGED vars

\* The UART at port p sends the oldest byte of its FIFO.
Transmit(port) ==
  /\ uart[port].present /\ uart[port].thr # <<>>
  /\ uart' = [uart EXCEPT ![port] = Shift(@)]
  /\ UNCHANGED <<responseNull, pc>>

Next == Out \/ Put \/ Cli \/ Halted \/ \E port \in Ports : Transmit(port)

\* The processor keeps executing _start; a UART shifts bytes out at its
\* baud clock whatever the processor does.
Spec ==
  /\ Init /\ [][Next]_vars
  /\ WF_vars(Out \/ Put \/ Cli)
  /\ \A port \in Ports : WF_vars(Transmit(port))

-----------------------------------------------------------------------------
(* Properties                                                             *)

\* The characters of a message as they should appear on the line: each
\* line break as CR LF.
OnLine(s) == FoldLeft(LAMBDA acc, c : acc \o (IF c = "\n" THEN <<13, 10>> ELSE <<Ascii[c]>>),
                      <<>>, s)

\* What _start means to send on each port, at 115200 baud (the divisor
\* for Baud), 8N1.
MeantFor ==
  [null \in BOOLEAN |-> [port \in Ports |->
     LET text == IF port = "COM2" THEN Banner ELSE IF null THEN NullMsg ELSE <<>>
     IN  [i \in 1..Len(OnLine(text)) |-> [b |-> OnLine(text)[i], div |-> Divisor, lcr |-> ILCR]]]]
Meant(port) == MeantFor[responseNull][port]

\* What the kernel has put on the line of a port (not the bootloader's
\* leftover bytes).
Sent(port) == SelectSeq(uart[port].wire, LAMBDA w : w.b # FwByte)

\* Every byte the kernel puts on a line is the next byte of its message,
\* sent with the divisor and frame format Serial::init programs: init's
\* divisor bytes never reach the line, nothing put is dropped by a full
\* FIFO, and the order is kept, whatever state the bootloader left the
\* UART in.
LineCarriesText ==
  \A port \in Ports : uart[port].present => IsPrefix(Sent(port), Meant(port))

\* _start ends in the hlt loop with each present UART having sent its whole
\* message: Serial::put's spin on tx_ready always ends.
BootCompletes ==
  <>(~Running /\ \A port \in Ports : uart[port].present => Sent(port) = Meant(port))

=============================================================================
