------------------------------- MODULE MC_Boot ------------------------------
(***************************************************************************)
(* Model-checking instance of Boot.  A UART may be absent, fresh from      *)
(* reset (FIFO off, divisor and format not yet programmed), or left by the *)
(* bootloader at 115200 8N1 with its FIFO on and two of its own bytes not  *)
(* yet sent, or at 9600 baud with one.                                     *)
(***************************************************************************)
EXTENDS Boot

Uart(present, lcr, dll, fifo, thr) ==
  [present |-> present, lcr |-> lcr, dll |-> dll, dlm |-> 0, ier |-> 0, mcr |-> 0,
   fifo |-> fifo, thr |-> thr, wire |-> <<>>]

MCUartStarts ==
  { Uart(FALSE, 0, 0, FALSE, <<>>),
    Uart(TRUE, 0, 0, FALSE, <<>>),
    Uart(TRUE, \h03, 1, TRUE, <<FwByte, FwByte>>),
    Uart(TRUE, \h03, 12, TRUE, <<FwByte>>) }

MCAscii ==
  [c \in {"\r", "\n", " ", "-", ".", "M", "e", "m", "a", "p", "i", "s", "t", "l", "n", "u"} |->
     CASE c = "\r" -> 13 [] c = "\n" -> 10 [] c = " " -> 32 [] c = "-" -> 45 [] c = "." -> 46
       [] c = "M" -> 77 [] c = "e" -> 101 [] c = "m" -> 109 [] c = "a" -> 97
       [] c = "p" -> 112 [] c = "i" -> 105 [] c = "s" -> 115 [] c = "t" -> 116
       [] c = "l" -> 108 [] c = "n" -> 110 [] c = "u" -> 117]
=============================================================================
