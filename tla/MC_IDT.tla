------------------------------- MODULE MC_IDT -------------------------------
(***************************************************************************)
(* Model-checking instance of IDT.  Four vectors stand for the 256: 0     *)
(* (Divide-by-zero, an exception), 2 (NMI), 14 (Page Fault) and 32 (the  *)
(* first vector above the exceptions).  One custom handler is enough: a   *)
(* second registration on a claimed vector fails whatever its argument.   *)
(***************************************************************************)
EXTENDS IDT

CONSTANTS H1

MCVectors == {0, 2, 14, 32}
MCHandlers == {H1}
=============================================================================
