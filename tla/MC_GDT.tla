------------------------------- MODULE MC_GDT -------------------------------
(***************************************************************************)
(* Model-checking instance of GDT.  A Limine kernel is linked in the top  *)
(* 2 GiB, at 0xffffffff80000000 and up; tss_instance lies in its data.    *)
(* Stacks passed to set_rsp0 and set_ists are small numbers standing for  *)
(* addresses: only which value was written last matters.  The IDT's      *)
(* vectors are an exception (0), the NMI (2), the page fault (14) and the *)
(* first IRQ (32); their stubs lie in kernel text, one across a 64 KiB    *)
(* boundary so that offset_mid is not that of the others.                  *)
(***************************************************************************)
EXTENDS DescriptorTables

\* Bytes of a 64-bit address, least significant first.
Addr(b0, b1, b2, b3, b4, b5, b6, b7) == <<b0, b1, b2, b3, b4, b5, b6, b7>>

\* tss_instance within the first 16 MiB of a top-2-GiB kernel image:
\* 0xffffffff80003040, 0xffffffff80105000 and 0xffffffff80fff010.
MCTssAddrs == { Addr(\h40, \h30, 0, \h80, \hFF, \hFF, \hFF, \hFF),
                Addr(0, \h50, \h10, \h80, \hFF, \hFF, \hFF, \hFF),
                Addr(\h10, \hF0, \hFF, \h80, \hFF, \hFF, \hFF, \hFF) }

\* An image whose data lies past 16 MiB (0xffffffff81200020), and a kernel
\* loaded at a low physical address (0x0000000003400100).
MCTssAddrsWide == { Addr(\h20, 0, \h20, \h81, \hFF, \hFF, \hFF, \hFF),
                    Addr(0, 1, \h40, 3, 0, 0, 0, 0) }

MCRspValues == {0, 1, 2}

\* No IST stack, one for the double fault (IST1), one for NMI (IST2), and
\* both.
MCIstArrays == { [i \in 1..7 |-> 0],
                 [i \in 1..7 |-> IF i = 1 THEN 1 ELSE 0],
                 [i \in 1..7 |-> IF i = 2 THEN 2 ELSE 0],
                 [i \in 1..7 |-> IF i = 1 THEN 1 ELSE IF i = 2 THEN 2 ELSE 0] }
MCVectors == {0, 2, 14, 32}

\* isr_stub_table: 0xffffffff80001000 + 16 * v, and 0xffffffff80010000 for
\* the page fault.
MCStubAddr ==
  [v \in MCVectors |->
     IF v = 14 THEN Addr(0, 0, 1, \h80, \hFF, \hFF, \hFF, \hFF)
     ELSE Addr((16 * v) % 256, \h10 + (16 * v) \div 256, 0, \h80, \hFF, \hFF, \hFF, \hFF)]
=============================================================================
