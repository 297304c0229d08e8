--------------------------- MODULE DescriptorTables ---------------------------
(***************************************************************************)
(* The IDT's gate descriptors (InterruptDescriptorTable::init, setGate and *)
(* load of src/kernel/Source/arch/idt.hh) composed with the GDT: a gate   *)
(* names its handler's code segment by a selector into the GDT that is    *)
(* loaded when the CPU delivers through it.  idt_table[vec] is kept as its *)
(* 16 bytes in memory, for the vectors considered; the handler addresses   *)
(* (isr_stub_table, in assembly) are 8-byte constants.                     *)
(***************************************************************************)
EXTENDS GDT

CONSTANTS
  Vectors,      \* vectors considered, a subset of 0..255
  StubAddr,     \* vector -> isr_stub_table[vector], 8 bytes
  UseTrapGate   \* values of kIdtUseTrapGateForExceptions considered

ASSUME Vectors \subseteq 0..255 /\ StubAddr \in [Vectors -> [1..8 -> Byte]]
ASSUME UseTrapGate \subseteq BOOLEAN

INTERRUPT_GATE == \h8E
TRAP_GATE == \h8F

\* (mutant) the gate names the kernel data selector
setGate_SelectorData(base, flags) ==
  LE(Shr16(base, 0), 2) \o LE(\h10, 2) \o <<0, flags>> \o LE(Shr16(base, 16), 2)
    \o LE(Shr16(base, 32), 2) \o LE(Shr16(base, 48), 2) \o LE(0, 4)

\* The Entry setGate writes, in memory order.  offset_high, a u32 beyond
\* TLC's integers, is written as its two 16-bit halves.
setGate(base, flags) ==
  LE(Shr16(base, 0), 2) \o LE(\h08, 2) \o <<0, flags>> \o LE(Shr16(base, 16), 2)
    \o LE(Shr16(base, 32), 2) \o LE(Shr16(base, 48), 2) \o LE(0, 4)

VARIABLES
  trapBuild,  \* kIdtUseTrapGateForExceptions of this build
  idt,        \* vector -> the bytes of idt_table[vector]
  idtr        \* "boot" until lidt of idt_ptr, then "loaded"

tablesVars == <<vars, trapBuild, idt, idtr>>

TablesInit ==
  /\ Init
  /\ trapBuild \in UseTrapGate
  /\ idt = [v \in Vectors |-> [i \in 1..16 |-> 0]]
  /\ idtr = "boot"

\* IDT::init: a gate per vector (exceptionGate below 32, an interrupt gate
\* above), then lidt.  The handler-table writes are module IDT's.
idt_init ==
  /\ fault = "none"
  /\ idt' = [v \in Vectors |->
               setGate(StubAddr[v], IF v < 32 /\ trapBuild THEN TRAP_GATE ELSE INTERRUPT_GATE)]
  /\ idtr' = "loaded"
  /\ UNCHANGED <<vars, trapBuild>>

GdtStep == Next /\ UNCHANGED <<trapBuild, idt, idtr>>

TablesNext == GdtStep \/ idt_init

TablesSpec == TablesInit /\ [][TablesNext]_tablesVars

----------------------------------------------------------------------------
(* The CPU's reading of a 64-bit gate (SDM vol. 3, 6.14.1). *)

GateOf(g) ==
  [offset   |-> <<g[1], g[2], g[7], g[8], g[9], g[10], g[11], g[12]>>,
   selector |-> g[3] + 256 * g[4],
   ist      |-> g[5] % 8,
   type     |-> g[6] % 16,
   dpl      |-> (g[6] \div 32) % 4,
   p        |-> g[6] \div 128]

\* Once IDT::init has run and load has replaced Limine's GDT (lgdt never
\* faults), every gate the CPU can deliver through is present, ring 0, on
\* the interrupted stack (IST 0), a trap gate for exceptions in the trap
\* build and an interrupt gate otherwise, and leads to its vector's stub in
\* the 64-bit ring-0 code segment of gdt_table: setGate's literal 0x08 has
\* to agree with Segment::KERNEL_CODE, and the three offset fields have to
\* reassemble the stub address.  This must hold also after a faulting
\* second load, whose #GP is delivered through these gates.
GatesReachStubs ==
  idtr = "loaded" /\ loads > 0 =>
    \A v \in Vectors :
      LET g == GateOf(idt[v])
      IN  /\ g.p = 1 /\ g.dpl = 0 /\ g.ist = 0
          /\ g.type = IF v < 32 /\ trapBuild THEN 15 ELSE 14
          /\ g.offset = StubAddr[v]
          /\ Index(g.selector) + 7 <= GdtLimit
          /\ LongModeKernelCode(Descriptor(gdt, Index(g.selector)))

=============================================================================
