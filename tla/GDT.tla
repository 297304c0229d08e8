-------------------------------- MODULE GDT --------------------------------
(***************************************************************************)
(* The global descriptor table of src/kernel/Source/arch/gdt.hh (class    *)
(* GlobalDescriptorTable) and what the CPU makes of it.                    *)
(*                                                                         *)
(* The code side is the static initialiser of gdt_table and tss_instance, *)
(* laid out byte by byte as the packed structs put it in memory, and the  *)
(* three operations load, set_rsp0 and set_ists.  The CPU side is a        *)
(* decoding of an 8- or 16-byte descriptor after the Intel SDM (vol. 3,   *)
(* 3.4.5 and 8.2.3), written independently of the encoding, and the        *)
(* checks mov-to-segment, lretq and ltr make before they load a selector. *)
(*                                                                         *)
(* Addresses are 64-bit, beyond TLC's integers, so the address of          *)
(* tss_instance is a sequence of 8 bytes, least significant first, and    *)
(* each shift-and-mask of the initialiser is done on the bytes it reads.  *)
(***************************************************************************)
EXTENDS Integers, Sequences, SequencesExt, Bitwise

CONSTANTS
  TssAddrs,     \* link addresses of tss_instance considered, 8 bytes each
  RspValues,    \* arguments of set_rsp0
  IstArrays,    \* arguments of set_ists, 7 entries each
  MaxLoads      \* bound on the calls of load

Byte == 0..255

ASSUME TssAddrs \subseteq [1..8 -> Byte] /\ TssAddrs # {}
ASSUME IstArrays \subseteq [1..7 -> RspValues]
ASSUME MaxLoads \in Nat \ {0}

\* enum Segment
KERNEL_CODE == 8
KERNEL_DATA == 16
USER_CODE   == 24
USER_DATA   == 32
TSS         == 40

\* v as n bytes, least significant first: how a packed uN field is stored.
LE(v, n) == [i \in 1..n |-> (v \div 256^(i-1)) % 256]

\* The low 16 bits of ((u64)addr >> s), for s a multiple of 8.
Shr16(a, s) == a[s \div 8 + 1] + 256 * (IF s \div 8 + 2 <= 8 THEN a[s \div 8 + 2] ELSE 0)

\* sizeof(TSS64): the packed fields reserved0 .. io_map_base.
TssSize == 4 + 8 + 8 + 8 + 8 + 7 * 8 + 8 + 2 + 2

\* sizeof(GDTFullTable): five GDTEntry and one GDTEntry64, packed, rounded
\* up to the 16-byte alignment the struct asks for.
TableSize == LET raw == 5 * 8 + 16 IN ((raw + 15) \div 16) * 16

GdtLimit_NoTss == 5 * 8 - 1

\* gdt_ptr.size
GdtLimit == TableSize - 1

\* tss_instance's initialiser.
tss_init == [rsp0 |-> 0, ists |-> [i \in 1..7 |-> 0], io_map_base |-> TssSize]

Entries_CodeNot64 ==
  << [limit_low |-> 0, base_low |-> 0, base_mid |-> 0, access |-> 0, granularity |-> 0, base_high |-> 0],
     [limit_low |-> \hFFFF, base_low |-> 0, base_mid |-> 0, access |-> \h9A, granularity |-> \hC0, base_high |-> 0],
     [limit_low |-> \hFFFF, base_low |-> 0, base_mid |-> 0, access |-> \h92, granularity |-> \hC0, base_high |-> 0],
     [limit_low |-> \hFFFF, base_low |-> 0, base_mid |-> 0, access |-> \hFA, granularity |-> \hA0, base_high |-> 0],
     [limit_low |-> \hFFFF, base_low |-> 0, base_mid |-> 0, access |-> \hF2, granularity |-> \hC0, base_high |-> 0] >>

\* The five static GDTEntry initialisers.
Entries ==
  << [limit_low |-> 0, base_low |-> 0, base_mid |-> 0, access |-> 0, granularity |-> 0, base_high |-> 0],
     [limit_low |-> \hFFFF, base_low |-> 0, base_mid |-> 0, access |-> \h9A, granularity |-> \hA0, base_high |-> 0],
     [limit_low |-> \hFFFF, base_low |-> 0, base_mid |-> 0, access |-> \h92, granularity |-> \hC0, base_high |-> 0],
     [limit_low |-> \hFFFF, base_low |-> 0, base_mid |-> 0, access |-> \hFA, granularity |-> \hA0, base_high |-> 0],
     [limit_low |-> \hFFFF, base_low |-> 0, base_mid |-> 0, access |-> \hF2, granularity |-> \hC0, base_high |-> 0] >>

\* gdt_table.tss_entry for tss_instance at address a.  base_upper is kept
\* as its two 16-bit halves.
TssEntry(a) ==
  [base |-> [limit_low   |-> TssSize - 1,
             base_low    |-> Shr16(a, 0) & \hFFFF,
             base_mid    |-> Shr16(a, 16) & \hFF,
             access      |-> \h89,
             granularity |-> shiftR(Shr16(a, 16) & \hF00, 8),
             base_high   |-> Shr16(a, 24) & \hFF],
   base_upper |-> <<Shr16(a, 32), Shr16(a, 48)>>,
   reserved |-> 0]

\* A GDTEntry in memory order.
EntryBytes(e) ==
  LE(e.limit_low, 2) \o LE(e.base_low, 2) \o <<e.base_mid, e.access, e.granularity, e.base_high>>

\* The bytes of gdt_table, padding included.
gdt_table(a) ==
  LET t == FlattenSeq([i \in 1..5 |-> EntryBytes(Entries[i])])
           \o EntryBytes(TssEntry(a).base)
           \o LE(TssEntry(a).base_upper[1], 2) \o LE(TssEntry(a).base_upper[2], 2)
           \o LE(TssEntry(a).reserved, 4)
  IN  t \o [i \in 1..(TableSize - Len(t)) |-> 0]

----------------------------------------------------------------------------
(* The CPU's view of a descriptor, after the SDM. *)

\* The fields of the descriptor at byte offset off of memory m.  A system
\* descriptor (S = 0) is 16 bytes and carries base bits 32..63.
Descriptor(m, off) ==
  LET b(i) == m[off + i + 1]
      sys  == (b(5) \div 16) % 2 = 0
  IN  [limit |-> b(0) + 256 * b(1) + 65536 * (b(6) % 16),
       type  |-> b(5) % 16,
       s     |-> (b(5) \div 16) % 2,
       dpl   |-> (b(5) \div 32) % 4,
       p     |-> b(5) \div 128,
       l     |-> (b(6) \div 32) % 2,
       db    |-> (b(6) \div 64) % 2,
       g     |-> b(6) \div 128,
       base  |-> <<b(2), b(3), b(4), b(7)>>
                 \o (IF sys THEN <<b(8), b(9), b(10), b(11)>> ELSE <<0, 0, 0, 0>>)]

\* The last byte offset the limit admits, after the granularity bit.
EffLimit(d) == IF d.g = 1 THEN d.limit * 4096 + 4095 ELSE d.limit

Index(sel) == sel - (sel % 8)
InGdt(sel) == (sel \div 4) % 2 = 0

\* mov to DS/ES/FS/GS at CPL 0: null, or present data or readable code in
\* bounds whose DPL admits the RPL.
DataLoadable(m, lim, sel) ==
  \/ sel < 4
  \/ /\ InGdt(sel) /\ Index(sel) + 7 <= lim
     /\ LET d == Descriptor(m, Index(sel))
        IN  d.s = 1 /\ (d.type < 8 \/ (d.type \div 2) % 2 = 1)
            /\ d.dpl >= sel % 4 /\ d.p = 1

\* lretq to CPL 0: a present non-conforming ring-0 code segment in bounds,
\* and not L and D both set.
CodeLoadable(m, lim, sel) ==
  /\ sel % 4 = 0 /\ sel >= 4 /\ InGdt(sel) /\ Index(sel) + 7 <= lim
  /\ LET d == Descriptor(m, Index(sel))
     IN  d.s = 1 /\ d.type >= 8 /\ (d.type \div 4) % 2 = 0 /\ d.dpl = 0
         /\ d.p = 1 /\ ~(d.l = 1 /\ d.db = 1)

\* ltr: an available 64-bit TSS (type 9), present, its 16 bytes in bounds.
TssLoadable(m, lim, sel) ==
  /\ sel >= 4 /\ InGdt(sel) /\ Index(sel) + 15 <= lim
  /\ LET d == Descriptor(m, Index(sel)) IN d.s = 0 /\ d.type = 9 /\ d.p = 1

----------------------------------------------------------------------------

DataRegs == {"ds", "es", "fs", "gs"}
Regs == DataRegs \cup {"cs", "tr"}

\* What the Limine protocol leaves in the registers at entry: its own
\* 64-bit code (0x28) and data (0x30) selectors, and no task register.
LimineSelectors == [r \in Regs |-> CASE r = "cs" -> \h28 [] r = "tr" -> 0 [] OTHER -> \h30]

VARIABLES
  tssAddr,   \* &tss_instance, fixed at link time
  gdt,       \* the bytes of gdt_table in memory
  tss,       \* tss_instance
  gdtr,      \* the GDTR limit, "boot" while Limine's table is loaded
  seg,       \* the selector in each segment register and in TR
  fault,     \* the instruction of load that raised #GP, or "none"
  loads      \* calls of load so far

vars == <<tssAddr, gdt, tss, gdtr, seg, fault, loads>>

Init ==
  /\ tssAddr \in TssAddrs
  /\ gdt = gdt_table(tssAddr)
  /\ tss = tss_init
  /\ gdtr = "boot"
  /\ seg = LimineSelectors
  /\ fault = "none"
  /\ loads = 0

\* load: lgdt, DS..GS := 0x10, lretq to 0x08, ltr 0x28.  Each instruction
\* runs only if the ones before it did not fault; ltr marks the TSS
\* descriptor busy in memory.
load ==
  /\ fault = "none" /\ loads < MaxLoads
  /\ LET dataOK == DataLoadable(gdt, GdtLimit, KERNEL_DATA)
         codeOK == dataOK /\ CodeLoadable(gdt, GdtLimit, KERNEL_CODE)
         trOK   == codeOK /\ TssLoadable(gdt, GdtLimit, TSS)
     IN  /\ gdtr' = GdtLimit
         /\ seg' = [r \in Regs |->
                      CASE r \in DataRegs /\ dataOK -> KERNEL_DATA
                        [] r = "cs" /\ codeOK       -> KERNEL_CODE
                        [] r = "tr" /\ trOK         -> TSS
                        [] OTHER                    -> seg[r]]
         /\ gdt' = IF trOK THEN [gdt EXCEPT ![TSS + 6] = @ + 2] ELSE gdt
         /\ fault' = CASE ~dataOK -> "mov"
                       [] ~codeOK -> "lretq"
                       [] ~trOK   -> "ltr"
                       [] OTHER   -> "none"
  /\ loads' = loads + 1
  /\ UNCHANGED <<tssAddr, tss>>

set_rsp0 ==
  /\ fault = "none"
  /\ \E v \in RspValues : tss' = [tss EXCEPT !.rsp0 = v]
  /\ UNCHANGED <<tssAddr, gdt, gdtr, seg, fault, loads>>

set_ists ==
  /\ fault = "none"
  /\ \E a \in IstArrays : tss' = [tss EXCEPT !.ists = a]
  /\ UNCHANGED <<tssAddr, gdt, gdtr, seg, fault, loads>>

\* A #GP in load goes to the exception path and the core panics.
Faulted == fault # "none" /\ UNCHANGED vars

Next == load \/ set_rsp0 \/ set_ists \/ Faulted

Spec == Init /\ [][Next]_vars

----------------------------------------------------------------------------
(* Properties *)

LongModeKernelCode(d) ==
  d.p = 1 /\ d.s = 1 /\ d.type >= 8 /\ d.dpl = 0 /\ d.l = 1 /\ d.db = 0

KernelData(d) ==
  d.p = 1 /\ d.s = 1 /\ d.type < 8 /\ (d.type \div 2) % 2 = 1 /\ d.dpl = 0

\* Once load has run through ltr, the selectors it wrote name what their
\* enumerators promise in the table as it now stands in memory: CS a
\* present 64-bit (L set, D clear) ring-0 code segment, DS..GS present
\* writable ring-0 data, and TR the busy 64-bit TSS whose base is the
\* address of tss_instance, so the rsp0 and ists set_rsp0 and set_ists
\* write are the ones the CPU reads.
LoadedSegmentsAsIntended ==
  seg["tr"] = TSS =>
    /\ LongModeKernelCode(Descriptor(gdt, Index(seg["cs"])))
    /\ \A r \in DataRegs : KernelData(Descriptor(gdt, Index(seg[r])))
    /\ LET t == Descriptor(gdt, Index(seg["tr"]))
       IN  t.s = 0 /\ t.type = 11 /\ t.p = 1 /\ t.base = tssAddr

\* tss_instance.io_map_base is sizeof(TSS64), past the end of the TSS, so
\* that there is no I/O permission bitmap and every in/out at CPL 3 (IOPL
\* 0) faults.  That holds only while io_map_base is at or past the limit
\* the CPU decodes from the TSS descriptor TR selects (SDM vol. 1, 19.5.2:
\* the bitmap must lie within the limit); a larger limit makes the CPU
\* read the memory after tss_instance as a bitmap.
UserIoDenied ==
  seg["tr"] = TSS => tss.io_map_base >= EffLimit(Descriptor(gdt, Index(seg["tr"])))

\* The first call of load gets through lgdt, the data segment reloads,
\* lretq and ltr without a #GP.  Only a repeated call can fault, at ltr,
\* which finds the TSS descriptor the first call left busy.
FirstLoadSucceeds ==
  fault # "none" => loads > 1 /\ fault = "ltr"

=============================================================================
