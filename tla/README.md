# TLA+ models of the Yerp kernel

The kernel under `src/kernel/Source` is a small x86-64 kernel booted by
Limine. It runs on one core, with interrupts disabled (Limine enters with
IF = 0 and no code executes `sti`). This directory holds TLA+ models of the
parts of the kernel that have state and control flow worth checking, plus the
TLC configurations that check them.

## Inventory

| Part | Source | State | Operations | Interacts with |
|---|---|---|---|---|
| Physical page allocator | `core/pmm.hh` | `s_freelist_head`, `s_freelist_tail`, `s_total_pages`, `s_free_pages`, and the `FreePage::next` fields stored in the free pages themselves | `init`, `addRegion`, `allocate`, `tryAllocate`, `free`, `reserveRegion`, and the read-only accessors | Limine memory map and HHDM (inputs); `kpanic` (out of memory, and misuse when `kPanicOnError`) |
| Interrupt descriptor table | `arch/idt.hh` | `idt_table` (gate attributes), `real_handler_table`, `idt_ptr` | `init`, `registerHandler`, dispatch of a vector to its handler, `defaultInterruptHandler` | the assembly trampolines (`isr_stub_table`, not under `src/`); `kpanic` |
| Panic reporter | `arch/idt.hh` | the text on COM1 and COM2 | `kpanic` (primary report, debug report, register dump, closing line), `haltCatchFire` (`cli; hlt` forever) | serial ports; called from the IDT and the allocator |
| Serial driver | `arch/serial.hh`, `arch/io.hh` | the 16550 UART's registers, transmit FIFO and line | `init` (seven port writes), `tx_ready`, `put` (busy-waits on `tx_ready`), `get`, `flush` | used by the formatter; the UART shifts bytes out on its own clock |
| Formatter | `core/format.hh` | none (pure) | `printf` with `{}` / `{:#x}` / `{:b}` / width / fill parsing, and hex, bin and dec conversion | writes through a serial sink |
| Limine interface | `core/limine.hh` | bootloader responses (read only) | `MemoryMap::available`, `entryCount`, `entryAt`, `HHDM::offset` (0 when unavailable), `EFISupport::systemTableAvailable`, `efiMemmapSize` | feeds the allocator and the EFI interface |
| GDT | `arch/gdt.hh` | `gdt_table`, `tss_instance`, `gdt_ptr` (static initialisers); the CPU's GDTR, segment registers and TR | `load` (`lgdt`, reload DS..GS, `lretq` to CS, `ltr`), `set_rsp0`, `set_ists` | the CPU's descriptor checks; the TSS is where the CPU finds interrupt stacks |
| EFI runtime interface | `arch/efi.hh`, `EFISupport` of `core/limine.hh` | `ST`, `RS`; a `MemoryMap` (`totalSize`, `descSize`, `entryCount_`) and its `RuntimeIterator` (`idx`) | `initializeSystemTable`, `MemoryMap()`, `descriptorAt`, `isRuntime`, `runtimeBegin`, the iterator's `valid`, `*`, `next`, `advanceToNext`; `SetVirtualAddressMap` and the other runtime-service wrappers | the Limine EFI system table and EFI memory map responses; firmware's runtime services |
| Boot, flags, assert | `core/_start.cc`, `constants.h`, `ktl/assert.cc` | build flags; `request.response` | `_start`: init COM1 and COM2, a banner on COM2, a line on COM1 if the memmap request went unanswered, `cli`, `hlt` forever | the serial driver through the formatter's `puts`; the GDT, IDT and PMM init calls are commented out |

`pmm.hh` sits inside `#if 0` and `_start` does not call the IDT or PMM
init. Both are modelled as written, since they are the code the spec
describes.

### What makes each part hard, and the properties that make it correct

* **Allocator.** The freelist is intrusive: a free page holds its own
  `next` pointer. Nodes are linked through two address views. `addRegion`
  uses the physical address, while `free` uses physical + HHDM offset, and
  `allocate` returns the node pointer *as* the physical address. The
  correctness properties:
  * the list from the head ends, has no repeated frame, has exactly
    `s_free_pages` nodes, and under FIFO ends at `s_freelist_tail`;
  * no page is lost or duplicated among the list, the client and the
    reserved ranges;
  * no page is handed out twice;
  * a double free is rejected (checked where it fails, with an HHDM
    offset; with offset 0 it is the scan's own test);
  * a reserved page is never handed out;
  * the whole allocator implements the spec's interface: a pool of free
    pages ordered by policy (`AbstractAllocator`).
* **GDT.** The table is static data, but its bytes are built by shifts and
  masks into packed structs, and only the CPU interprets them, at `lretq`
  and `ltr` or much later (a TSS limit matters only at a ring-3 I/O
  instruction). `ltr` also writes the table: it marks the TSS descriptor
  busy, so a second `load` faults. The correctness properties:
  * the selectors `load` puts in CS, DS..GS and TR decode to a 64-bit
    ring-0 code segment, ring-0 data and the TSS at `tss_instance`;
  * the TSS limit leaves `io_map_base` at or past it, so ring-3 port I/O
    is denied (checked where it fails, when bits 24..27 of the TSS
    address are set; below 16 MiB the limit is the constant 103);
  * the first `load` does not fault;
  * once both tables are loaded, every IDT gate is a present ring-0 gate
    of the intended type, leading to its vector's stub in the GDT's 64-bit
    kernel code segment (`setGate` writes the literal selector `0x08` and
    splits the stub address over three fields).
* **IDT and panic reporter.** The interesting interleaving is nesting. An
  NMI is not masked by `cli`; the CPU blocks further NMIs only until the
  next `iretq`, so an NMI can interrupt `kpanic`, or even `hlt` after the
  panic. `Serial::put` spins without a timeout. The correctness properties:
  * when the core halts, the first panic's report is complete on both
    sinks (the code does not keep this: an NMI's panic halts first);
  * every panic eventually halts;
  * nothing is written after the halt (the code does not keep this:
    see "Not modelled").
* **Boot and serial driver.** `Serial::init` programs the divisor through
  the same two port offsets that are the transmit register and the
  interrupt enable whenever LCR.DLAB is clear, so the order of its seven
  writes matters. The bootloader may have left a UART in any state, with
  its own bytes still queued, or there may be no UART at all (reads give
  0xFF). `put` spins on THRE with no timeout, and the 16-byte FIFO is
  shorter than the banner. The correctness properties:
  * every byte the kernel puts on a line is the next byte of its message,
    sent at 115200 8N1;
  * `_start` reaches its hlt loop with both messages sent.

## Modules

| Module | Models | State | Actions |
|---|---|---|---|
| `PMM` | `PhysicalMemoryManager` | `head`, `tail`, `mem` (frame → stored `next`), `totalPages`, `freePages`, `phase` (`ready`, `panicked` after `kpanic`, `hung` in an endless list walk); ghosts `live`, `carved`, `reserved`, `everReserved`, `event` | `PmmInit`, `Allocate`, `TryAllocate`, `Free`, `ReserveRegion`, `Halted` |
| `Panic` | `kpanic`, `haltCatchFire` | `stack` of contexts, each at a write group `out`/`log`/`dump`/`tail`/`hlt`; `out` per sink | `PanicStep` (one group of writes) |
| `IDT` | `InterruptDescriptorTable`, composed with `Panic` | `handler` (`real_handler_table`), `gate`, `loaded`, `nmiBlocked` | `IdtInit`, `RegisterHandler`, `Raise`, `Nmi`, `CustomReturn`, `PanicCall`, `Report`, `Idle` |
| `Format` | `FmtBase::printf`, `parse_spec`, `route`, `print` (integers, C strings, string_views, arrays, slices, pairs), `put_dec`, `make_hex_string`, `make_bin_string`, `make_dec_string`, `print_padded`, `puts` | `fmt0`, `args0` (the call), `p` (the unread format), `rest` (the unused arguments), `out`; ghost `rendered` | `Escape`, `Substitute`, `Literal`, `ArgsLeft`, `PutsRest`, `Returned` |
| `AbstractAllocator` | spec.md's allocator interface | `aphase`, `pool` (free pages, next out first), `held` | `Boot`, `Allocate`, `TryAllocate`, `Free`, `Reserve` |
| `GDT` | `GlobalDescriptorTable` and the CPU's reading of it | `tssAddr` (`&tss_instance`, fixed at link time), `gdt` (the table's bytes), `tss`, `gdtr`, `seg` (CS, DS..GS, TR), `fault`, `loads` | `load`, `set_rsp0`, `set_ists`, `Faulted` |
| `DescriptorTables` | `IDT::init`, `setGate`, `load` of `arch/idt.hh`, over `GDT` | `GDT`'s, with `trapBuild` (`kIdtUseTrapGateForExceptions`), `idt` (the bytes of `idt_table`), `idtr` | `GDT`'s, with `idt_init`; `GateOf` is the CPU's reading of a gate |
| `Serial` | `Serial::init`'s writes, `tx_ready`, `io::out`/`io::in` on a 16550A | a UART record: `present`, `lcr`, `dll`, `dlm`, `ier`, `mcr`, `fifo`, `thr` (the FIFO), `wire` (bytes sent, with the divisor and frame format) | operators only: `outb`, `in_LSR`, `Shift` |
| `Boot` | `_start`, composed with `Serial` and `Format`'s `puts` | `uart` (per port), `responseNull`, `pc` (the next port access of `_start`) | `Out`, `Put`, `Cli`, `Halted`, `Transmit` (the UART) |
| `Efi` | `Efi::initializeSystemTable`, `MemoryMap`, `RuntimeIterator`, `SetVirtualAddressMap`, over `EFISupport::systemTableAvailable` and `efiMemmapSize` | `boot` (the two Limine responses), `ST`, `RS`, `mm`, `idx`, `adv` (inside `advanceToNext`'s loop), `seen`, `vmap`, `pc` (the caller) | `InitializeSystemTable`, `runtimeBegin`, `advanceToNext` (one loop turn), `Visit` (`*it` and `next`), `WalkEnd`, `SetVirtualAddressMap`, `Stopped` |
| `MC_PMM`, `MC_IDT`, `MC_Format`, `MC_GDT`, `MC_Boot`, `MC_Efi` | model values, the memory map, the printf calls, the TSS addresses and the UART start states for TLC | | |

Every `PMM` action is one whole public call: the kernel is single-core and
takes no locks, so calls cannot interleave. `allocate` includes its empty
check, the pop, the FIFO tail reset, the counter and the zeroing. `free`
includes the alignment check, the double-free walk (which can hang on a
cycle), the zeroing, the insertion and the counter. `reserveRegion`
includes the splice loop for every page and the FIFO tail recomputation.
Pointers are numbers, as in the code: `Frame(p) = p % Span` is the frame
either view of `p` names. The modelling assumption is that both views map
all of physical memory. A store through an unmapped pointer (`Mapped`) is
a fault, modelled as a panic.

`PMM`'s build flags (`kPmmUseFifo`, `kPmmZeroOnAlloc`, `kPmmZeroOnFree`
of `constants.h`) and the client's extra `free` addresses are the
variables `build` and `client`, chosen in `Init` from the constants
`Builds` and `Clients` and never changed, as `IDT` does with its flags.
One run thus covers every build with every client.

`Efi` models `arch/efi.hh`, which is under `#if 0` and has no caller. The
caller modelled is the one the comment before `SetVirtualAddressMap`
describes: initialise the system table, build a `MemoryMap`, walk its
runtime descriptors, and pass them to `SetVirtualAddressMap`. The
firmware's map is a sequence of descriptors `desc_size` bytes apart.
`descriptorAt(i)` reads at byte `i * descSize`; a read where no descriptor
starts gives `Junk`, whose runtime bit may be either value. `systemTableAvailable`
and the `MemoryMap` constructor dereference the Limine responses with no
null check, so a null response (a BIOS boot) is a step to `pc = "fault"`.

`PMM` reads the memory map through `Limine::MemoryMap`: init panics unless
the response is non-null, has a nonzero revision and at least one entry.
At the end of `PMM` the module `AbstractAllocator` is instantiated with a
refinement mapping: the chain from `s_freelist_head` is the pool, the
client's pages are `held`, and a panic or hang is `halted`.
`AllocatorRefinement` checks that every step of `PMM` is a step of the
abstract allocator or leaves its state unchanged.

`GDT` keeps the address of `tss_instance` as 8 bytes, because a 64-bit
address is beyond TLC's integers. Each `(addr >> s) & mask` of the
initialiser is done on the bytes it reads (`Shr16`), with `Bitwise`'s `&`
and `shiftR`. The table is laid out byte by byte in the packed structs'
field order, with the padding that `aligned(16)` adds (so
`gdt_ptr.size = 63`). The CPU side decodes a descriptor from those bytes
after the Intel SDM, with arithmetic, not with the encoder's operators.
`DescriptorTables` extends `GDT` with the IDT's gates, written byte by
byte as `setGate` lays out `Entry`, and `IDT::init` may run before or after
`load`. Its `GatesReachStubs` decodes each gate as the CPU does and follows
its selector into the loaded GDT. `IDT` models the handler table and the
panics; this module models the gate bytes only.
It applies the checks of `mov` to a data segment register, of `lretq` to
ring 0, and of `ltr`, in `load`'s order, and `ltr` sets the busy type in
memory. A `#GP` stops `load` at the faulting instruction, and the core
goes to the exception path (`Faulted`). The debug `printf` calls are left
out.

`kpanic`'s text is abstracted to groups of writes:

* `out`: the banner, the message and "System halted." on COM1;
* `log`: the banner and the message on COM2;
* `dump`: the register dump on COM2, only when `ctx` is non-null;
* `tail`: the closing line on COM2.

Each group completes: `Boot` shows that `Serial::put`'s spin always ends
on a present or absent 16550. Custom handlers are opaque (none is in `src/`): they run and
return, and while one runs only an NMI can arrive. Dispatch through the
trampolines is taken from the spec (`spec_modelled` in the map).

`Format` runs one `printf` call per behaviour: Init picks a format and an
argument list, and each step is one iteration of the loop at
`format.hh:127-143`. The steps are:

* `{{`;
* a placeholder, whose substitution includes the recursive call on the
  rest;
* another character, with `\n` written as `\r\n`;
* the end of the format with arguments left over;
* the no-argument overload, which writes the rest with `puts`.

The conversions are RECURSIVE operators that translate the digit loops
and the swap loop. `PlaceholdersRenderArgs` compares each substitution
with a reference rendering, which computes the digits by place value and
parses the spec by its grammar.

`Boot` runs `_start` one port access at a time. `Program` is the
sequence of those accesses: `Serial::init`'s writes for COM1 and COM2, one
`put` per character of the banner (through `Format`'s `puts`, so each
`\n` is preceded by `\r`), the same for the memmap line when
`request.response` is null, and `cli`. `Put` is enabled when `tx_ready`
reads THRE from LSR. Only `_start` writes to the port, so THRE stays set
once it is read, and the read and the write can be one step. Each UART is
a second actor: `Transmit` shifts the oldest FIFO byte onto its line at
whatever divisor and LCR the UART holds at that moment. `outb` decodes a
write as the 16550 does: with DLAB set, DATA and IER are the divisor
latch; FCR bit 0 enables the FIFO and bit 2 empties it; a write to a full
FIFO is lost; an absent UART ignores writes and reads back 0xFF.

## Runs

| Run | Checks | Result |
|---|---|---|
| `pmm_builds` | the default (LIFO) build and the FIFO build with zero-on-alloc and zero-on-free, each with an honest client and with one that also frees misaligned, already-free and never-carved addresses: `TypeOK`, `FreeListWellFormed`, `PagesConserved` (honest client), `NoDoubleHandout`, `ReservedStaysOut`, `AllocatorRefinement`; an aligned page that was never carved is accepted onto the list | holds |
| `pmm_hhdm_doublefree` | `DoubleFreeRejected` with an HHDM offset | violated: the double-free check misses init's pages and the list becomes cyclic |
| `pmm_free_null` | `FreeListWellFormed` when 0 is freed | violated: the head becomes nullptr |
| `pmm_spec_reserve` | the spec's promise that reserved pages never come back | violated by alloc, reserve, free, alloc |
| `idt_default` | `TypeOK`, `PanicEventuallyHalts` with NMIs, in both builds of the IDT flags (the default, and interrupt gates with `haltCatchFire` on exceptions) | holds |
| `idt_nmi_first_report` | `FirstReportComplete` | violated: an NMI's panic halts before the first report ends |
| `format_calls` | `PlaceholdersRenderArgs` over the kernel's own format strings and the scanner's corner cases | holds |
| `format_escape` | `OutputAsDocumented`: `{{` is `{` and every `{spec}` is its argument | violated: `{{` is written unchanged once no argument is left |
| `boot_serial` | `LineCarriesText`, `BootCompletes`, for every pair of UART start states and with and without a memmap response | holds |
| `gdt_load` | `LoadedSegmentsAsIntended`, `FirstLoadSucceeds`, for `tss_instance` in the first 16 MiB of a kernel linked at `0xffffffff80000000`; `load` may be called twice; and `GatesReachStubs`, with `IDT::init` before or after `load`, in both gate-type builds | holds; the second `load` faults at `ltr` (432 states) |
| `efi_runtime_walk` | `RuntimeWalkExact`, `HandOffComplete`, over BIOS and UEFI boots, revision 0 and 1 system-table responses, and maps with 40-, 48- and 56-byte strides, with no runtime descriptor or several | holds |
| `gdt_tss_limit` | `UserIoDenied` for `tss_instance` at `0xffffffff81200020` or `0x3400100` | violated: the TSS limit decodes as 65639 or 196711, past `io_map_base` (104) |

Every property of a passing run has a mutant in `PROJECT.json`: a
plausible bug in a mapped definition that TLC shows the property catches.
Examples are a missing counter decrement, a FIFO tail not reset, a
splice that skips the head, a missing halt, a code descriptor with D
instead of L, a `gdt_ptr.size`
that leaves out the TSS entry, an EFI walk that strides by
`sizeof(MemoryDescriptor)`, and an `advanceToNext` that never steps.

### Bounds

Addresses are scaled so that `PageSize = 4`, `kMinPhysical = 8` and
physical memory has 8 frames (`Span = 32`). The memory map has:

* an entry below `kMinPhysical`;
* an entry straddling it with an unaligned end;
* a reserved entry;
* an entry running past the end.

Init therefore meets every branch of the region scan and carves three
pages. Three pages are enough for a list with a head, a middle and a tail,
for emptying and refilling it, and for a reservation that takes the head,
the middle, or nothing. The reservation requests include an unaligned one
and one whose aligned range is empty. The misuse client frees:

* a misaligned address;
* a page that starts on the list;
* an aligned page that was never carved.

The HHDM offset is 0 (the view init writes through) or `Span`, which gives
a second, disjoint view of the same frames.

For the IDT, the vectors are:

* 0, an exception;
* 2, the NMI;
* 14, a page fault with an error code;
* 32, the first IRQ vector.

One custom handler model value can claim any of them. `MaxDepth = 3`
bounds nesting, though NMI blocking already limits it to two.

For `Format`, the calls are taken from the code:

* the register-dump line;
* `IDT::init`'s "Loading IDT" line;
* the allocator's entry line;
* the vector line.

Added to these are the scanner's corner cases:

* `{{` before a placeholder and after the last one;
* an unclosed spec;
* more arguments than placeholders, and fewer;
* zero in hex and binary, with and without `#`;
* padding in binary and decimal;
* the largest value TLC holds, 2^31 - 1;
* the default handler's "Unhandled CPU Exception {:#02x}: {}" with a vector
  and an exception name (a C string);
* a string_view, an array of three, a pair, a C string with a line break
  and an empty array, each in `{}` or under a spec that `route` ignores.

Arguments are records tagged by the overload they select (`int`, `ptr`,
`str`, `sv`, `arr`, `pair`).

Values stay below 2^31 because TLC's integers are 32-bit. The u64 digit
caps (16 hex, 64 binary, 24 decimal) are kept in the operators, but these
inputs never reach them.

For `GDT`, `tss_instance` is placed at `0xffffffff80003040`,
`0xffffffff80105000` and `0xffffffff80fff010`. These are three places in a
kernel linked into the top 2 GiB, as Limine requires, within the first
16 MiB of the image. The wide instance adds an image past 16 MiB and a
kernel at a low address. The whole address is checked, because the base
decoded from all 16 descriptor bytes must equal it. `set_rsp0` takes three
values. `set_ists` takes four arrays: none, IST1, IST2, and both. Two
calls of `load` are enough to reach the busy-TSS fault. The IDT's vectors
are 0, 2, 14 and 32: an exception, the NMI, the page fault and the first
IRQ. This covers both sides of the exception/interrupt split. The stub of
14 crosses a 64 KiB boundary, so a wrong `offset_mid` shift shows.

For `Boot`, each port starts in one of four states:

* no UART;
* fresh from reset: FIFO off, LCR 0;
* left by the bootloader at 115200 8N1 with the FIFO on and two of its
  bytes queued;
* at 9600 baud (divisor 12) with one byte queued.

With and without a memmap response, that makes 32 initial states. The
FIFO holds 16 bytes, as on a 16550A, which is one less than the banner's
17 bytes on the line, so a missing spin shows up as a lost byte.

For `Efi`, the system-table response is null, revision 0 or revision 1.
The memory-map response is null, or one of seven maps: an empty one; one
with no runtime descriptor; runtime descriptors first, last and
alternating; strides of 40 (equal to `sizeof(MemoryDescriptor)`), 48
(the common firmware value) and 56; and an 8-entry map, so that a stride
of 40 over a 48-byte map reads junk at most indices yet lands on a real
descriptor again at byte 240.

### Fairness

`IDT.Spec` has strong fairness on `Report`, because `kpanic` runs without
pausing and only an NMI, which is blocked while one is in progress, can
run before it continues. It has weak fairness on `CustomReturn`, because
a custom handler is assumed to return, as the spec's non-fatal path says.
`Boot.Spec` has weak fairness on the processor's steps of `_start`, and
per port on `Transmit`. The processor never stops executing, and a UART
shifts out a queued byte at its baud clock whatever the processor does.
`Efi.Spec` has weak fairness on its caller's steps: one core runs the
caller to its end with nothing to wait for.
`PMM` has no liveness property: its calls are made by a client, and
nothing obliges the client to make them.

## Not modelled

* The formatter's `print` overloads for `char`, `bool`, `wchar_t` strings and
  atomics (one character, a fixed word, or a forwarding call), and
  `put_hex`/`put_bin`, which nothing calls. A string_view containing a line
  break is not among the calls: `print(string_view)` would write it without
  `\r`, and no code passes one.
* Signed arguments cast to u64, and any u64 value above 2^31.
* The EFI runtime-service wrappers `ResetSystem`, `GetTime`, `SetTime`,
  `GetVariable` and `SetVariable`: one-line calls into firmware that
  change firmware state only. `MemoryMap::runtimeEnd`, which no loop
  needs, and the firmware's own handling of `SetVirtualAddressMap`.
* The Limine request classes other than `MemoryMap` (bootloader info,
  command line, firmware type, framebuffer, modules, RSDP, SMBIOS, boot time, executable address, paging mode, SMP). They are
  read-only views that no code under `src/` calls. `HHDM::offset` is the
  `HhdmOffset` constant of `PMM`.
* u64 wrap-around at the top of the address space.
* Re-running `IDT::init` (the spec initialises the table once).
* SS. `load` never writes it, so it keeps Limine's `0x30`, which in
  `gdt_table` is the upper half of the TSS descriptor; the first `iretq`
  after `load` would fault on it. `GDT`'s segment registers leave SS
  out, and the hazard list records this.
* `GDT`'s interrupt-time use of the TSS (`rsp0` on a ring change, IST
  stacks). No ring-3 code exists, and every IDT gate has IST 0.
* Output after the halt. An NMI that wakes `hlt` runs the default handler
  and writes a new report. This has the same cause as the
  `idt_nmi_first_report` finding, and no separate run states it.
* Vectors above 255 passed to `registerHandler`.
* Other cores.
* `Serial::get`, `rx_ready` and `flush`, which no code calls, and the
  receive side of the UART. `ktl::assertion_failure`: no code asserts.
* A UART that never reports THRE. A present 16550 empties its FIFO at its
  baud clock, and an absent one reads 0xFF, so this takes faulty hardware.
  `kpanic` writes COM1 completely before COM2, so on such hardware the debug
  sink would never get the report.

## Plan

1. Done: `PMM`, `Panic`, `IDT`, `Format`, `GDT`, the Limine memory map
   view, the `AbstractAllocator` refinement, `Boot` with `Serial`, and
   the EFI runtime walk.
2. Substitute `Format` into `Panic`, so that the report parts are the
   rendered text of the message.
3. `Kernel`: compose `PMM` with `IDT`, so that the allocator's panics go
   through `kpanic`, and an NMI can arrive during an allocator call.
4. Done: the formatter's `print` overloads for integers, strings, arrays
   and pairs, and `put_dec`.
