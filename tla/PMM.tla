-------------------------------- MODULE PMM --------------------------------
(***************************************************************************)
(* The physical page allocator of src/kernel/Source/core/pmm.hh           *)
(* (class PhysicalMemoryManager).                                          *)
(*                                                                         *)
(* The freelist is intrusive: the node of a free page is stored in the     *)
(* page itself.  The model therefore keeps physical memory as `mem`, a     *)
(* function from page frames to the value of the node's `next` field, and  *)
(* the list is whatever chain of pointers head, mem and tail spell out.    *)
(* Pointers are plain numbers, as in the code: init links nodes through    *)
(* their physical address, free links them through phys + HHDM offset.     *)
(* Both views are assumed to map every frame (the identity view is what    *)
(* init writes through), so a pointer p names frame p % Span.              *)
(*                                                                         *)
(* Every public operation is one action: the code runs on a single core   *)
(* with no locks, so each call is atomic with respect to the others.       *)
(***************************************************************************)
EXTENDS Integers, Sequences, SequencesExt, FiniteSets

CONSTANTS
  PageSize,      \* PhysicalMemoryManager::PageSize (scaled down)
  MinPhysical,   \* PhysicalMemoryManager::kMinPhysical (scaled down)
  Span,          \* size of physical memory: frames are 0, PageSize, .. < Span
  HhdmOffset,    \* Limine::HHDM::offset(): 0 when the HHDM is unavailable
  Builds,        \* builds considered: [fifo, zeroOnAlloc, zeroOnFree] flags
  PanicOnError,  \* kPanicOnError
  Usable,        \* LIMINE_MEMMAP_USABLE
  MemMaps,       \* memmap responses the bootloader may leave
  Clients,       \* clients considered: each the set of addresses it may pass
                 \* to free besides the ones it holds
  ReserveReqs    \* <<base, length>> arguments the client may reserve

ASSUME PageSize > 0 /\ MinPhysical % PageSize = 0 /\ Span % PageSize = 0
ASSUME HhdmOffset = 0 \/ HhdmOffset = Span

\* nullptr: pointers are numbers, and the null pointer is the number 0.
Null == 0

VARIABLES
  phase,       \* "boot" | "ready" | "panicked" | "hung"
  head,        \* s_freelist_head
  tail,        \* s_freelist_tail
  mem,         \* frame -> the `next` field stored in that frame
  totalPages,  \* s_total_pages
  freePages,   \* s_free_pages
  live,        \* ghost: addresses handed out and not yet given back
  carved,      \* ghost: the pages the memory map makes usable (reference)
  reserved,    \* ghost: frames of reserved ranges not freed since
  everReserved, \* ghost: frames of every range passed to reserveRegion
  event,       \* ghost: the call of the last step and its result
  build,       \* the build's constexpr flags (fixed for a behaviour)
  client       \* the client's extra arguments to free (fixed for a behaviour)

list == <<head, tail, mem, totalPages, freePages>>
ghosts == <<live, carved, reserved, everReserved>>
config == <<build, client>>
vars == <<phase, list, ghosts, event, config>>

\* The constexpr flags of constants.h the allocator reads.
UseFifo == build.fifo
ZeroOnAlloc == build.zeroOnAlloc
ZeroOnFree == build.zeroOnFree
FreeExtra == client

Frames == {a \in 0..(Span - 1) : a % PageSize = 0}
Frame(p) == p % Span
\* A store through p reaches memory only when p is in one of the two views.
Mapped(p) == p < Span + HhdmOffset

\* alignUp / alignDown for a power-of-two alignment, on addresses far below
\* 2^64 (the bit masks clear the low bits; nothing wraps).
alignUp(a)   == ((a + PageSize - 1) \div PageSize) * PageSize
\* (mutant) the end rounded up instead of down
alignDown_RoundsUp(a) == alignUp(a)
alignDown(a) == (a \div PageSize) * PageSize

\* Pages of [start, end) one PageSize apart, ascending, as the for loops
\* of addRegion and reserveRegion visit them.
PageRange(start, end) ==
  [i \in 1..((end - start) \div PageSize) |-> start + (i - 1) * PageSize]

\* Enough steps to walk any acyclic chain of distinct aligned pointers.
Fuel == (Span + HhdmOffset) \div PageSize + 1

\* The chain of nodes reachable from p in memory m, at most n of them.
RECURSIVE ChainIn(_, _, _)
ChainIn(m, p, n) ==
  IF p = Null \/ n = 0 THEN <<>> ELSE <<p>> \o ChainIn(m, m[Frame(p)], n - 1)

\* The freelist as the code would walk it from s_freelist_head.
FreeList == ChainIn(mem, head, Fuel)
\* A walk `for (it = head; it != nullptr; it = it->next)` ends.
ListEnds == Len(ChainIn(mem, head, Fuel + 1)) <= Fuel

-----------------------------------------------------------------------------
(* PhysicalMemoryManager::init and addRegion                              *)

\* The insertion step shared by addRegion (page->next already nullptr).
\* (mutant) the FIFO and LIFO branches exchanged
AddPage_Swapped(s, addr) ==
  LET m0 == [s.mem EXCEPT ![Frame(addr)] = Null]
  IN  IF ~UseFifo
      THEN IF s.tail # Null
           THEN [s EXCEPT !.mem = [m0 EXCEPT ![Frame(s.tail)] = addr],
                          !.tail = addr, !.total = @ + 1, !.free = @ + 1]
           ELSE [s EXCEPT !.mem = m0, !.head = addr, !.tail = addr,
                          !.total = @ + 1, !.free = @ + 1]
      ELSE [s EXCEPT !.mem = [m0 EXCEPT ![Frame(addr)] = s.head],
                     !.head = addr,
                     !.tail = IF s.tail = Null THEN addr ELSE s.tail,
                     !.total = @ + 1, !.free = @ + 1]

AddPage(s, addr) ==
  LET m0 == [s.mem EXCEPT ![Frame(addr)] = Null]
  IN  IF UseFifo
      THEN IF s.tail # Null
           THEN [s EXCEPT !.mem = [m0 EXCEPT ![Frame(s.tail)] = addr],
                          !.tail = addr, !.total = @ + 1, !.free = @ + 1]
           ELSE [s EXCEPT !.mem = m0, !.head = addr, !.tail = addr,
                          !.total = @ + 1, !.free = @ + 1]
      ELSE [s EXCEPT !.mem = [m0 EXCEPT ![Frame(addr)] = s.head],
                     !.head = addr,
                     !.tail = IF s.tail = Null THEN addr ELSE s.tail,
                     !.total = @ + 1, !.free = @ + 1]

addRegion(s, base, length) ==
  LET rs == alignUp(base)
      re == alignDown(base + length)
  IN  IF rs >= re THEN s ELSE FoldLeft(AddPage, s, PageRange(rs, re))

\* One memory-map entry of the loop in init: clip to kMinPhysical, then add.
\* (mutant) the start is not raised to kMinPhysical
ScanEntry_NoClip(s, e) ==
  IF e.type # Usable \/ e.base + e.length <= MinPhysical THEN s
  ELSE addRegion(s, e.base, e.length)

ScanEntry(s, e) ==
  LET start == e.base
      end   == e.base + e.length
  IN  IF e.type # Usable \/ end <= MinPhysical THEN s
      ELSE LET st == IF start < MinPhysical THEN MinPhysical ELSE start
           IN  addRegion(s, st, end - st)

\* Reference: the pages of a memory map the spec says init must carve, the
\* aligned pages of Usable entries lying at or above kMinPhysical.
RefPages(e) ==
  IF e.type # Usable THEN {}
  ELSE {a \in Frames : /\ a >= MinPhysical /\ a >= e.base
                       /\ a + PageSize <= e.base + e.length}
RefCarved(map) == UNION {RefPages(map[i]) : i \in 1..Len(map)}

\* Limine::MemoryMap over a memmap response r; r.response is FALSE for a
\* null response pointer.
MemoryMapAvailable(r) ==
  r.response /\ r.revision # 0 /\ Len(r.entries) > 0
entryCount(r) == IF MemoryMapAvailable(r) THEN Len(r.entries) ELSE 0
entryAt(r, i) == r.entries[i]

Init ==
  /\ phase = "boot"
  /\ head = Null /\ tail = Null
  /\ mem = [f \in Frames |-> Null]
  /\ totalPages = 0 /\ freePages = 0
  /\ live = {} /\ carved = {} /\ reserved = {} /\ everReserved = {}
  /\ event = [op |-> "none", arg |-> 0]
  /\ build \in Builds /\ client \in Clients

PmmInit ==
  /\ phase = "boot"
  /\ \E r \in MemMaps :
       LET map == [i \in 1..entryCount(r) |-> entryAt(r, i)]
       IN
       IF ~MemoryMapAvailable(r)
       THEN /\ phase' = "panicked"
            /\ event' = [op |-> "init", arg |-> map]
            /\ UNCHANGED <<list, ghosts>>
       ELSE LET s0 == [head |-> head, tail |-> tail, mem |-> mem,
                       total |-> totalPages, free |-> freePages]
                s  == FoldLeft(ScanEntry, s0, map)
            IN  /\ phase' = "ready"
                /\ head' = s.head /\ tail' = s.tail /\ mem' = s.mem
                /\ totalPages' = s.total /\ freePages' = s.free
                /\ carved' = RefCarved(map)
                /\ event' = [op |-> "init", arg |-> map]
                /\ UNCHANGED <<live, reserved, everReserved>>

-----------------------------------------------------------------------------
(* allocate and tryAllocate                                               *)

\* (mutant) the empty check dropped
allocate_NoEmptyCheck(op) ==
  LET page == head
      next == mem[Frame(page)]
  IN  /\ head' = next
      /\ tail' = IF UseFifo /\ next = Null THEN Null ELSE tail
      /\ freePages' = freePages - 1
      /\ mem' = IF ZeroOnAlloc THEN [mem EXCEPT ![Frame(page)] = Null] ELSE mem
      /\ live' = live \cup {page}
      /\ event' = [op |-> op, arg |-> page]
      /\ UNCHANGED <<phase, totalPages, carved, reserved, everReserved>>

\* (mutant) s_freelist_head not advanced
allocate_NoPop(op) ==
  IF head = Null
  THEN /\ phase' = "panicked"
       /\ event' = [op |-> op, arg |-> Null]
       /\ UNCHANGED <<list, ghosts>>
  ELSE /\ freePages' = freePages - 1
       /\ live' = live \cup {head}
       /\ event' = [op |-> op, arg |-> head]
       /\ UNCHANGED <<phase, head, tail, mem, totalPages, carved, reserved, everReserved>>

\* (mutant) FIFO tail not cleared when the list empties
allocate_NoTailReset(op) ==
  IF head = Null
  THEN /\ phase' = "panicked"
       /\ event' = [op |-> op, arg |-> Null]
       /\ UNCHANGED <<list, ghosts>>
  ELSE /\ head' = mem[Frame(head)]
       /\ freePages' = freePages - 1
       /\ mem' = IF ZeroOnAlloc THEN [mem EXCEPT ![Frame(head)] = Null] ELSE mem
       /\ live' = live \cup {head}
       /\ event' = [op |-> op, arg |-> head]
       /\ UNCHANGED <<phase, tail, totalPages, carved, reserved, everReserved>>

allocate(op) ==
  IF head = Null
  THEN /\ phase' = "panicked"
       /\ event' = [op |-> op, arg |-> Null]
       /\ UNCHANGED <<list, ghosts>>
  ELSE LET page == head
           next == mem[Frame(page)]
       IN  /\ head' = next
           /\ tail' = IF UseFifo /\ next = Null THEN Null ELSE tail
           /\ freePages' = freePages - 1
           /\ mem' = IF ZeroOnAlloc THEN [mem EXCEPT ![Frame(page)] = Null]
                                   ELSE mem
           \* the physical address returned is the node pointer's value
           /\ live' = live \cup {page}
           /\ event' = [op |-> op, arg |-> page]
           /\ UNCHANGED <<phase, totalPages, carved, reserved, everReserved>>

Allocate ==
  /\ phase = "ready"
  /\ allocate("alloc")

TryAllocate ==
  /\ phase = "ready"
  /\ IF head = Null
     THEN /\ event' = [op |-> "tryalloc", arg |-> 0]
          /\ UNCHANGED <<phase, list, ghosts>>
     ELSE allocate("tryalloc")

-----------------------------------------------------------------------------
(* free                                                                   *)

\* The double-free scan: "found", "absent", or "diverges" on a cyclic list.
ScanFor(page) ==
  IF \E i \in 1..Len(FreeList) : FreeList[i] = page THEN "found"
  ELSE IF ListEnds THEN "absent" ELSE "diverges"

\* Insertion of page by free, in the order the code stores the fields.
InsertFreed(m, page) ==
  IF UseFifo
  THEN IF tail # Null
       THEN [ mem  |-> [[m EXCEPT ![Frame(tail)] = page] EXCEPT ![Frame(page)] = Null],
              head |-> head, tail |-> page ]
       ELSE [ mem  |-> [m EXCEPT ![Frame(page)] = Null],
              head |-> page, tail |-> page ]
  ELSE [ mem  |-> [m EXCEPT ![Frame(page)] = head],
         head |-> page,
         tail |-> IF tail = Null THEN page ELSE tail ]

\* The misuse branch shared by the alignment and double-free checks.
Misuse(op, a) ==
  /\ phase' = IF PanicOnError THEN "panicked" ELSE phase
  /\ event' = [op |-> op, arg |-> a]
  /\ UNCHANGED <<list, ghosts>>

free(a) ==
  LET page == a + HhdmOffset
  IN  IF a % PageSize # 0 THEN Misuse("misaligned", a)
      ELSE CASE ScanFor(page) = "found"    -> Misuse("doublefree", a)
             [] ScanFor(page) = "diverges" ->
                  /\ phase' = "hung"
                  /\ event' = [op |-> "free", arg |-> a]
                  /\ UNCHANGED <<list, ghosts>>
             [] OTHER ->
                  \* the stores through page fault when it is not mapped
                  IF ~Mapped(page) \/ (UseFifo /\ tail # Null /\ ~Mapped(tail))
                  THEN /\ phase' = "panicked"
                       /\ event' = [op |-> "free", arg |-> a]
                       /\ UNCHANGED <<list, ghosts>>
                  ELSE LET m0 == IF ZeroOnFree THEN [mem EXCEPT ![Frame(page)] = Null]
                                               ELSE mem
                           s  == InsertFreed(m0, page)
                       IN  /\ mem' = s.mem /\ head' = s.head /\ tail' = s.tail
                           /\ freePages' = freePages + 1
                           /\ live' = live \ {a}
                           /\ reserved' = reserved \ {Frame(page)}
                           /\ event' = [op |-> "free", arg |-> a]
                           /\ UNCHANGED <<phase, totalPages, carved, everReserved>>

Free ==
  /\ phase = "ready"
  /\ \E a \in live \cup FreeExtra : free(a)

-----------------------------------------------------------------------------
(* reserveRegion                                                          *)

\* The scan-and-splice inner loop for one address, from (prev, it).
\* (mutant) a match at the head of the list is stepped over
RECURSIVE SpliceOut_SkipHead(_, _, _, _, _)
SpliceOut_SkipHead(addr, prev, it, s, n) ==
  IF it = Null THEN s
  ELSE IF n = 0 THEN [s EXCEPT !.hung = TRUE]
  ELSE IF it = addr /\ prev # Null
       THEN LET m == [s.mem EXCEPT ![Frame(prev)] = s.mem[Frame(it)]]
            IN  SpliceOut_SkipHead(addr, prev, m[Frame(prev)],
                                   [s EXCEPT !.mem = m, !.removed = @ + 1], n - 1)
       ELSE SpliceOut_SkipHead(addr, it, s.mem[Frame(it)], s, n - 1)

RECURSIVE SpliceOut(_, _, _, _, _)
SpliceOut(addr, prev, it, s, n) ==
  IF it = Null THEN s
  ELSE IF n = 0 THEN [s EXCEPT !.hung = TRUE]
  ELSE IF it = addr
       THEN IF prev = Null
            THEN LET h == s.mem[Frame(it)]
                 IN  SpliceOut(addr, Null, h,
                               [s EXCEPT !.head = h, !.removed = @ + 1], n - 1)
            ELSE LET m == [s.mem EXCEPT ![Frame(prev)] = s.mem[Frame(it)]]
                 IN  SpliceOut(addr, prev, m[Frame(prev)],
                               [s EXCEPT !.mem = m, !.removed = @ + 1], n - 1)
       ELSE SpliceOut(addr, it, s.mem[Frame(it)], s, n - 1)

ReserveOne(s, addr) ==
  IF s.hung THEN s ELSE SpliceOut(addr, Null, s.head, s, Fuel)

\* The FIFO tail recomputation: the first node whose next is nullptr.
LastNode(m, h) ==
  LET c == ChainIn(m, h, Fuel)
  IN  IF c = <<>> THEN Null ELSE Last(c)

reserveRegion(base, length) ==
  LET rs == alignUp(base)
      re == alignDown(base + length)
      s0 == [head |-> head, mem |-> mem, removed |-> 0, hung |-> FALSE]
      s  == FoldLeft(ReserveOne, s0, PageRange(rs, re))
      cyclic == Len(ChainIn(s.mem, s.head, Fuel + 1)) > Fuel
  IN  IF rs >= re
      THEN /\ event' = [op |-> "reserve", arg |-> base]
           /\ UNCHANGED <<phase, list, ghosts>>
      ELSE IF s.hung \/ (UseFifo /\ cyclic)
      THEN /\ phase' = "hung"
           /\ event' = [op |-> "reserve", arg |-> base]
           /\ UNCHANGED <<list, ghosts>>
      ELSE /\ head' = s.head /\ mem' = s.mem
           /\ freePages' = freePages - s.removed
           /\ tail' = IF UseFifo THEN LastNode(s.mem, s.head) ELSE tail
           /\ reserved' = reserved \cup Range(PageRange(rs, re))
           /\ everReserved' = everReserved \cup Range(PageRange(rs, re))
           /\ event' = [op |-> "reserve", arg |-> base]
           /\ UNCHANGED <<phase, totalPages, live, carved>>

ReserveRegion ==
  /\ phase = "ready"
  /\ \E r \in ReserveReqs : reserveRegion(r[1], r[2])

\* haltCatchFire after kpanic, or a loop that never exits: the core keeps
\* executing hlt (or the loop) and nothing changes.
Halted ==
  /\ phase \in {"panicked", "hung"}
  /\ UNCHANGED vars

Next ==
  /\ \/ PmmInit
     \/ Allocate
     \/ TryAllocate
     \/ Free
     \/ ReserveRegion
     \/ Halted
  /\ UNCHANGED config

Spec == Init /\ [][Next]_vars

-----------------------------------------------------------------------------
(* Properties                                                             *)

FramesOf(S) == {Frame(p) : p \in S}
Ptrs == 0..(Span + HhdmOffset - 1)

TypeOK ==
  /\ phase \in {"boot", "ready", "panicked", "hung"}
  /\ head \in Ptrs /\ tail \in Ptrs
  /\ mem \in [Frames -> Ptrs]
  /\ totalPages \in Nat /\ freePages \in Nat
  /\ live \subseteq Ptrs /\ carved \subseteq Frames
  /\ reserved \subseteq Frames /\ everReserved \subseteq Frames

\* The freelist invariant of the spec's data model, as the code must keep it
\* across init, allocate, free and reserveRegion: walking from
\* s_freelist_head ends, meets no frame twice, meets exactly s_free_pages
\* nodes, and under FIFO s_freelist_tail is the node the walk ends on.
FreeListWellFormed ==
  phase = "ready" =>
    /\ ListEnds
    /\ Cardinality(FramesOf(Range(FreeList))) = Len(FreeList)
    /\ freePages = Len(FreeList)
    /\ UseFifo => tail = IF FreeList = <<>> THEN Null ELSE Last(FreeList)

\* No page is lost or duplicated: for a client that gives back only pages
\* it was handed, every page init carved (by the reference carving) is in
\* exactly one of the freelist, the client's hands or a reserved range, and
\* s_total_pages counts them.
PagesConserved ==
  phase = "ready" /\ client = {} =>
    LET onList == FramesOf(Range(FreeList))
        held   == FramesOf(live)
        gone   == (reserved \cap carved) \ held
    IN  /\ totalPages = Cardinality(carved)
        /\ onList \cup held \cup gone = carved
        /\ Len(FreeList) + Cardinality(held) + Cardinality(gone)
             = Cardinality(carved)

\* allocate / tryAllocate never hand out a page the client still holds.
NoDoubleHandout ==
  [][ /\ event'.op \in {"alloc", "tryalloc"}
      /\ phase' = "ready" /\ head # Null
      => Frame(event'.arg) \notin FramesOf(live) ]_vars

\* A page of a range passed to reserveRegion is not handed out again unless
\* it was given back by free after the reservation.
ReservedStaysOut ==
  [][ /\ event'.op \in {"alloc", "tryalloc"}
      /\ phase' = "ready" /\ head # Null
      => Frame(event'.arg) \notin reserved ]_vars

\* The spec's wording: after reserveRegion(base, length) no allocate ever
\* returns an address inside [alignUp(base), alignDown(base + length)).
SpecReservedNeverHandedOut ==
  [][ /\ event'.op \in {"alloc", "tryalloc"}
      /\ phase' = "ready" /\ head # Null
      => Frame(event'.arg) \notin everReserved ]_vars

\* free never accepts a page whose frame is already on the freelist: the
\* double-free check rejects it before the list is touched.
DoubleFreeRejected ==
  [][ event'.op = "free" /\ phase' = "ready" =>
        Frame(event'.arg) \notin FramesOf(Range(FreeList)) ]_vars


\* The allocator behaves as spec.md's interface describes it
\* (AbstractAllocator): the chain from s_freelist_head, read as a sequence
\* of addresses, is the abstract pool, the pages the client holds are the
\* abstract held set, and a panic or a hang is the abstract halt.  So init
\* carves exactly the Usable pages in scan order (reversed under LIFO),
\* allocate hands out the page the policy names, free puts the page where
\* the policy says, and reserveRegion takes exactly the range's pages out.
Abstract == INSTANCE AbstractAllocator
  WITH aphase <- IF phase \in {"panicked", "hung"} THEN "halted" ELSE phase,
       pool <- FreeList,
       held <- live,
       fifo <- UseFifo,
       PanicOnMisuse <- PanicOnError,
       Addrs <- Ptrs,
       MemMaps <- {[i \in 1..entryCount(r) |-> entryAt(r, i)] : r \in MemMaps}

AllocatorRefinement == Abstract!ASpec

=============================================================================
