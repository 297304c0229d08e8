-------------------------- MODULE AbstractAllocator --------------------------
(***************************************************************************)
(* The page allocator as spec.md describes its interface (sections 2, 3   *)
(* and 6): a pool of free pages ordered by policy, and the pages the       *)
(* client holds.  Nothing here is about nodes, pointers or counters.       *)
(*                                                                         *)
(*  - init puts the aligned pages of the Usable regions at or above        *)
(*    min_physical into the pool, in region scan order;                    *)
(*  - under FIFO pages leave in the order they entered; under LIFO the     *)
(*    most recently freed page leaves first;                               *)
(*  - allocate on an empty pool halts; tryAllocate returns empty;         *)
(*  - free rejects a misaligned address and one already in the pool       *)
(*    (halting under panic_on_misuse) and otherwise returns the page;     *)
(*  - reserveRegion takes the pages of [alignUp(base),                     *)
(*    alignDown(base + length)) out of the pool.                           *)
(***************************************************************************)
EXTENDS Integers, Sequences, SequencesExt

CONSTANTS
  PageSize, MinPhysical, PanicOnMisuse, Usable,
  MemMaps,     \* memory maps init may be given
  Addrs,       \* addresses free may be given
  ReserveReqs  \* <<base, length>> arguments of reserveRegion

VARIABLES
  aphase,  \* "boot" | "ready" | "halted"
  pool,    \* the free pages, next to be handed out first
  held,    \* the pages handed out and not given back
  fifo     \* the policy the build fixed: TRUE for FIFO, FALSE for LIFO

avars == <<aphase, pool, held, fifo>>

AlignUp(a)   == ((a + PageSize - 1) \div PageSize) * PageSize
AlignDown(a) == (a \div PageSize) * PageSize

\* The pages of one region in ascending order.
RegionPages(e) ==
  LET lo == AlignUp(IF e.base < MinPhysical THEN MinPhysical ELSE e.base)
      hi == AlignDown(e.base + e.length)
  IN  IF e.type # Usable \/ lo >= hi THEN <<>>
      ELSE [i \in 1..((hi - lo) \div PageSize) |-> lo + (i - 1) * PageSize]

\* Where a page entering the pool goes.
Enter(q, p) == IF fifo THEN Append(q, p) ELSE <<p>> \o q

Halt == aphase' = "halted" /\ UNCHANGED <<pool, held>>

AInit == aphase = "boot" /\ pool = <<>> /\ held = {} /\ fifo \in BOOLEAN

Boot ==
  /\ aphase = "boot"
  /\ \E map \in MemMaps :
       IF map = <<>> THEN Halt
       ELSE /\ aphase' = "ready"
            /\ pool' = FoldLeft(Enter, <<>>, FlattenSeq([i \in 1..Len(map) |-> RegionPages(map[i])]))
            /\ UNCHANGED held

Hand == pool' = Tail(pool) /\ held' = held \cup {Head(pool)} /\ UNCHANGED aphase

Allocate == aphase = "ready" /\ IF pool = <<>> THEN Halt ELSE Hand

TryAllocate == aphase = "ready" /\ pool # <<>> /\ Hand

Free ==
  /\ aphase = "ready"
  /\ \E a \in Addrs :
       IF a % PageSize # 0 \/ \E i \in 1..Len(pool) : pool[i] = a
       THEN PanicOnMisuse /\ Halt
       ELSE pool' = Enter(pool, a) /\ held' = held \ {a} /\ UNCHANGED aphase

Reserve ==
  /\ aphase = "ready"
  /\ \E r \in ReserveReqs :
       LET lo == AlignUp(r[1])
           hi == AlignDown(r[1] + r[2])
       IN  /\ pool' = SelectSeq(pool, LAMBDA p : p < lo \/ p >= hi)
           /\ UNCHANGED <<aphase, held>>

ANext == (Boot \/ Allocate \/ TryAllocate \/ Free \/ Reserve) /\ UNCHANGED fifo

ASpec == AInit /\ [][ANext]_avars

=============================================================================
