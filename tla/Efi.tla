--------------------------------- MODULE Efi ---------------------------------
(***************************************************************************)
(* class Efi of src/kernel/Source/arch/efi.hh over Limine::EFISupport of   *)
(* core/limine.hh: initializeSystemTable, the MemoryMap view of the        *)
(* firmware's memory map, its RuntimeIterator, and the runtime service     *)
(* SetVirtualAddressMap.                                                   *)
(*                                                                         *)
(* Nothing under src/ calls these yet (the file is under #if 0).  The      *)
(* caller modelled is the one the comment before SetVirtualAddressMap      *)
(* asks for: initialise the system table, walk the runtime descriptors,    *)
(* hand them to SetVirtualAddressMap.                                      *)
(*                                                                         *)
(* The firmware's map is a buffer of descriptors DescriptorSize bytes      *)
(* apart (that size is what Limine reports as desc_size).  A descriptor is *)
(* a record [id, runtime]; runtime stands for the EFI_MEMORY_RUNTIME bit   *)
(* of its Attribute.  A read at an offset where no descriptor starts gives *)
(* Junk, whose Attribute may have any value.                               *)
(***************************************************************************)
EXTENDS Integers, Sequences, SequencesExt

CONSTANTS
  Boots,       \* what Limine answered to the two EFI requests
  NoResponse   \* a response pointer left nullptr

\* What a read where no descriptor starts gives (id 0 is no descriptor's).
Junk == [id |-> 0, runtime |-> FALSE]

\* sizeof(MemoryDescriptor): Type, Pad, PhysicalStart, VirtualStart,
\* NumberOfPages, Attribute.
DescBytes == 4 + 4 + 8 + 8 + 8 + 8

VARIABLES
  boot,   \* the Limine responses (fixed at boot)
  ST,     \* Efi::ST: "null" or "table"
  RS,     \* Efi::RS: "null" or "services"
  mm,     \* the MemoryMap object: totalSize, descSize, entryCount_
  idx,    \* RuntimeIterator::idx
  adv,    \* the iterator is inside advanceToNext's loop
  seen,   \* the descriptors the caller read through *it, in order
  vmap,   \* the descriptors passed to SetVirtualAddressMap
  pc      \* the caller: "init", "map", "walk", "call", "done"; "fault"
          \* after a load through a null pointer

vars == <<boot, ST, RS, mm, idx, adv, seen, vmap, pc>>

\* The byte at offset off of the firmware's buffer starts this descriptor.
MemAt(off) ==
  LET fw == boot.mem.fw
      k  == off \div boot.mem.desc_size
  IN  IF off % boot.mem.desc_size = 0 /\ k < Len(fw) THEN fw[k + 1] ELSE Junk

\* efiMemmapSize: the firmware's MemoryMapSize.
efiMemmapSize == Len(boot.mem.fw) * boot.mem.desc_size

\* (mutant) descriptors stepped by sizeof(MemoryDescriptor)
descriptorAt_SizeofStride(i) == MemAt(i * DescBytes)

\* descriptorAt for idx < entryCount_ (the loops never ask past it).
descriptorAt(i) == MemAt(i * mm.descSize)

\* isRuntime: the values the Attribute read can have.
isRuntime(d) == IF d = Junk THEN BOOLEAN ELSE {d.runtime}

\* RuntimeIterator::valid (parent is never nullptr here).
valid == idx < mm.entryCount

\* Limine::EFISupport::systemTableAvailable, on a non-null response.
systemTableAvailable == boot.sys.revision # 0

\* MemoryMap(): base, totalSize, descSize and descVersion from EFISupport,
\* and entryCount_.
MemoryMapCtor ==
  LET ds == boot.mem.desc_size
  IN  [totalSize |-> efiMemmapSize, descSize |-> ds,
       entryCount |-> IF ds = 0 THEN 0 ELSE efiMemmapSize \div ds]

\* RuntimeIterator(parent, start): idx = start, then advanceToNext.
RuntimeIterator(start) == idx' = start /\ adv' = TRUE

\* RuntimeIterator::next when valid: idx++, then advanceToNext.
next == idx' = idx + 1 /\ adv' = TRUE

Init ==
  /\ boot \in Boots
  /\ ST = "null" /\ RS = "null"
  /\ mm = [totalSize |-> 0, descSize |-> 0, entryCount |-> 0]
  /\ idx = 0 /\ adv = FALSE
  /\ seen = <<>> /\ vmap = <<>>
  /\ pc = "init"

\* initializeSystemTable: systemTableAvailable reads the response's
\* revision without a null check; ST and RS are set only when it is not 0.
\* The caller gives up when it returns false.
InitializeSystemTable ==
  /\ pc = "init"
  /\ IF boot.sys = NoResponse
     THEN pc' = "fault" /\ UNCHANGED <<ST, RS>>
     ELSE IF systemTableAvailable
          THEN ST' = "table" /\ RS' = "services" /\ pc' = "map"
          ELSE pc' = "done" /\ UNCHANGED <<ST, RS>>
  /\ UNCHANGED <<boot, mm, idx, adv, seen, vmap>>

\* The caller's `MemoryMap mm;` (whose constructor reads the response with
\* no check) and mm.runtimeBegin(), RuntimeIterator(this, 0).
runtimeBegin ==
  /\ pc = "map"
  /\ IF boot.mem = NoResponse
     THEN pc' = "fault" /\ UNCHANGED <<mm, idx, adv>>
     ELSE mm' = MemoryMapCtor /\ RuntimeIterator(0) /\ pc' = "walk"
  /\ UNCHANGED <<boot, ST, RS, seen, vmap>>

\* (mutant) a non-runtime descriptor does not move the iterator
advanceToNext_NoIncrement ==
  /\ adv
  /\ IF idx < mm.entryCount
     THEN \E rt \in isRuntime(descriptorAt(idx)) :
            IF rt THEN adv' = FALSE /\ UNCHANGED idx ELSE UNCHANGED <<idx, adv>>
     ELSE adv' = FALSE /\ UNCHANGED idx
  /\ UNCHANGED <<boot, ST, RS, mm, seen, vmap, pc>>

\* One turn of advanceToNext's loop: stop at a runtime descriptor or at
\* the end, else step over the descriptor.
advanceToNext ==
  /\ adv
  /\ IF idx < mm.entryCount
     THEN \E rt \in isRuntime(descriptorAt(idx)) :
            IF rt THEN adv' = FALSE /\ UNCHANGED idx ELSE idx' = idx + 1 /\ UNCHANGED adv
     ELSE adv' = FALSE /\ UNCHANGED idx
  /\ UNCHANGED <<boot, ST, RS, mm, seen, vmap, pc>>

\* The caller's loop body reads *it (operator*: descriptorAt(idx)); then
\* it.next().
Visit ==
  /\ pc = "walk" /\ ~adv /\ valid
  /\ seen' = Append(seen, descriptorAt(idx))
  /\ next
  /\ UNCHANGED <<boot, ST, RS, mm, vmap, pc>>

\* it.valid() is false: the walk is over.
WalkEnd ==
  /\ pc = "walk" /\ ~adv /\ ~valid
  /\ pc' = "call"
  /\ UNCHANGED <<boot, ST, RS, mm, idx, adv, seen, vmap>>

\* Efi::SetVirtualAddressMap calls through RS, which the caller's
\* successful initializeSystemTable set.
SetVirtualAddressMap ==
  /\ pc = "call"
  /\ vmap' = seen /\ pc' = "done"
  /\ UNCHANGED <<boot, ST, RS, mm, idx, adv, seen>>

Stopped == pc \in {"done", "fault"} /\ UNCHANGED vars

Step == InitializeSystemTable \/ runtimeBegin \/ advanceToNext \/ Visit \/ WalkEnd
          \/ SetVirtualAddressMap

Next == Step \/ Stopped

\* One core runs the caller to its end.
Spec == Init /\ [][Next]_vars /\ WF_vars(Step)

-----------------------------------------------------------------------------
(* Properties                                                             *)

\* The runtime descriptors of the firmware's map, in map order.
RuntimeDescs == SelectSeq(boot.mem.fw, LAMBDA d : d.runtime)

\* Every descriptor the runtime walk yields is the next runtime descriptor
\* of the firmware's map: descriptorAt strides by the firmware's descriptor
\* size (larger than sizeof(MemoryDescriptor) on real firmware), and the
\* iterator neither skips nor repeats one nor reads past entryCount_.
RuntimeWalkExact ==
  pc \in {"walk", "call", "done"} /\ ST = "table" => IsPrefix(seen, RuntimeDescs)

\* The caller always finishes, and when the system table was initialised
\* SetVirtualAddressMap is given exactly the runtime descriptors: the
\* walk ends and misses none.
HandOffComplete ==
  <>(\/ pc = "fault"
     \/ pc = "done" /\ (ST = "table" => vmap = RuntimeDescs))

=============================================================================
