------------------------------- MODULE MC_PMM -------------------------------
(***************************************************************************)
(* Model-checking instance of PMM.  Addresses are scaled down: a page is  *)
(* 4 units, physical memory is 32 units (8 frames), kMinPhysical is 8.     *)
(* The memory map has an entry wholly below kMinPhysical, one straddling   *)
(* it with an unaligned end, a reserved entry, and an unaligned usable     *)
(* entry, so every branch of init's clipping and alignment is taken; it    *)
(* yields three pages 8, 12, 24.  A null response and an empty one stand *)
(* for a bootloader that gave no usable memory map.                        *)
(***************************************************************************)
EXTENDS PMM

MCUsable == "usable"

MCMemMap ==
  << [base |-> 0,  length |-> 6,  type |-> "usable"],
     [base |-> 2,  length |-> 15, type |-> "usable"],
     [base |-> 17, length |-> 3,  type |-> "reserved"],
     [base |-> 21, length |-> 8,  type |-> "usable"] >>

\* The memmap request's response: the map above, a null response, and a
\* response with no entries.
MCMemMaps == { [response |-> TRUE,  revision |-> 1, entries |-> MCMemMap],
               [response |-> FALSE, revision |-> 0, entries |-> <<>>],
               [response |-> TRUE,  revision |-> 1, entries |-> <<>>] }

\* reserveRegion arguments: one page, an empty aligned range, and a range
\* that covers pages never carved as well as carved ones.
MCReserveReqs == {<<10, 6>>, <<9, 3>>, <<20, 12>>}

\* The default build of constants.h (LIFO, no zeroing) and the FIFO build
\* with both zeroing options.
MCDefaultBuild == [fifo |-> FALSE, zeroOnAlloc |-> FALSE, zeroOnFree |-> FALSE]
MCFifoBuild == [fifo |-> TRUE, zeroOnAlloc |-> TRUE, zeroOnFree |-> TRUE]
MCBuilds == {MCDefaultBuild, MCFifoBuild}
MCDefaultBuildSet == {MCDefaultBuild}

\* A client that gives back only what it was handed.
MCFreeHonest == {}
\* A client that also frees a misaligned address, a page it never got and
\* a page the memory map marks reserved.
MCFreeMisuse == {13, 8, 16}
\* tryAllocate's failure sentinel passed to free.
MCFreeNull == {0}
\* An honest client and a misusing one.
MCClients == {MCFreeHonest, MCFreeMisuse}
MCHonestClient == {MCFreeHonest}
MCMisuseClient == {MCFreeMisuse}
MCNullClient == {MCFreeNull}
=============================================================================
