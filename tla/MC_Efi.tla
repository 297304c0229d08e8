-------------------------------- MODULE MC_Efi --------------------------------
(***************************************************************************)
(* Model-checking instance of Efi.  Limine may leave either EFI response   *)
(* null (a BIOS boot), or answer with revision 0 or 1.  The firmware map   *)
(* is one of: four descriptors 48 bytes apart (a common DescriptorSize,    *)
(* larger than the struct) with runtime ones second and last; two          *)
(* descriptors exactly sizeof(MemoryDescriptor) apart, runtime first; an   *)
(* empty map; three 56 bytes apart, two runtime ones in a row; three with  *)
(* no runtime descriptor; and BigMap, with either revision.                *)
(***************************************************************************)
EXTENDS Efi

CONSTANTS NoResp

D(id, rt) == [id |-> id, runtime |-> rt]

MCSysAnswers == {NoResp, [revision |-> 0], [revision |-> 1]}

\* A real machine's map: eight descriptors, runtime code and data regions
\* interleaved with others, the last one runtime.
BigMap == <<D(1, FALSE), D(2, FALSE), D(3, TRUE), D(4, FALSE), D(5, TRUE), D(6, TRUE),
            D(7, FALSE), D(8, TRUE)>>

\* The constructor reads the fields whatever the response's revision, so
\* the big map comes with revision 0 as well as 1.
MCMemAnswers ==
  {NoResp,
   [revision |-> 1, desc_size |-> 48, fw |-> <<D(1, FALSE), D(2, TRUE), D(3, FALSE), D(4, TRUE)>>],
   [revision |-> 0, desc_size |-> 40, fw |-> <<D(1, TRUE), D(2, FALSE)>>],
   [revision |-> 1, desc_size |-> 48, fw |-> <<>>],
   [revision |-> 1, desc_size |-> 56, fw |-> <<D(1, TRUE), D(2, TRUE), D(3, FALSE)>>],
   [revision |-> 1, desc_size |-> 40, fw |-> <<D(1, FALSE), D(2, FALSE), D(3, FALSE)>>],
   [revision |-> 1, desc_size |-> 48, fw |-> BigMap],
   [revision |-> 0, desc_size |-> 48, fw |-> BigMap]}

MCBoots == [sys : MCSysAnswers, mem : MCMemAnswers]
=============================================================================
