\* BIOS and UEFI boots: each EFI response null, revision 0 or 1; firmware
\* maps with a descriptor stride above and equal to the struct size, and
\* an empty one.
CONSTANTS
  NoResp = NoResp
  NoResponse <- NoResp
  Boots <- MCBoots
SPECIFICATION Spec
INVARIANT RuntimeWalkExact
PROPERTY HandOffComplete
