\* printf over the format strings of MC_Format.
CONSTANTS
  Cases <- MCCases
SPECIFICATION Spec
INVARIANT PlaceholdersRenderArgs
