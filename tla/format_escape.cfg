\* The same calls, checked against the documented escape and substitution rules.
CONSTANTS
  Cases <- MCCases
SPECIFICATION Spec
INVARIANT OutputAsDocumented
