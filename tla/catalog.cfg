\* Catalogs of up to three rows of two suppliers, at most one column mapped by hand, and
\* the exported file imported again.
SPECIFICATION Spec
CONSTANTS
  Undefined = Undefined
  NaN = NaN
  Files <- MCFiles
  TargetFields <- MCTargetFields
  MaxRounds = 2
INVARIANTS
  FlowTypeOK
  RowsKept
  SkusJudged
  RoundTrip
  ToolsAgree
