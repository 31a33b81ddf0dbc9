\* Every nesting of three loops, sums, lets, entrypoints and comment layouts.
SPECIFICATION Spec
CONSTANTS
    None = None
    MaxU64 = 63
    ReadCeiling = 6
    LookUpLines = 2
    Files <- MCFiles
    RuleSources <- MCRuleSources
INVARIANTS
    TypeOK
    FindingsAreExact
    UncountedBodiesAreReported
    PanicsExactlyOnReversedRange
    EstimateJudgesTheReads
