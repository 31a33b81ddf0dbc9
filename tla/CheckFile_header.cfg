\* A storage read in the header of a loop of unknown count.
SPECIFICATION Spec
CONSTANTS
    None = None
    MaxU64 = 63
    ReadCeiling = 6
    LookUpLines = 2
    Files <- MCFiles
    RuleSources <- MCRuleSources
INVARIANTS
    UncountedReadsAreReported
