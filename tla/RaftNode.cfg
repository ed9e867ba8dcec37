\* All honest histories of two terms with logs of up to two entries.
CONSTANTS
    Self = self
    Candidates = {c1, c2}
    None = none
    MaxTerm = 2
    MaxLen = 2
    Histories <- AllHistories
    MaxRestarts = 1
SPECIFICATION FairRaftSpec
INVARIANTS LogMatching CommittedUnlessLeftover AppliedUnlessLeftover OneGrantPerTerm
PROPERTIES AppliedWhenQuiet
CHECK_DEADLOCK FALSE
