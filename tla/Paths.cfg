SPECIFICATION MCSpec
CONSTANTS
    Entry <- Tree
    RootConfig <- Schedules
    RawPrefix <- Entered
    UnixName <- UnixNames
    Indexed <- MCIndexed
    Request <- Requests
    MaxSpelling = 4
    MaxPrefix = 4
    MaxRequest = 5
    MaxGrants = 1
    f1 = f1
    d1 = d1
    d2 = d2
    Row <- MCRow
    IsDir = {d1, d2}
    bob = bob
    Owner = {bob}
    Counts = {1, 3}
    MaxInt32 = 2
    MaxLimit = 3
    DefaultLimit = 2
    PathMatch <- Halves
    Limits = {0}
    MaxRules = 2
    MaxPublished = 1
INVARIANTS RowsAreAddressable RootsAreSeparate ListedWithinGrants ViewsAgree UserOpensOwnDirectory SearchStaysInScope NotIsComplement DecoratedAsOfOneMoment
PROPERTY RunRewritesItsRoots
