SPECIFICATION Spec
CONSTANTS
    Device <- Devices
    Alias = {x}
    x = x
    Wall <- Clocks
    Quota <- EachWrites
    MaxIncarnation = 1
INVARIANT TypeOK
INVARIANT CausalOrder
INVARIANT SameHistorySameState
INVARIANT NoNameComesBack
INVARIANT RowsFollowLifecycle
INVARIANT RowsFollowState
INVARIANT AliasesFollowSet
INVARIANT ProseConvergesInOrder
