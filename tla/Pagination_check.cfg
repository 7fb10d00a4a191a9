SPECIFICATION Spec
INVARIANT PrefixOfListing
INVARIANT CompleteIfServed
INVARIANT PagesBounded
CONSTANTS
    MaxCount = 6
    Limits <- SmallLimits
    PageSizes = {1, 2, 3}
    MaxPages = 4
CHECK_DEADLOCK FALSE
