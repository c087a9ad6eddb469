CONSTANTS
    W4 <- MCW4
    W6 <- MCW6
    NONE = NONE
    TypeError = TypeError
    ValueError = ValueError
    IndexError = IndexError
    NetmaskValueError = NetmaskValueError
    AddressValueError = AddressValueError
SPECIFICATION Spec
\* Each behaviour is one call of a side-effect-free method and ends there.
CHECK_DEADLOCK FALSE
INVARIANTS
    TypeOK
    SubnetPartition
    SupernetOfNonNegativeDiff
    GetItemMatchesIteration
    OrderingConsistent
    OverlapsIsIntersection
    MaskPrefixExact
    AddressOrderConsistent
    HashRespectsEq
    AddressArithmeticExact
    IterHostsExact
